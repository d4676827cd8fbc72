--------------------------- MODULE MCTransferPlan ---------------------------
\* Layouts of both sides that cut the same small model differently.
EXTENDS TransferPlan

Layout(tp, attnTp, ep, epTp, dp, pp, vp) ==
  [tp |-> tp, attnTp |-> attnTp, ep |-> ep, epTp |-> epTp, dp |-> dp, pp |-> pp, vp |-> vp,
   cores |-> 1, numbering |-> "local"]

\* A vLLM engine with dp cores; experts are parallel over all its workers.
VllmLayout(tp, ep, dp, pp, numbering) ==
  [tp |-> tp, attnTp |-> tp, ep |-> ep, epTp |-> 1, dp |-> dp, pp |-> pp, vp |-> 1, cores |-> dp,
   numbering |-> numbering]

\* Training: data parallel, tensor parallel over two and over three, expert
\* parallel with whole experts (data and tensor parallel otherwise) and with
\* tensor parallel ones, pipeline without and with virtual stages.
MCTrainLayouts ==
  {Layout(1, 1, 1, 1, 3, 1, 1), Layout(3, 3, 1, 1, 1, 1, 1), Layout(1, 1, 2, 1, 2, 1, 1),
   Layout(2, 2, 2, 1, 1, 1, 1), Layout(2, 2, 2, 2, 2, 1, 1), Layout(1, 1, 1, 1, 1, 2, 2),
   Layout(2, 2, 1, 1, 1, 2, 1)}

\* Inference: one worker, tensor parallel, attention data parallel over two
\* groups of one and of two workers, with expert parallelism; vLLM with two
\* cores: tensor, expert and pipeline parallel.
MCInferLayouts ==
  {Layout(1, 1, 1, 1, 1, 1, 1), Layout(2, 2, 1, 1, 1, 1, 1), Layout(2, 1, 2, 1, 1, 1, 1),
   Layout(4, 2, 2, 2, 1, 1, 1),
   VllmLayout(2, 1, 2, 1, "local"), VllmLayout(1, 2, 2, 1, "global"), VllmLayout(1, 1, 2, 2, "local")}
=============================================================================

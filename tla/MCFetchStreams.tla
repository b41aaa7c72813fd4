--------------------------- MODULE MCFetchStreams ---------------------------
(* The kinds of request that the renderer makes. *)
EXTENDS FetchStreams

Image == [limited |-> FALSE, buffered |-> TRUE, prioritized |-> FALSE]
Style == [limited |-> FALSE, buffered |-> TRUE, prioritized |-> TRUE]
Stream == [limited |-> TRUE, buffered |-> FALSE, prioritized |-> FALSE]
FrameScript == [limited |-> TRUE, buffered |-> FALSE, prioritized |-> TRUE]
WorkerFetch == [limited |-> TRUE, buffered |-> TRUE, prioritized |-> FALSE]

MCBatches == {<<FrameScript, Image>>, <<WorkerFetch, Stream>>}
=============================================================================

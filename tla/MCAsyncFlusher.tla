--------------------------- MODULE MCAsyncFlusher ---------------------------
(* A small instance of AsyncFlusher: the queue is shorter than the number  *)
(* of submitted works, so it fills up, drains and fails in every order.    *)
EXTENDS AsyncFlusher
=============================================================================

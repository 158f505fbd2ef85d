------------------------------- MODULE Timeout -------------------------------
(***************************************************************************)
(* timeout_t of timeout.c: a one-shot timer built on a dispatch source.    *)
(*                                                                         *)
(* A timeout is a record of the two fields of timeout_t and of the sources *)
(* created for it so far, numbered in the order of their creation:         *)
(*   valid, source       the fields; source = 0 before the first create    *)
(*   status[n]           where source n stands                             *)
(*   refs[n]             references the program owns to source n           *)
(* The life of a source: "none", then "armed"; when it fires its handler   *)
(* runs the block ("called"), clears valid ("cleared") and releases the    *)
(* source ("done"); a source cancelled before it fires is "cancelled".     *)
(*                                                                         *)
(* External (libdispatch): a cancelled source does not fire any more,      *)
(* and a source whose last reference is released is cancelled.  Cancelling *)
(* does not stop a handler that has begun.                                 *)
(***************************************************************************)
EXTENDS Integers

CONSTANT MaxSources   \* bound on the sources created for one timeout

ASSUME MaxSourcesAssumption == MaxSources \in Nat \ {0}

SourceId == 1..MaxSources

TimeoutType ==
  [valid : BOOLEAN,
   source : 0..MaxSources,
   status : [SourceId -> {"none", "armed", "called", "cleared", "done", "cancelled"}],
   refs : [SourceId -> Int]]

\* A zero-filled timeout_t (calloc).
NewTimeout ==
  [valid |-> FALSE, source |-> 0,
   status |-> [n \in SourceId |-> "none"],
   refs |-> [n \in SourceId |-> 0]]

\* dispatch_release of the source the timeout points to.
dispatch_release(to) ==
  LET s == to.source
  IN  [to EXCEPT !.refs[s] = to.refs[s] - 1,
                 !.status[s] = IF to.refs[s] = 1 /\ to.status[s] = "armed"
                               THEN "cancelled" ELSE to.status[s]]

\* dispatch_source_cancel followed by dispatch_release, if the timeout is valid.
timeout_destroy(to) ==
  IF to.valid THEN [dispatch_release(to) EXCEPT
                      !.valid = FALSE,
                      !.status[to.source] = IF to.status[to.source] = "armed"
                                            THEN "cancelled" ELSE to.status[to.source]]
  ELSE to

\* timeout_create_block: destroys a valid timeout, then creates and resumes
\* the next source.
timeout_create_block(to) ==
  LET n == to.source + 1
  IN  [timeout_destroy(to) EXCEPT
         !.valid = TRUE, !.source = n, !.status[n] = "armed", !.refs[n] = 1]

\* The three steps of source n's event handler.
handler_block(to, n) == [to EXCEPT !.status[n] = "called"]
handler_clear(to, n) == [to EXCEPT !.valid = FALSE, !.status[n] = "cleared"]

handler_release(to, n) ==
  [dispatch_release(to) EXCEPT !.status[n] = "done"]

Armed(to) == {n \in SourceId : to.status[n] = "armed"}
InHandler(to) == {n \in SourceId : to.status[n] \in {"called", "cleared"}}
OverReleased(to) == \E n \in SourceId : to.refs[n] < 0
=============================================================================

----------------------------- MODULE Rendezvous -----------------------------
(***************************************************************************)
(* What a room promises its callers, with no memory management at all: a   *)
(* level is a meeting point; a reader joins it and waits; a writer hands   *)
(* ONE value, in one indivisible step, to exactly the readers waiting at   *)
(* that level then; a captured reader returns that value and no other.     *)
(* A signal takes a reader away, before or after it is captured.           *)
(*                                                                         *)
(* The promise of tag_send and tag_receive (src/lib/tbde/tbde.c) to their  *)
(* callers; ChatRoom is shown to implement it.                             *)
(***************************************************************************)
CONSTANTS Threads, Levels, Values, Interrupted, NoValue, NoLevel

VARIABLES phase, where, val

avars == <<phase, where, val>>

Init ==
  /\ phase = [t \in Threads |-> "out"]
  /\ where = [t \in Threads |-> NoLevel]
  /\ val   = [t \in Threads |-> NoValue]

Join(t, l) ==
  /\ phase[t] = "out"
  /\ phase' = [phase EXCEPT ![t] = "waiting"]
  /\ where' = [where EXCEPT ![t] = l]
  /\ UNCHANGED val

WaitingAt(l) == {t \in Threads : phase[t] = "waiting" /\ where[t] = l}

\* One writer takes every reader that is waiting at its level, at once.
Send(l, v) ==
  /\ phase' = [t \in Threads |-> IF t \in WaitingAt(l) THEN "captured" ELSE phase[t]]
  /\ val'   = [t \in Threads |-> IF t \in WaitingAt(l) THEN v ELSE val[t]]
  /\ UNCHANGED where

Return(t) ==
  /\ phase[t] = "captured"
  /\ phase' = [phase EXCEPT ![t] = "returned"]
  /\ UNCHANGED <<where, val>>

Interrupt(t) ==
  /\ phase[t] \in {"waiting", "captured"}
  /\ phase' = [phase EXCEPT ![t] = "returned"]
  /\ val'   = [val EXCEPT ![t] = Interrupted]
  /\ UNCHANGED where

Leave(t) ==
  /\ phase[t] = "returned"
  /\ phase' = [phase EXCEPT ![t] = "out"]
  /\ where' = [where EXCEPT ![t] = NoLevel]
  /\ val'   = [val EXCEPT ![t] = NoValue]

Next ==
  \/ \E t \in Threads : Return(t) \/ Interrupt(t) \/ Leave(t)
  \/ \E t \in Threads, l \in Levels : Join(t, l)
  \/ \E l \in Levels, v \in Values : Send(l, v)

Spec == Init /\ [][Next]_avars

=============================================================================

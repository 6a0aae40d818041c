-------------------------- MODULE PastPerfectTime --------------------------
(***************************************************************************)
(* PodProvider::wait_past_perfect_time (rust-sdk/src/provider/mod.rs): a   *)
(* client waits until no more can happen before a deadline.                *)
(*                                                                         *)
(* The full node is not in this repository.  Its past perfect time moves   *)
(* on with the heartbeats of the validators; asked to wait for a time, it  *)
(* refuses one too far ahead, holds the request until the time is past     *)
(* perfect otherwise, and may fail in other ways while it does.            *)
(***************************************************************************)
EXTENDS Integers

CONSTANTS
    Deadline,      \* the time waited for
    Horizon,       \* how far ahead of past perfection the node lets one wait
    MaxRetries,    \* MAX_RETRIES
    MaxTime,       \* bound: past perfection is observed up to here
    Reliable       \* whether the node answers only as the protocol says

ASSUME PastPerfectAssumption ==
    /\ {Deadline, Horizon, MaxRetries, MaxTime} \subseteq Nat
    /\ Deadline <= MaxTime /\ Reliable \in BOOLEAN

VARIABLES
    ppt,        \* the past perfect time at the node
    waiting,    \* the loop: "asked", "asleep" or "returned"
    retries,
    answer      \* what ended the loop: "none" so far, "perfect", "refused" or "failed"

waitVars == <<ppt, waiting, retries, answer>>

WaitInit ==
    /\ ppt = 0
    /\ waiting = "asked" /\ retries = 0 /\ answer = "none"

Heartbeat ==
    /\ ppt < MaxTime
    /\ ppt' = ppt + 1
    /\ UNCHANGED <<waiting, retries, answer>>

Perfect   == ppt >= Deadline
TooFar    == Deadline - ppt > Horizon

Return(why) ==
    /\ waiting' = "returned" /\ answer' = why
    /\ UNCHANGED <<ppt, retries>>

AnswerPerfect ==
    /\ waiting = "asked" /\ Perfect
    /\ Return("perfect")

\* Only this error is retried, and only so often.
AnswerTooFar ==
    /\ waiting = "asked" /\ TooFar
    /\ IF retries < MaxRetries
       THEN waiting' = "asleep" /\ retries' = retries + 1 /\ UNCHANGED <<ppt, answer>>
       ELSE Return("refused")

\* Every other error ends the loop like a success.
AnswerFailed ==
    /\ ~Reliable
    /\ waiting = "asked"
    /\ Return("failed")

Wake ==
    /\ waiting = "asleep"
    /\ waiting' = "asked"
    /\ UNCHANGED <<ppt, retries, answer>>

WaitNext == Heartbeat \/ AnswerPerfect \/ AnswerTooFar \/ AnswerFailed \/ Wake

\* Validators keep sending heartbeats, the node answers every request in the end, and
\* sleeping ends.
WaitFairness ==
    WF_waitVars(Heartbeat) /\ WF_waitVars(AnswerPerfect \/ AnswerTooFar) /\ WF_waitVars(Wake)

Returned == waiting = "returned"
=============================================================================

----------------------------- MODULE EventFeed ------------------------------
(***************************************************************************)
(* What the engine promises those who follow its domain events, and all    *)
(* that the web socket server and its browsers rely on: the log grows by   *)
(* the events of a command at a time, each event is announced once, in     *)
(* order, after it was committed, and a process that starts announces only *)
(* what is committed from then on.                                         *)
(***************************************************************************)
EXTENDS Naturals

VARIABLES
    committed,   \* the length of the log
    announced    \* the sequence of the last event announced, or passed over at a start

feedVars == <<committed, announced>>

(* A turn start commits two events, every other command one.               *)
EventsPerCommand == 2

FeedInit == committed = 0 /\ announced = 0

Extend ==
    /\ \E n \in 1..EventsPerCommand : committed' = committed + n
    /\ UNCHANGED announced

Announce ==
    /\ announced < committed
    /\ announced' = announced + 1
    /\ UNCHANGED committed

StartOver ==
    /\ announced' = committed
    /\ UNCHANGED committed

FeedNext == Extend \/ Announce \/ StartOver

FeedSpec == FeedInit /\ [][FeedNext]_feedVars
=============================================================================

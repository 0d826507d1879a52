------------------------- MODULE ClaudeSessionsProofs -------------------------
(***************************************************************************)
(* Proofs about the Claude sessions of a thread: the type invariant, that  *)
(* turns end once, and that requests are settled, for any number of        *)
(* sessions, turns, background agents, requests and failures.              *)
(***************************************************************************)
EXTENDS ClaudeSessionsProperties, TLAPS

Contexts == [turn : Nat, stopped : BOOLEAN, exited : BOOLEAN]

Streams ==
    [prompts : Nat, answering : BOOLEAN, said : BOOLEAN, out : Seq({"assistant", "result"}),
     ended : BOOLEAN]

Requests ==
    [context : Nat, kind : {"approval", "question"}, state : {"pending", "decided", "settled"},
     resolved : Nat, cancelled : BOOLEAN, late : BOOLEAN]

Announced == [context : Nat, kind : {"user", "synthetic"}, ends : Nat, late : BOOLEAN]

Waits == [at : {"idle", "model", "message", "close"}, context : Nat, turn : Nat]

(* The operation that waits has its context, and its turn once announced.  *)
WaitInv ==
    /\ op.at # "idle" => op.context \in DOMAIN contexts
    /\ op.at = "message" => op.turn \in DOMAIN turns

References ==
    /\ \A c \in DOMAIN contexts : contexts[c].turn \in 0..Len(turns)
    /\ \A r \in DOMAIN requests : requests[r].context \in DOMAIN contexts
    /\ \A t \in DOMAIN turns : turns[t].context \in DOMAIN contexts

BoundsInv == sends \in 0..MaxSends /\ asides \in 0..MaxAsides /\ failures \in 0..MaxFailures

TypeOK ==
    /\ contexts \in Seq(Contexts) /\ entry \in 0..Len(contexts)
    /\ op \in Waits /\ WaitInv
    /\ sdk \in Seq(Streams) /\ Len(sdk) = Len(contexts)
    /\ requests \in Seq(Requests) /\ turns \in Seq(Announced) /\ References
    /\ replaced \subseteq Nat /\ undelivered \subseteq DOMAIN turns /\ overlapped \in BOOLEAN
    /\ BoundsInv

(* A context shows a turn of its own that has not ended, and once it is    *)
(* stopped only one that began after that.  A turn no context shows has    *)
(* ended, once, or was replaced.                                           *)
TurnsInv ==
    /\ \A c \in DOMAIN contexts :
        LET t == contexts[c].turn
        IN  t # 0 =>
                /\ turns[t].context = c /\ turns[t].ends = 0
                /\ contexts[c].stopped => turns[t].late
    /\ \A t \in DOMAIN turns \ replaced :
        contexts[turns[t].context].turn # t => turns[t].ends = 1

(* Sessions exit after they were stopped.                                  *)
StopsFirst ==
    /\ \A c \in DOMAIN contexts : contexts[c].exited => contexts[c].stopped
    /\ op.at = "close" => contexts[op.context].stopped

(* How often a request was resolved follows from its state.                *)
Counted(request) ==
    LET stop == IF request.cancelled THEN 1 ELSE 0
    IN  /\ request.state = "pending" => request.resolved = 0 /\ ~request.cancelled
        /\ request.state = "decided" => request.resolved = stop
        /\ request.state = "settled" => request.resolved = 1 + stop

ResolvedInv == \A r \in DOMAIN requests : Counted(requests[r])

(* Unless sessions overlapped, the one that lives is the entry, and none   *)
(* does while one is closed.                                               *)
EntryInv ==
    ~overlapped =>
        \A c \in DOMAIN contexts : ~contexts[c].stopped => entry = c /\ op.at # "close"

ApprovalsInv ==
    \A r \in DOMAIN requests :
        LET request == requests[r]
        IN  request.kind = "approval" /\ request.state = "pending"
                /\ contexts[request.context].stopped => request.late

SessionsInv == TypeOK /\ TurnsInv /\ StopsFirst /\ ResolvedInv /\ EntryInv /\ ApprovalsInv
-----------------------------------------------------------------------------
(* What the state consists of.                                             *)

LEMMA Elements ==
    ASSUME TypeOK
    PROVE  /\ DOMAIN contexts = 1..Len(contexts) /\ DOMAIN sdk = DOMAIN contexts
           /\ \A c \in DOMAIN contexts : contexts[c] \in Contexts /\ sdk[c] \in Streams
           /\ \A r \in DOMAIN requests : requests[r] \in Requests
           /\ DOMAIN turns = 1..Len(turns) /\ \A t \in DOMAIN turns : turns[t] \in Announced
BY DEF TypeOK

LEMMA IdleType == Idle \in Waits
BY DEF Idle, Waits

LEMMA InitHolds ==
    ASSUME Init
    PROVE  SessionsInv
PROOF
  <1>1. contexts \in Seq(Contexts) /\ sdk \in Seq(Streams) /\ requests \in Seq(Requests)
            /\ turns \in Seq(Announced) /\ Len(sdk) = Len(contexts) /\ entry \in 0..Len(contexts)
    BY DEF Init
  <1>2. WaitInv /\ References /\ BoundsInv
    BY ClaudeAssumption DEF Init, WaitInv, References, BoundsInv, Idle
  <1>3. op \in Waits /\ replaced \subseteq Nat /\ undelivered \subseteq DOMAIN turns
    BY IdleType DEF Init
  <1>4. overlapped \in BOOLEAN
    BY DEF Init
  <1>5. TurnsInv /\ StopsFirst /\ ResolvedInv /\ EntryInv /\ ApprovalsInv
    BY DEF Init, TurnsInv, StopsFirst, ResolvedInv, EntryInv, ApprovalsInv, Idle
  <1> QED
    BY <1>1, <1>2, <1>3, <1>4, <1>5 DEF SessionsInv, TypeOK

(* The end of a turn: the turn the context shows, if any, ends once more.  *)
LEMMA EndTurnEnds ==
    ASSUME TypeOK, NEW c \in DOMAIN contexts, EndTurn(c)
    PROVE  /\ turns' \in Seq(Announced) /\ Len(turns') = Len(turns)
           /\ \A t \in DOMAIN turns :
                /\ turns'[t].context = turns[t].context /\ turns'[t].late = turns[t].late
                /\ turns'[t].ends = IF t = contexts[c].turn THEN turns[t].ends + 1 ELSE turns[t].ends
PROOF
  <1>1. CASE contexts[c].turn = 0
    BY <1>1, Elements DEF EndTurn, TypeOK
  <1>2. CASE contexts[c].turn # 0
    <2> DEFINE u == contexts[c].turn
               ended == [turns[u] EXCEPT !.ends = @ + 1]
    <2>1. u \in DOMAIN turns
      BY <1>2, Elements DEF TypeOK, References
    <2>2. turns[u] \in Announced
      BY <2>1, Elements
    <2>3. /\ ended \in Announced /\ ended.context = turns[u].context
          /\ ended.late = turns[u].late /\ ended.ends = turns[u].ends + 1
      BY <2>2 DEF Announced
    <2>4. turns' = [turns EXCEPT ![u] = ended]
      BY <1>2 DEF EndTurn
    <2> HIDE DEF u, ended
    <2> QED
      BY <2>1, <2>3, <2>4 DEF u, TypeOK
  <1> QED
    BY <1>1, <1>2

(* A new turn is the last one, and its context shows it.                   *)
LEMMA AnnounceMoves ==
    ASSUME TypeOK, NEW c \in DOMAIN contexts, NEW kind \in {"user", "synthetic"}, Announce(c, kind)
    PROVE  /\ turns' \in Seq(Announced) /\ Len(turns') = Len(turns) + 1
           /\ \A t \in DOMAIN turns : turns'[t] = turns[t]
           /\ turns'[Len(turns')].context = c /\ turns'[Len(turns')].ends = 0
           /\ turns'[Len(turns')].late = contexts[c].stopped
           /\ contexts' = [contexts EXCEPT ![c].turn = Len(turns')]
PROOF
  <1>1. Turn(c, kind) \in Announced
    BY Elements DEF Turn, Announced, Contexts, TypeOK
  <1>2. turns' = Append(turns, Turn(c, kind))
    BY DEF Announce
  <1>3. /\ turns' \in Seq(Announced) /\ Len(turns') = Len(turns) + 1
        /\ \A t \in DOMAIN turns : turns'[t] = turns[t]
        /\ turns'[Len(turns')] = Turn(c, kind)
    BY <1>1, <1>2 DEF TypeOK
  <1> QED
    BY <1>3 DEF Turn, Announce

(* One context changes.                                                    *)
LEMMA ContextMoves ==
    ASSUME TypeOK, NEW c \in DOMAIN contexts, NEW context \in Contexts,
           contexts' = [contexts EXCEPT ![c] = context]
    PROVE  /\ contexts' \in Seq(Contexts) /\ Len(contexts') = Len(contexts)
           /\ DOMAIN contexts' = DOMAIN contexts
           /\ contexts'[c] = context /\ \A d \in DOMAIN contexts \ {c} : contexts'[d] = contexts[d]
BY DEF TypeOK

(* The requests, when some that were pending are decided and none comes.   *)

RequestsMove ==
    /\ requests' \in Seq(Requests) /\ DOMAIN requests' = DOMAIN requests
    /\ \A r \in DOMAIN requests :
        /\ requests'[r].context = requests[r].context
        /\ requests'[r].kind = requests[r].kind /\ requests'[r].late = requests[r].late
        /\ requests'[r].state = "pending" => requests[r].state = "pending"

(* The turn of a context ends and the context no longer shows it.          *)
LEMMA TurnEnds ==
    ASSUME TypeOK, TurnsInv, NEW c \in DOMAIN contexts, EndTurn(c),
           NEW context \in Contexts, context.turn = 0,
           contexts' = [contexts EXCEPT ![c] = context], RequestsMove, UNCHANGED replaced
    PROVE  TurnsInv' /\ References'
PROOF
  <1>1. /\ DOMAIN contexts' = DOMAIN contexts /\ contexts'[c].turn = 0
        /\ \A d \in DOMAIN contexts \ {c} : contexts'[d] = contexts[d]
    BY ContextMoves
  <1>2. /\ Len(turns') = Len(turns) /\ DOMAIN turns' = DOMAIN turns
        /\ \A t \in DOMAIN turns :
            /\ turns'[t].context = turns[t].context /\ turns'[t].late = turns[t].late
            /\ turns'[t].ends = IF t = contexts[c].turn THEN turns[t].ends + 1 ELSE turns[t].ends
    BY EndTurnEnds, Elements
  <1>3. References'
    <2>1. \A d \in DOMAIN contexts' : contexts'[d].turn \in 0..Len(turns')
      BY <1>1, <1>2 DEF References, TypeOK
    <2>2. \A r \in DOMAIN requests' : requests'[r].context \in DOMAIN contexts'
      BY <1>1 DEF References, TypeOK, RequestsMove
    <2>3. \A t \in DOMAIN turns' : turns'[t].context \in DOMAIN contexts'
      BY <1>1, <1>2 DEF References, TypeOK
    <2> QED
      BY <2>1, <2>2, <2>3 DEF References
  <1>4. ASSUME NEW d \in DOMAIN contexts, contexts'[d].turn # 0
        PROVE  LET t == contexts'[d].turn
               IN  /\ turns'[t].context = d /\ turns'[t].ends = 0
                   /\ contexts'[d].stopped => turns'[t].late
    <2>1. d # c /\ contexts'[d] = contexts[d]
      BY <1>1, <1>4
    <2>2. contexts[d].turn \in DOMAIN turns /\ turns[contexts[d].turn].context = d
      BY <2>1, <1>4, Elements DEF TypeOK, References, TurnsInv
    <2>3. contexts[d].turn # contexts[c].turn
      BY <2>1, <2>2, <1>4 DEF TurnsInv
    <2> QED
      BY <2>1, <2>2, <2>3, <1>2, <1>4 DEF TurnsInv
  <1>5. ASSUME NEW t \in DOMAIN turns, t \notin replaced,
               contexts'[turns'[t].context].turn # t
        PROVE  turns'[t].ends = 1
    <2>1. turns[t] \in Announced /\ turns[t].context \in DOMAIN contexts
      BY Elements DEF TypeOK, References
    <2>2. t \in 1..Len(turns)
      BY Elements
    <2>3. CASE t = contexts[c].turn
      BY <2>2, <2>3, <1>2 DEF TurnsInv
    <2>4. CASE t # contexts[c].turn
      <3>1. contexts[turns[t].context].turn # t
        BY <2>1, <2>4, <1>1, <1>2, <1>5
      <3> QED
        BY <3>1, <2>4, <1>2, <1>5 DEF TurnsInv
    <2> QED
      BY <2>3, <2>4
  <1> QED
    BY <1>1, <1>2, <1>3, <1>4, <1>5 DEF TurnsInv

(* A turn begins; if it takes the place of another, that is in replaced.   *)
LEMMA TurnBegins ==
    ASSUME TypeOK, TurnsInv, NEW c \in DOMAIN contexts, NEW kind \in {"user", "synthetic"},
           Announce(c, kind), replaced' = replaced \cup ({contexts[c].turn} \ {0}),
           UNCHANGED requests
    PROVE  TurnsInv' /\ References' /\ contexts' \in Seq(Contexts) /\ DOMAIN contexts' = DOMAIN contexts
           /\ Len(contexts') = Len(contexts)
           /\ \A d \in DOMAIN contexts : contexts'[d].stopped = contexts[d].stopped
                                          /\ contexts'[d].exited = contexts[d].exited
PROOF
  <1> DEFINE n == Len(turns')
             context == [contexts[c] EXCEPT !.turn = n]
  <1>1. /\ turns' \in Seq(Announced) /\ n = Len(turns) + 1
        /\ \A t \in DOMAIN turns : turns'[t] = turns[t]
        /\ turns'[n].context = c /\ turns'[n].ends = 0 /\ turns'[n].late = contexts[c].stopped
        /\ contexts' = [contexts EXCEPT ![c] = context]
    BY AnnounceMoves
  <1>2. contexts[c] \in Contexts /\ n \in Nat
    BY Elements, <1>1 DEF TypeOK
  <1>3. /\ context \in Contexts /\ context.turn = n
        /\ context.stopped = contexts[c].stopped /\ context.exited = contexts[c].exited
    BY <1>2 DEF Contexts
  <1> HIDE DEF n, context
  <1>4. /\ contexts' \in Seq(Contexts) /\ Len(contexts') = Len(contexts)
        /\ DOMAIN contexts' = DOMAIN contexts /\ contexts'[c] = context
        /\ \A d \in DOMAIN contexts \ {c} : contexts'[d] = contexts[d]
    BY ContextMoves, <1>1, <1>3
  <1>5. DOMAIN turns = 1..Len(turns) /\ DOMAIN turns' = 1..n /\ Len(turns) \in Nat
    BY <1>1, Elements DEF TypeOK, n
  <1>6. References'
    <2>1. \A d \in DOMAIN contexts' : contexts'[d].turn \in 0..n
      BY <1>1, <1>2, <1>3, <1>4, Elements DEF References, TypeOK
    <2>2. \A t \in DOMAIN turns' : turns'[t].context \in DOMAIN contexts'
      BY <1>1, <1>4, <1>5 DEF References, TypeOK
    <2> QED
      BY <2>1, <2>2, <1>4 DEF References, TypeOK, n
  <1>7. ASSUME NEW d \in DOMAIN contexts, contexts'[d].turn # 0
        PROVE  LET t == contexts'[d].turn
               IN  /\ turns'[t].context = d /\ turns'[t].ends = 0
                   /\ contexts'[d].stopped => turns'[t].late
    <2>1. CASE d = c
      BY <2>1, <1>1, <1>3, <1>4 DEF n
    <2>2. CASE d # c
      <3>1. contexts'[d] = contexts[d] /\ contexts[d].turn \in DOMAIN turns
        BY <2>2, <1>4, <1>5, <1>7 DEF References, TypeOK
      <3> QED
        BY <3>1, <1>1, <1>7 DEF TurnsInv
    <2> QED
      BY <2>1, <2>2
  <1>8. ASSUME NEW t \in DOMAIN turns', t \notin replaced', contexts'[turns'[t].context].turn # t
        PROVE  turns'[t].ends = 1
    <2>1. t # n
      BY <1>1, <1>3, <1>4, <1>8
    <2>2. t \in DOMAIN turns /\ turns'[t] = turns[t] /\ t # 0
      BY <2>1, <1>1, <1>5
    <2>3. t # contexts[c].turn
      BY <2>2, <1>8
    <2>4. contexts[turns[t].context].turn # t
      BY <2>2, <2>3, <1>4, <1>8 DEF References, TypeOK
    <2> QED
      BY <2>2, <2>4, <1>8 DEF TurnsInv
  <1>9. TurnsInv'
    BY <1>4, <1>7, <1>8 DEF TurnsInv
  <1> QED
    BY <1>3, <1>4, <1>6, <1>9
-----------------------------------------------------------------------------
LEMMA RequestsStay ==
    ASSUME TypeOK, ResolvedInv, UNCHANGED requests
    PROVE  RequestsMove /\ ResolvedInv'
BY DEF TypeOK, ResolvedInv, RequestsMove

(* A request changes by itself, or all of a set do.                        *)
LEMMA RequestsReplaced ==
    ASSUME TypeOK, NEW next,
           requests' = [r \in DOMAIN requests |-> next[r]],
           \A r \in DOMAIN requests :
                /\ next[r] \in Requests
                /\ next[r].context = requests[r].context
                /\ next[r].kind = requests[r].kind /\ next[r].late = requests[r].late
                /\ next[r].state = "pending" => requests[r].state = "pending"
    PROVE  RequestsMove /\ \A r \in DOMAIN requests : requests'[r] = next[r]
PROOF
  <1>1. DOMAIN requests = 1..Len(requests) /\ Len(requests) \in Nat
    BY DEF TypeOK
  <1>2. requests' \in Seq(Requests)
    BY <1>1
  <1> QED
    BY <1>2 DEF RequestsMove

LEMMA RequestDecided ==
    ASSUME NEW request \in Requests
    PROVE  LET next == [request EXCEPT !.state = "decided"]
           IN  /\ next \in Requests /\ next.state = "decided"
               /\ next.context = request.context /\ next.kind = request.kind
               /\ next.late = request.late
               /\ Counted(request) /\ request.state = "pending" => Counted(next)
PROOF
  <1> DEFINE next == [request EXCEPT !.state = "decided"]
  <1>1. next.cancelled = request.cancelled
    BY DEF Requests
  <1>2. /\ next \in Requests /\ next.state = "decided"
        /\ next.context = request.context /\ next.kind = request.kind
        /\ next.late = request.late /\ next.resolved = request.resolved
    BY DEF Requests
  <1> HIDE DEF next
  <1>3. Counted(request) /\ request.state = "pending" => Counted(next)
    BY <1>1, <1>2 DEF Counted
  <1> QED
    BY <1>2, <1>3 DEF next

LEMMA DecidedMoves ==
    ASSUME TypeOK, ResolvedInv, NEW R,
           \A r \in R : requests[r].state = "pending", requests' = Decided(R)
    PROVE  RequestsMove /\ ResolvedInv'
PROOF
  <1> DEFINE next == [r \in DOMAIN requests |->
                        IF r \in R THEN [requests[r] EXCEPT !.state = "decided"] ELSE requests[r]]
  <1>1. requests' = [r \in DOMAIN requests |-> next[r]]
    BY DEF Decided
  <1>2. \A r \in DOMAIN requests :
            /\ next[r] \in Requests /\ Counted(next[r])
            /\ next[r].context = requests[r].context
            /\ next[r].kind = requests[r].kind /\ next[r].late = requests[r].late
            /\ next[r].state = "pending" => requests[r].state = "pending"
    BY Elements, RequestDecided DEF ResolvedInv
  <1> HIDE DEF next
  <1>3. RequestsMove /\ \A r \in DOMAIN requests : requests'[r] = next[r]
    BY <1>1, <1>2, RequestsReplaced
  <1>4. ResolvedInv'
    BY <1>2, <1>3 DEF RequestsMove, ResolvedInv
  <1> QED
    BY <1>3, <1>4

LEMMA AbortMoves ==
    ASSUME TypeOK, ResolvedInv, NEW c, Abort(c) \/ UNCHANGED requests
    PROVE  RequestsMove /\ ResolvedInv'
PROOF
  <1>1. CASE Abort(c)
    <2>1. \A r \in Pending(c) : requests[r].state = "pending"
      BY DEF Pending
    <2> QED
      BY <2>1, <1>1, DecidedMoves DEF Abort
  <1>2. CASE UNCHANGED requests
    BY <1>2, RequestsStay
  <1> QED
    BY <1>1, <1>2

LEMMA RequestCancelled ==
    ASSUME NEW request \in Requests, Counted(request), request.state = "pending"
    PROVE  LET next == [request EXCEPT !.state = "decided", !.cancelled = TRUE, !.resolved = @ + 1]
           IN  /\ next \in Requests /\ next.state = "decided" /\ Counted(next)
               /\ next.context = request.context /\ next.kind = request.kind
               /\ next.late = request.late
PROOF
  <1> DEFINE resolved == request.resolved + 1
             next == [request EXCEPT !.state = "decided", !.cancelled = TRUE,
                                     !.resolved = resolved]
  <1>1. resolved = 1
    BY DEF Counted, Requests
  <1> HIDE DEF resolved
  <1>2. /\ next \in Requests /\ next.state = "decided"
        /\ next.context = request.context /\ next.kind = request.kind
        /\ next.late = request.late /\ next.resolved = resolved /\ next.cancelled = TRUE
    BY <1>1 DEF Requests
  <1>3. Counted(next)
    BY <1>1, <1>2 DEF Counted
  <1> QED
    BY <1>2, <1>3 DEF resolved

LEMMA RequestSettled ==
    ASSUME NEW request \in Requests, Counted(request), request.state = "decided"
    PROVE  LET next == [request EXCEPT !.state = "settled", !.resolved = @ + 1]
           IN  /\ next \in Requests /\ next.state = "settled" /\ Counted(next)
               /\ next.context = request.context /\ next.kind = request.kind
               /\ next.late = request.late
PROOF
  <1> DEFINE resolved == request.resolved + 1
             next == [request EXCEPT !.state = "settled", !.resolved = resolved]
  <1>1. resolved = 1 + IF request.cancelled THEN 1 ELSE 0
    BY DEF Counted, Requests
  <1>2. resolved \in Nat
    BY DEF Requests
  <1> HIDE DEF resolved
  <1>3. /\ next \in Requests /\ next.state = "settled"
        /\ next.context = request.context /\ next.kind = request.kind
        /\ next.late = request.late /\ next.resolved = resolved
    BY <1>2 DEF Requests
  <1>4. next.cancelled = request.cancelled
    BY DEF Requests
  <1> HIDE DEF next
  <1>5. Counted(next)
    BY <1>1, <1>3, <1>4 DEF Counted
  <1> QED
    BY <1>3, <1>5 DEF next, resolved

LEMMA CancelMoves ==
    ASSUME TypeOK, ResolvedInv, NEW c, CancelApprovals(c)
    PROVE  /\ RequestsMove /\ ResolvedInv'
           /\ \A r \in DOMAIN requests :
                requests[r].context = c /\ requests[r].kind = "approval" =>
                    requests'[r].state # "pending"
PROOF
  <1> DEFINE R == Approvals(c)
             next == [r \in DOMAIN requests |->
                        IF r \in R
                        THEN [requests[r] EXCEPT !.state = "decided", !.cancelled = TRUE,
                                                 !.resolved = @ + 1]
                        ELSE requests[r]]
  <1>1. requests' = [r \in DOMAIN requests |-> next[r]]
    BY DEF CancelApprovals
  <1>2. ASSUME NEW r \in DOMAIN requests
        PROVE  /\ next[r] \in Requests /\ Counted(next[r])
               /\ next[r].context = requests[r].context
               /\ next[r].kind = requests[r].kind /\ next[r].late = requests[r].late
               /\ next[r].state = "pending" => requests[r].state = "pending"
               /\ r \in R => next[r].state = "decided"
    <2>1. CASE r \notin R
      BY <2>1, Elements DEF ResolvedInv
    <2>2. CASE r \in R
      <3>1. requests[r].state = "pending"
        BY <2>2 DEF Approvals, Pending
      <3> QED
        BY <2>2, <3>1, Elements, RequestCancelled DEF ResolvedInv
    <2> QED
      BY <2>1, <2>2
  <1>3. \A r \in DOMAIN requests :
            requests[r].context = c /\ requests[r].kind = "approval"
                /\ requests[r].state = "pending" => r \in R
    BY DEF Approvals, Pending
  <1> HIDE DEF next, R
  <1>4. RequestsMove /\ \A r \in DOMAIN requests : requests'[r] = next[r]
    BY <1>1, <1>2, RequestsReplaced
  <1>5. ResolvedInv'
    BY <1>2, <1>4 DEF RequestsMove, ResolvedInv
  <1> QED
    BY <1>2, <1>3, <1>4, <1>5

LEMMA ResumeMoves ==
    ASSUME TypeOK, ResolvedInv, NEW r \in DOMAIN requests, Resume(r)
    PROVE  RequestsMove /\ ResolvedInv'
PROOF
  <1> DEFINE request == [requests[r] EXCEPT !.state = "settled", !.resolved = @ + 1]
             next == [requests EXCEPT ![r] = request]
  <1>1. requests[r] \in Requests /\ Counted(requests[r]) /\ requests[r].state = "decided"
    BY Elements DEF Resume, ResolvedInv
  <1>2. /\ request \in Requests /\ request.state = "settled" /\ Counted(request)
        /\ request.context = requests[r].context /\ request.kind = requests[r].kind
        /\ request.late = requests[r].late
    BY <1>1, RequestSettled
  <1>3. requests' = [q \in DOMAIN requests |-> next[q]]
    BY DEF Resume
  <1> HIDE DEF request
  <1>4. \A q \in DOMAIN requests :
            /\ next[q] \in Requests /\ Counted(next[q])
            /\ next[q].context = requests[q].context
            /\ next[q].kind = requests[q].kind /\ next[q].late = requests[q].late
            /\ next[q].state = "pending" => requests[q].state = "pending"
    BY <1>2, Elements DEF ResolvedInv
  <1> HIDE DEF next
  <1>5. RequestsMove /\ \A q \in DOMAIN requests : requests'[q] = next[q]
    BY <1>3, <1>4, RequestsReplaced
  <1>6. ResolvedInv'
    BY <1>4, <1>5 DEF RequestsMove, ResolvedInv
  <1> QED
    BY <1>5, <1>6

LEMMA ApprovalsKept ==
    ASSUME ApprovalsInv, RequestsMove,
           \A r \in DOMAIN requests :
                requests'[r].kind = "approval" /\ requests'[r].state = "pending"
                    /\ contexts'[requests[r].context].stopped =>
                        contexts[requests[r].context].stopped
    PROVE  ApprovalsInv'
BY DEF ApprovalsInv, RequestsMove

LEMMA BoundsKept ==
    ASSUME BoundsInv, UNCHANGED bounds \/ Fails
    PROVE  BoundsInv'
BY ClaudeAssumption DEF BoundsInv, bounds, Fails

(* Steps of the SDK and of the user, which touch its streams and requests. *)
LEMMA SdkStep ==
    ASSUME SessionsInv, RequestsMove, ResolvedInv', BoundsInv',
           sdk' \in Seq(Streams), Len(sdk') = Len(sdk),
           UNCHANGED <<contexts, entry, op, turns, history>>
    PROVE  SessionsInv'
PROOF
  <1>1. /\ contexts' = contexts /\ entry' = entry /\ op' = op /\ turns' = turns
        /\ replaced' = replaced /\ undelivered' = undelivered /\ overlapped' = overlapped
    BY DEF history
  <1>2. TurnsInv' /\ StopsFirst' /\ EntryInv'
    BY <1>1 DEF SessionsInv, TurnsInv, StopsFirst, EntryInv
  <1>3. ApprovalsInv'
    BY <1>1, ApprovalsKept DEF SessionsInv
  <1>4. References' /\ WaitInv' /\ requests' \in Seq(Requests)
    BY <1>1 DEF RequestsMove, References, WaitInv, SessionsInv, TypeOK
  <1>5. TypeOK'
    BY <1>1, <1>4 DEF SessionsInv, TypeOK
  <1> QED
    BY <1>2, <1>3, <1>5 DEF SessionsInv

LEMMA StreamMoves ==
    ASSUME TypeOK, NEW c \in DOMAIN contexts, NEW next \in Streams, sdk' = [sdk EXCEPT ![c] = next]
    PROVE  sdk' \in Seq(Streams) /\ Len(sdk') = Len(sdk)
BY Elements DEF TypeOK

(* The values a stream takes.                                              *)
LEMMA StreamTypes ==
    ASSUME NEW stream \in Streams
    PROVE  /\ stream.prompts > 0 => [stream EXCEPT !.prompts = @ - 1] \in Streams
           /\ stream.prompts > 0 =>
                [stream EXCEPT !.prompts = @ - 1, !.answering = TRUE, !.said = FALSE] \in Streams
           /\ [stream EXCEPT !.prompts = @ + 1] \in Streams
           /\ [stream EXCEPT !.said = TRUE, !.out = Append(@, "assistant")] \in Streams
           /\ [stream EXCEPT !.answering = FALSE, !.out = Append(@, "result")] \in Streams
           /\ [stream EXCEPT !.out = @ \o <<"assistant">>] \in Streams
           /\ [stream EXCEPT !.out = @ \o <<"assistant", "result">>] \in Streams
           /\ [stream EXCEPT !.ended = TRUE] \in Streams
           /\ stream.out # <<>> => [stream EXCEPT !.out = Tail(@)] \in Streams
PROOF
  <1>1. stream.prompts + 1 \in Nat /\ (stream.prompts > 0 => stream.prompts - 1 \in Nat)
    BY DEF Streams
  <1>2. /\ Append(stream.out, "assistant") \in Seq({"assistant", "result"})
        /\ Append(stream.out, "result") \in Seq({"assistant", "result"})
        /\ stream.out \o <<"assistant">> \in Seq({"assistant", "result"})
        /\ stream.out \o <<"assistant", "result">> \in Seq({"assistant", "result"})
        /\ stream.out # <<>> => Tail(stream.out) \in Seq({"assistant", "result"})
    <2>1. stream.out \in Seq({"assistant", "result"})
      BY DEF Streams
    <2>2. <<"assistant">> \in Seq({"assistant", "result"})
          /\ <<"assistant", "result">> \in Seq({"assistant", "result"})
      OBVIOUS
    <2> QED
      BY <2>1, <2>2
  <1> QED
    BY <1>1, <1>2 DEF Streams

LEMMA TakePromptPreserves ==
    ASSUME SessionsInv, NEW c \in DOMAIN contexts, TakePrompt(c)
    PROVE  SessionsInv'
PROOF
  <1>1. TypeOK /\ sdk[c] \in Streams
    BY Elements DEF SessionsInv
  <1>2. PICK next \in Streams : Sdk(c, next)
    BY <1>1, StreamTypes DEF TakePrompt
  <1>3. sdk' \in Seq(Streams) /\ Len(sdk') = Len(sdk)
    BY <1>1, <1>2, StreamMoves DEF Sdk
  <1>4. RequestsMove /\ ResolvedInv' /\ BoundsInv'
    BY <1>1, <1>2, RequestsStay, BoundsKept DEF Sdk, TakePrompt, SessionsInv, TypeOK
  <1> QED
    BY <1>2, <1>3, <1>4, SdkStep DEF Sdk

LEMMA SayPreserves ==
    ASSUME SessionsInv, NEW c \in DOMAIN contexts, Say(c) \/ Answer(c) \/ SayAside(c)
    PROVE  SessionsInv'
PROOF
  <1>1. TypeOK /\ sdk[c] \in Streams
    BY Elements DEF SessionsInv
  <1>2. PICK next \in Streams : Sdk(c, next)
    BY <1>1, StreamTypes DEF Say, Answer, SayAside
  <1>3. sdk' \in Seq(Streams) /\ Len(sdk') = Len(sdk)
    BY <1>1, <1>2, StreamMoves DEF Sdk
  <1>4. BoundsInv'
    BY <1>1, ClaudeAssumption, BoundsKept DEF Say, Answer, SayAside, TypeOK, BoundsInv, bounds
  <1>5. RequestsMove /\ ResolvedInv'
    BY <1>1, <1>2, RequestsStay DEF Sdk, SessionsInv
  <1> QED
    BY <1>2, <1>3, <1>4, <1>5, SdkStep DEF Sdk

LEMMA ProcessDiesPreserves ==
    ASSUME SessionsInv, NEW c \in DOMAIN contexts, ProcessDies(c)
    PROVE  SessionsInv'
PROOF
  <1>1. TypeOK /\ sdk[c] \in Streams /\ ResolvedInv
    BY Elements DEF SessionsInv
  <1>2. sdk' = [sdk EXCEPT ![c] = [sdk[c] EXCEPT !.ended = TRUE]]
    BY DEF ProcessDies
  <1>3. sdk' \in Seq(Streams) /\ Len(sdk') = Len(sdk)
    BY <1>1, <1>2, StreamMoves, StreamTypes
  <1>4. RequestsMove /\ ResolvedInv'
    BY <1>1, AbortMoves DEF ProcessDies
  <1>5. BoundsInv'
    BY <1>1, BoundsKept DEF ProcessDies, TypeOK
  <1> QED
    BY <1>3, <1>4, <1>5, SdkStep DEF ProcessDies

LEMMA InterruptPreserves ==
    ASSUME SessionsInv, InterruptTurn
    PROVE  SessionsInv'
PROOF
  <1>1. entry \in DOMAIN contexts
    BY DEF InterruptTurn, Called, Live
  <1>2. TypeOK /\ sdk[entry] \in Streams /\ ResolvedInv
    BY <1>1, Elements DEF SessionsInv
  <1>3. sdk' = [sdk EXCEPT ![entry] = [sdk[entry] EXCEPT !.answering = FALSE,
                                                         !.out = Append(@, "result")]]
    BY DEF InterruptTurn
  <1>4. sdk' \in Seq(Streams) /\ Len(sdk') = Len(sdk)
    BY <1>1, <1>2, <1>3, StreamMoves, StreamTypes
  <1>5. RequestsMove /\ ResolvedInv' /\ BoundsInv'
    BY <1>2, AbortMoves, BoundsKept DEF InterruptTurn, TypeOK
  <1> QED
    BY <1>4, <1>5, SdkStep DEF InterruptTurn

LEMMA AnswersPreserve ==
    ASSUME SessionsInv, Respond \/ \E r \in DOMAIN requests : Resume(r)
    PROVE  SessionsInv'
PROOF
  <1>1. TypeOK /\ ResolvedInv
    BY DEF SessionsInv
  <1>2. RequestsMove /\ ResolvedInv'
    <2>1. CASE Respond
      <3>1. PICK r \in Pending(entry) : requests' = Decided({r})
        BY <2>1 DEF Respond
      <3>2. \A q \in {r} : requests[q].state = "pending"
        BY <3>1 DEF Pending
      <3> QED
        BY <1>1, <3>1, <3>2, DecidedMoves
    <2>2. CASE \E r \in DOMAIN requests : Resume(r)
      BY <1>1, <2>2, ResumeMoves
    <2> QED
      BY <2>1, <2>2
  <1>3. UNCHANGED <<contexts, entry, op, sdk, turns, history, bounds>>
    BY DEF Respond, Resume
  <1>4. BoundsInv' /\ sdk' \in Seq(Streams) /\ Len(sdk') = Len(sdk)
    BY <1>1, <1>3, BoundsKept DEF TypeOK
  <1> QED
    BY <1>2, <1>3, <1>4, SdkStep

LEMMA CanUseToolPreserves ==
    ASSUME SessionsInv, NEW c \in DOMAIN contexts, CanUseTool(c)
    PROVE  SessionsInv'
PROOF
  <1>1. TypeOK /\ DOMAIN requests = 1..Len(requests) /\ Len(requests) \in Nat
    BY DEF SessionsInv, TypeOK
  <1>2. UNCHANGED <<contexts, entry, op, sdk, turns, replaced, undelivered, overlapped, bounds>>
    BY DEF CanUseTool, history
  <1>3. PICK kind \in {"approval", "question"} :
            requests' = Append(requests,
                [context |-> c, kind |-> kind, state |-> "pending", resolved |-> 0,
                 cancelled |-> FALSE, late |-> contexts[c].stopped])
    BY DEF CanUseTool
  <1> DEFINE request == [context |-> c, kind |-> kind, state |-> "pending", resolved |-> 0,
                         cancelled |-> FALSE, late |-> contexts[c].stopped]
             n == Len(requests) + 1
  <1>4. contexts[c].stopped \in BOOLEAN /\ c \in Nat
    BY <1>1, Elements DEF Contexts, TypeOK
  <1>5. /\ request \in Requests /\ Counted(request) /\ request.context = c
        /\ request.late = contexts[c].stopped
    BY <1>4 DEF Requests, Counted
  <1> HIDE DEF request
  <1>6. /\ requests' \in Seq(Requests) /\ DOMAIN requests' = DOMAIN requests \cup {n}
        /\ requests'[n] = request /\ \A r \in DOMAIN requests : requests'[r] = requests[r]
    BY <1>1, <1>3, <1>5 DEF TypeOK, request
  <1>7. TurnsInv' /\ StopsFirst' /\ EntryInv'
    BY <1>2 DEF SessionsInv, TurnsInv, StopsFirst, EntryInv
  <1>8. ResolvedInv' /\ ApprovalsInv'
    BY <1>2, <1>5, <1>6 DEF SessionsInv, ResolvedInv, ApprovalsInv
  <1>9. References' /\ WaitInv'
    BY <1>2, <1>5, <1>6 DEF SessionsInv, TypeOK, References, WaitInv
  <1>10. BoundsInv'
    BY <1>1, <1>2, BoundsKept DEF TypeOK
  <1>11. TypeOK'
    BY <1>2, <1>6, <1>9, <1>10 DEF SessionsInv, TypeOK
  <1> QED
    BY <1>7, <1>8, <1>11 DEF SessionsInv
-----------------------------------------------------------------------------
(* The fiber of the stream and the operations.                             *)

(* Steps that stop no session and decide no request.                       *)
LEMMA StatusKept ==
    ASSUME SessionsInv, DOMAIN contexts' = DOMAIN contexts,
           \A d \in DOMAIN contexts : contexts'[d].stopped = contexts[d].stopped
                                      /\ contexts'[d].exited = contexts[d].exited,
           UNCHANGED <<requests, entry, overlapped>>, op' = op \/ op'.at # "close"
    PROVE  StopsFirst' /\ EntryInv' /\ ApprovalsInv' /\ ResolvedInv'
PROOF
  <1>1. StopsFirst'
    <2>1. CASE op' = op
      BY <2>1 DEF SessionsInv, TypeOK, WaitInv, StopsFirst
    <2>2. CASE op'.at # "close"
      BY <2>2 DEF SessionsInv, StopsFirst
    <2> QED
      BY <2>1, <2>2
  <1>2. EntryInv'
    BY DEF SessionsInv, EntryInv
  <1>3. ApprovalsInv'
    BY DEF SessionsInv, TypeOK, References, ApprovalsInv
  <1> QED
    BY <1>1, <1>2, <1>3 DEF SessionsInv, ResolvedInv

LEMMA ReceiveMoves ==
    ASSUME SessionsInv, NEW c \in DOMAIN contexts, NEW m, Receive(c, m)
    PROVE  /\ sdk' \in Seq(Streams) /\ Len(sdk') = Len(sdk) /\ BoundsInv'
           /\ UNCHANGED <<entry, op, requests, replaced, undelivered, overlapped>>
PROOF
  <1>1. TypeOK /\ sdk[c] \in Streams
    BY Elements DEF SessionsInv
  <1>2. sdk' = [sdk EXCEPT ![c] = [sdk[c] EXCEPT !.out = Tail(@)]] /\ sdk[c].out # <<>>
    BY DEF Receive
  <1>3. sdk' \in Seq(Streams) /\ Len(sdk') = Len(sdk)
    BY <1>1, <1>2, StreamMoves, StreamTypes
  <1> QED
    BY <1>1, <1>3, BoundsKept DEF Receive, TypeOK, history

LEMMA AssistantPreserves ==
    ASSUME SessionsInv, NEW c \in DOMAIN contexts, HandleAssistantMessage(c)
    PROVE  SessionsInv'
PROOF
  <1>1. /\ sdk' \in Seq(Streams) /\ Len(sdk') = Len(sdk) /\ BoundsInv'
        /\ UNCHANGED <<entry, op, requests, replaced, undelivered, overlapped>>
    BY ReceiveMoves DEF HandleAssistantMessage
  <1>2. TypeOK /\ TurnsInv
    BY DEF SessionsInv
  <1>3. CASE contexts[c].turn # 0
    <2>1. contexts' = contexts /\ turns' = turns
      BY <1>3 DEF HandleAssistantMessage
    <2>2. TurnsInv' /\ References' /\ WaitInv'
      BY <1>1, <1>2, <2>1 DEF TurnsInv, TypeOK, References, WaitInv
    <2>3. StopsFirst' /\ EntryInv' /\ ApprovalsInv' /\ ResolvedInv'
      BY <1>1, <2>1, StatusKept
    <2>4. TypeOK'
      BY <1>1, <1>2, <2>1, <2>2 DEF TypeOK
    <2> QED
      BY <2>2, <2>3, <2>4 DEF SessionsInv
  <1>4. CASE contexts[c].turn = 0
    <2>1. Announce(c, "synthetic") /\ replaced' = replaced \cup ({contexts[c].turn} \ {0})
      BY <1>1, <1>4 DEF HandleAssistantMessage
    <2>2. /\ TurnsInv' /\ References' /\ contexts' \in Seq(Contexts)
          /\ DOMAIN contexts' = DOMAIN contexts /\ Len(contexts') = Len(contexts)
          /\ \A d \in DOMAIN contexts : contexts'[d].stopped = contexts[d].stopped
                                         /\ contexts'[d].exited = contexts[d].exited
      BY <1>1, <1>2, <2>1, TurnBegins
    <2>3. turns' \in Seq(Announced) /\ Len(turns') = Len(turns) + 1
      BY <1>2, <2>1, AnnounceMoves
    <2>4. DOMAIN turns \subseteq DOMAIN turns'
      BY <1>2, <2>3 DEF TypeOK
    <2>5. StopsFirst' /\ EntryInv' /\ ApprovalsInv' /\ ResolvedInv'
      BY <1>1, <2>2, StatusKept
    <2>6. WaitInv'
      BY <1>1, <1>2, <2>2, <2>4 DEF TypeOK, WaitInv
    <2>7. TypeOK'
      BY <1>1, <1>2, <2>2, <2>3, <2>4, <2>6 DEF TypeOK
    <2> QED
      BY <2>2, <2>5, <2>7 DEF SessionsInv
  <1> QED
    BY <1>3, <1>4

(* completeTurn: the context and its turn.                                 *)
LEMMA CompleteTurnMoves ==
    ASSUME TypeOK, TurnsInv, NEW c \in DOMAIN contexts, CompleteTurn(c),
           RequestsMove, UNCHANGED replaced
    PROVE  /\ TurnsInv' /\ References' /\ contexts' \in Seq(Contexts)
           /\ turns' \in Seq(Announced) /\ DOMAIN turns' = DOMAIN turns
           /\ Len(contexts') = Len(contexts) /\ DOMAIN contexts' = DOMAIN contexts
           /\ \A d \in DOMAIN contexts : contexts'[d].stopped = contexts[d].stopped
                                          /\ contexts'[d].exited = contexts[d].exited
PROOF
  <1> DEFINE context == [contexts[c] EXCEPT !.turn = 0]
  <1>1. EndTurn(c) /\ contexts' = [contexts EXCEPT ![c] = context]
    BY DEF CompleteTurn
  <1>2. contexts[c] \in Contexts
    BY Elements
  <1>3. /\ context \in Contexts /\ context.turn = 0
        /\ context.stopped = contexts[c].stopped /\ context.exited = contexts[c].exited
    BY <1>2 DEF Contexts
  <1> HIDE DEF context
  <1>4. TurnsInv' /\ References'
    BY <1>1, <1>3, TurnEnds
  <1>5. /\ contexts' \in Seq(Contexts) /\ Len(contexts') = Len(contexts)
        /\ DOMAIN contexts' = DOMAIN contexts /\ contexts'[c] = context
        /\ \A d \in DOMAIN contexts \ {c} : contexts'[d] = contexts[d]
    BY <1>1, <1>3, ContextMoves
  <1>6. turns' \in Seq(Announced) /\ DOMAIN turns' = DOMAIN turns
    BY <1>1, EndTurnEnds DEF TypeOK
  <1> QED
    BY <1>3, <1>4, <1>5, <1>6

LEMMA ResultPreserves ==
    ASSUME SessionsInv, NEW c \in DOMAIN contexts, HandleResultMessage(c)
    PROVE  SessionsInv'
PROOF
  <1>1. /\ sdk' \in Seq(Streams) /\ Len(sdk') = Len(sdk) /\ BoundsInv'
        /\ UNCHANGED <<entry, op, requests, replaced, undelivered, overlapped>>
    BY ReceiveMoves DEF HandleResultMessage
  <1>2. TypeOK /\ TurnsInv /\ RequestsMove
    BY <1>1, RequestsStay DEF SessionsInv
  <1>3. /\ TurnsInv' /\ References' /\ contexts' \in Seq(Contexts)
        /\ turns' \in Seq(Announced) /\ DOMAIN turns' = DOMAIN turns
        /\ Len(contexts') = Len(contexts) /\ DOMAIN contexts' = DOMAIN contexts
        /\ \A d \in DOMAIN contexts : contexts'[d].stopped = contexts[d].stopped
                                       /\ contexts'[d].exited = contexts[d].exited
    BY <1>1, <1>2, CompleteTurnMoves DEF HandleResultMessage
  <1>4. StopsFirst' /\ EntryInv' /\ ApprovalsInv' /\ ResolvedInv'
    BY <1>1, <1>3, StatusKept
  <1>5. TypeOK'
    BY <1>1, <1>2, <1>3 DEF TypeOK, WaitInv
  <1> QED
    BY <1>3, <1>4, <1>5 DEF SessionsInv

(* A session stops: its turn ends and its approvals are decided.           *)
LEMMA StopMoves ==
    ASSUME TypeOK, TurnsInv, ResolvedInv, ApprovalsInv, NEW c \in DOMAIN contexts,
           NEW context \in Contexts, context.turn = 0, context.stopped,
           EndTurn(c), contexts' = [contexts EXCEPT ![c] = context], CancelApprovals(c),
           replaced' = replaced
    PROVE  /\ TurnsInv' /\ References' /\ contexts' \in Seq(Contexts)
           /\ turns' \in Seq(Announced) /\ DOMAIN turns' = DOMAIN turns
           /\ Len(contexts') = Len(contexts) /\ DOMAIN contexts' = DOMAIN contexts
           /\ contexts'[c] = context /\ \A d \in DOMAIN contexts \ {c} : contexts'[d] = contexts[d]
           /\ requests' \in Seq(Requests) /\ ResolvedInv' /\ ApprovalsInv'
PROOF
  <1>1. /\ RequestsMove /\ ResolvedInv'
        /\ \A r \in DOMAIN requests :
                requests[r].context = c /\ requests[r].kind = "approval" =>
                    requests'[r].state # "pending"
    BY CancelMoves
  <1>2. /\ contexts' \in Seq(Contexts) /\ Len(contexts') = Len(contexts)
        /\ DOMAIN contexts' = DOMAIN contexts /\ contexts'[c] = context
        /\ \A d \in DOMAIN contexts \ {c} : contexts'[d] = contexts[d]
    BY ContextMoves
  <1>3. turns' \in Seq(Announced) /\ DOMAIN turns' = DOMAIN turns
    BY EndTurnEnds DEF TypeOK
  <1>4. TurnsInv' /\ References'
    BY <1>1, TurnEnds
  <1>5. ApprovalsInv'
    <2>1. \A r \in DOMAIN requests : requests[r].context \in DOMAIN contexts
      BY DEF TypeOK, References
    <2>2. \A r \in DOMAIN requests :
                requests'[r].kind = "approval" /\ requests'[r].state = "pending"
                    /\ contexts'[requests[r].context].stopped =>
                        contexts[requests[r].context].stopped
      BY <1>1, <1>2, <2>1 DEF RequestsMove
    <2> QED
      BY <1>1, <2>2, ApprovalsKept
  <1> QED
    BY <1>1, <1>2, <1>3, <1>4, <1>5 DEF RequestsMove

LEMMA StreamExitPreserves ==
    ASSUME SessionsInv, NEW c \in DOMAIN contexts, HandleStreamExit(c)
    PROVE  SessionsInv'
PROOF
  <1> DEFINE context == [turn |-> 0, stopped |-> TRUE, exited |-> TRUE]
  <1>1. context \in Contexts /\ context.turn = 0 /\ context.stopped
    BY DEF Contexts
  <1>2. /\ EndTurn(c) /\ contexts' = [contexts EXCEPT ![c] = context] /\ CancelApprovals(c)
        /\ entry' = 0 /\ ~contexts[c].stopped
        /\ UNCHANGED <<op, sdk, replaced, undelivered, overlapped, bounds>>
    BY DEF HandleStreamExit, history, Live
  <1> HIDE DEF context
  <1>3. TypeOK /\ TurnsInv /\ ResolvedInv /\ ApprovalsInv
    BY DEF SessionsInv
  <1>4. /\ TurnsInv' /\ References' /\ contexts' \in Seq(Contexts)
        /\ turns' \in Seq(Announced) /\ DOMAIN turns' = DOMAIN turns
        /\ Len(contexts') = Len(contexts) /\ DOMAIN contexts' = DOMAIN contexts
        /\ contexts'[c] = context /\ \A d \in DOMAIN contexts \ {c} : contexts'[d] = contexts[d]
        /\ requests' \in Seq(Requests) /\ ResolvedInv' /\ ApprovalsInv'
    BY <1>1, <1>2, <1>3, StopMoves
  <1>5. StopsFirst'
    BY <1>1, <1>2, <1>4 DEF SessionsInv, TypeOK, WaitInv, StopsFirst
  <1>6. EntryInv'
    BY <1>1, <1>2, <1>4 DEF SessionsInv, EntryInv
  <1>7. WaitInv' /\ BoundsInv' /\ entry' \in 0..Len(contexts')
    BY <1>2, <1>3, <1>4, BoundsKept DEF TypeOK, WaitInv
  <1>8. TypeOK'
    BY <1>2, <1>3, <1>4, <1>7 DEF TypeOK
  <1> QED
    BY <1>4, <1>5, <1>6, <1>8 DEF SessionsInv

LEMMA StartSessionPreserves ==
    ASSUME SessionsInv, StartSession
    PROVE  SessionsInv'
PROOF
  <1> DEFINE context == [turn |-> 0, stopped |-> FALSE, exited |-> FALSE]
             n == Len(contexts) + 1
  <1>1. context \in Contexts /\ context.turn = 0 /\ ~context.stopped /\ ~context.exited
    BY DEF Contexts
  <1>2. Unasked \in Streams
    BY DEF Unasked, Streams
  <1>3. TypeOK
    BY DEF SessionsInv
  <1>4. /\ contexts' = Append(contexts, context) /\ sdk' = Append(sdk, Unasked)
        /\ entry' = Len(contexts') /\ overlapped' = (overlapped \/ Live(entry)) /\ op = Idle
        /\ UNCHANGED <<op, requests, turns, replaced, undelivered, bounds>>
    BY DEF StartSession
  <1> HIDE DEF context
  <1>5. /\ contexts' \in Seq(Contexts) /\ Len(contexts') = n
        /\ DOMAIN contexts' = DOMAIN contexts \cup {n} /\ n \notin DOMAIN contexts
        /\ contexts'[n] = context /\ \A d \in DOMAIN contexts : contexts'[d] = contexts[d]
    BY <1>1, <1>3, <1>4 DEF TypeOK
  <1>6. sdk' \in Seq(Streams) /\ Len(sdk') = Len(contexts') /\ entry' \in 0..Len(contexts')
    BY <1>2, <1>3, <1>4, <1>5 DEF TypeOK
  <1>7. op.at = "idle"
    BY <1>4 DEF Idle
  <1>8. TurnsInv' /\ StopsFirst' /\ ResolvedInv' /\ ApprovalsInv' /\ References'
    <2>1. \A t \in DOMAIN turns : turns[t].context \in DOMAIN contexts
      BY <1>3 DEF TypeOK, References
    <2>2. \A r \in DOMAIN requests : requests[r].context \in DOMAIN contexts
      BY <1>3 DEF TypeOK, References
    <2>3. TurnsInv' /\ StopsFirst'
      BY <2>1, <1>1, <1>4, <1>5, <1>7 DEF SessionsInv, TurnsInv, StopsFirst
    <2>4. ResolvedInv' /\ ApprovalsInv'
      BY <2>2, <1>4, <1>5 DEF SessionsInv, ResolvedInv, ApprovalsInv
    <2>5. References'
      BY <2>1, <2>2, <1>1, <1>3, <1>4, <1>5 DEF TypeOK, References
    <2> QED
      BY <2>3, <2>4, <2>5
  <1>9. EntryInv'
    <2>1. SUFFICES ASSUME ~overlapped', NEW d \in DOMAIN contexts', ~contexts'[d].stopped
                   PROVE  entry' = d /\ op'.at # "close"
      BY DEF EntryInv
    <2>2. ~overlapped /\ ~Live(entry)
      BY <2>1, <1>4
    <2>3. d \notin DOMAIN contexts
      BY <2>1, <2>2, <1>5 DEF SessionsInv, EntryInv, Live
    <2> QED
      BY <2>1, <2>3, <1>4, <1>5, <1>7
  <1>10. overlapped' \in BOOLEAN
    BY <1>4
  <1>11. BoundsInv' /\ WaitInv'
    BY <1>3, <1>4, <1>5, <1>7, BoundsKept DEF TypeOK, WaitInv
  <1>12. TypeOK'
    BY <1>3, <1>4, <1>5, <1>6, <1>8, <1>10, <1>11 DEF TypeOK
  <1> QED
    BY <1>8, <1>9, <1>12 DEF SessionsInv

LEMMA WaitTypes ==
    ASSUME NEW at \in {"idle", "model", "message", "close"}, NEW c \in Nat, NEW t \in Nat,
           Wait(at, c, t)
    PROVE  op' \in Waits /\ op'.at = at /\ op'.context = c /\ op'.turn = t
BY DEF Wait, Waits

LEMMA SendTurnPreserves ==
    ASSUME SessionsInv, SendTurn
    PROVE  SessionsInv'
PROOF
  <1>1. entry \in DOMAIN contexts /\ entry \in Nat
    BY DEF SendTurn, Called, Live, SessionsInv, TypeOK
  <1>2. UNCHANGED <<entry, sdk, requests, replaced, undelivered, overlapped, asides, failures>>
    BY DEF SendTurn, history
  <1>3. TypeOK /\ TurnsInv /\ RequestsMove
    BY <1>2, RequestsStay DEF SessionsInv
  <1>4. /\ TurnsInv' /\ References' /\ contexts' \in Seq(Contexts)
        /\ turns' \in Seq(Announced) /\ DOMAIN turns' = DOMAIN turns
        /\ Len(contexts') = Len(contexts) /\ DOMAIN contexts' = DOMAIN contexts
        /\ \A d \in DOMAIN contexts : contexts'[d].stopped = contexts[d].stopped
                                       /\ contexts'[d].exited = contexts[d].exited
    BY <1>1, <1>2, <1>3, CompleteTurnMoves DEF SendTurn
  <1>5. op' \in Waits /\ op'.at = "model" /\ op'.context = entry
    BY <1>1, WaitTypes DEF SendTurn
  <1>6. StopsFirst' /\ EntryInv' /\ ApprovalsInv' /\ ResolvedInv'
    BY <1>2, <1>4, <1>5, StatusKept
  <1>7. BoundsInv'
    BY <1>2, <1>3, ClaudeAssumption DEF TypeOK, BoundsInv, SendTurn
  <1>8. TypeOK'
    BY <1>1, <1>2, <1>3, <1>4, <1>5, <1>7 DEF TypeOK, WaitInv
  <1> QED
    BY <1>4, <1>6, <1>8 DEF SessionsInv

LEMMA BeginTurnPreserves ==
    ASSUME SessionsInv, BeginTurn
    PROVE  SessionsInv'
PROOF
  <1> DEFINE c == op.context
  <1>1. TypeOK /\ TurnsInv
    BY DEF SessionsInv
  <1>2. c \in DOMAIN contexts /\ c \in Nat
    BY <1>1, Elements DEF BeginTurn, TypeOK, WaitInv
  <1>3. /\ Announce(c, "user") /\ replaced' = replaced \cup ({contexts[c].turn} \ {0})
        /\ UNCHANGED <<entry, sdk, requests, undelivered, overlapped, bounds>>
    BY DEF BeginTurn
  <1>4. contexts[c].turn \in Nat
    BY <1>1, <1>2, Elements DEF Contexts
  <1>5. /\ TurnsInv' /\ References' /\ contexts' \in Seq(Contexts)
        /\ DOMAIN contexts' = DOMAIN contexts /\ Len(contexts') = Len(contexts)
        /\ \A d \in DOMAIN contexts : contexts'[d].stopped = contexts[d].stopped
                                       /\ contexts'[d].exited = contexts[d].exited
    BY <1>1, <1>2, <1>3, TurnBegins
  <1>6. turns' \in Seq(Announced) /\ Len(turns') = Len(turns) + 1
    BY <1>1, <1>2, <1>3, AnnounceMoves
  <1>7. DOMAIN turns \subseteq DOMAIN turns' /\ Len(turns') \in DOMAIN turns'
    BY <1>1, <1>6 DEF TypeOK
  <1>8. op' \in Waits /\ op'.at = "message" /\ op'.context = c /\ op'.turn = Len(turns')
    <2>1. Len(turns') \in Nat
      BY <1>6
    <2>2. Wait("message", c, Len(turns'))
      BY DEF BeginTurn
    <2> QED
      BY <2>1, <2>2, <1>2 DEF Wait, Waits
  <1>9. StopsFirst' /\ EntryInv' /\ ApprovalsInv' /\ ResolvedInv'
    BY <1>3, <1>5, <1>8, StatusKept
  <1>10. BoundsInv' /\ WaitInv'
    BY <1>1, <1>2, <1>3, <1>5, <1>7, <1>8, BoundsKept DEF TypeOK, WaitInv
  <1>11. TypeOK'
    BY <1>1, <1>3, <1>4, <1>5, <1>6, <1>7, <1>8, <1>10 DEF TypeOK
  <1> QED
    BY <1>5, <1>9, <1>11 DEF SessionsInv

(* The call fails, or the message is offered.                              *)
LEMMA MessagePreserves ==
    ASSUME SessionsInv, SetModelFails \/ OfferMessage \/ ReadAttachmentFails
    PROVE  SessionsInv'
PROOF
  <1>1. TypeOK
    BY DEF SessionsInv
  <1>2. /\ op' = Idle /\ op.at # "idle"
        /\ UNCHANGED <<contexts, entry, requests, turns, replaced, overlapped>>
    BY DEF SetModelFails, OfferMessage, ReadAttachmentFails, history
  <1>3. op.context \in DOMAIN contexts /\ sdk[op.context] \in Streams
    BY <1>1, <1>2, Elements DEF TypeOK, WaitInv
  <1>4. op' \in Waits /\ op'.at = "idle"
    BY <1>2, IdleType DEF Idle
  <1>5. sdk' \in Seq(Streams) /\ Len(sdk') = Len(sdk)
    <2>1. CASE sdk' = sdk
      BY <1>1, <2>1 DEF TypeOK
    <2>2. CASE sdk' = [sdk EXCEPT ![op.context].prompts = @ + 1]
      BY <1>1, <1>3, <2>2, StreamMoves, StreamTypes
    <2> QED
      BY <2>1, <2>2 DEF SetModelFails, OfferMessage, ReadAttachmentFails
  <1>6. undelivered' \subseteq DOMAIN turns
    BY <1>1 DEF TypeOK, WaitInv, SetModelFails, OfferMessage, ReadAttachmentFails, history
  <1>7. BoundsInv'
    BY <1>1, BoundsKept DEF TypeOK, SetModelFails, OfferMessage, ReadAttachmentFails
  <1>8. StopsFirst' /\ EntryInv' /\ ApprovalsInv' /\ ResolvedInv'
    BY <1>2, <1>4, StatusKept
  <1>9. TurnsInv' /\ References' /\ WaitInv'
    BY <1>1, <1>2, <1>4 DEF SessionsInv, TurnsInv, TypeOK, References, WaitInv
  <1>10. TypeOK'
    BY <1>1, <1>2, <1>4, <1>5, <1>6, <1>7, <1>9 DEF TypeOK
  <1> QED
    BY <1>8, <1>9, <1>10 DEF SessionsInv

LEMMA StopSessionPreserves ==
    ASSUME SessionsInv, StopSession
    PROVE  SessionsInv'
PROOF
  <1> DEFINE context == [contexts[entry] EXCEPT !.turn = 0, !.stopped = TRUE]
  <1>1. entry \in DOMAIN contexts /\ entry \in Nat
    BY DEF StopSession, Called, Live, SessionsInv, TypeOK
  <1>2. TypeOK /\ TurnsInv /\ ResolvedInv /\ ApprovalsInv
    BY DEF SessionsInv
  <1>3. contexts[entry] \in Contexts
    BY <1>1, <1>2, Elements
  <1>4. context \in Contexts /\ context.turn = 0 /\ context.stopped
    BY <1>3 DEF Contexts
  <1>5. /\ EndTurn(entry) /\ contexts' = [contexts EXCEPT ![entry] = context]
        /\ CancelApprovals(entry)
        /\ UNCHANGED <<entry, sdk, replaced, undelivered, overlapped, bounds>>
    BY DEF StopSession, history
  <1> HIDE DEF context
  <1>6. /\ TurnsInv' /\ References' /\ contexts' \in Seq(Contexts)
        /\ turns' \in Seq(Announced) /\ DOMAIN turns' = DOMAIN turns
        /\ Len(contexts') = Len(contexts) /\ DOMAIN contexts' = DOMAIN contexts
        /\ contexts'[entry] = context
        /\ \A d \in DOMAIN contexts \ {entry} : contexts'[d] = contexts[d]
        /\ requests' \in Seq(Requests) /\ ResolvedInv' /\ ApprovalsInv'
    BY <1>1, <1>2, <1>4, <1>5, StopMoves
  <1>7. op' \in Waits /\ op'.at = "close" /\ op'.context = entry
    BY <1>1, WaitTypes DEF StopSession
  <1>8. StopsFirst'
    BY <1>1, <1>4, <1>6, <1>7 DEF SessionsInv, StopsFirst
  <1>9. EntryInv'
    BY <1>4, <1>5, <1>6 DEF SessionsInv, EntryInv
  <1>10. BoundsInv' /\ WaitInv'
    BY <1>1, <1>2, <1>5, <1>6, <1>7, BoundsKept DEF TypeOK, WaitInv
  <1>11. TypeOK'
    BY <1>2, <1>5, <1>6, <1>7, <1>10 DEF TypeOK
  <1> QED
    BY <1>6, <1>8, <1>9, <1>11 DEF SessionsInv

LEMMA ClosePreserves ==
    ASSUME SessionsInv, Close
    PROVE  SessionsInv'
PROOF
  <1> DEFINE c == op.context
             context == [contexts[c] EXCEPT !.exited = TRUE]
  <1>1. TypeOK /\ ResolvedInv /\ op.at = "close"
    BY DEF SessionsInv, Close
  <1>2. c \in DOMAIN contexts /\ contexts[c] \in Contexts /\ contexts[c].stopped
        /\ sdk[c] \in Streams
    BY <1>1, Elements DEF TypeOK, WaitInv, SessionsInv, StopsFirst
  <1>3. context \in Contexts /\ context.turn = contexts[c].turn
        /\ context.stopped = contexts[c].stopped
    BY <1>2 DEF Contexts
  <1>4. /\ op' = Idle /\ entry' = 0 /\ contexts' = [contexts EXCEPT ![c] = context]
        /\ sdk' = [sdk EXCEPT ![c] = [sdk[c] EXCEPT !.ended = TRUE]]
        /\ UNCHANGED <<turns, replaced, undelivered, overlapped, bounds>>
    BY DEF Close, history
  <1>5. sdk' \in Seq(Streams) /\ Len(sdk') = Len(sdk)
    BY <1>1, <1>2, <1>4, StreamMoves, StreamTypes
  <1>6. RequestsMove /\ ResolvedInv'
    BY <1>1, AbortMoves DEF Close
  <1> HIDE DEF context
  <1>7. /\ contexts' \in Seq(Contexts) /\ Len(contexts') = Len(contexts)
        /\ DOMAIN contexts' = DOMAIN contexts /\ contexts'[c] = context
        /\ \A d \in DOMAIN contexts \ {c} : contexts'[d] = contexts[d]
    BY <1>1, <1>2, <1>3, <1>4, ContextMoves
  <1> HIDE DEF c
  <1>8. \A d \in DOMAIN contexts : contexts'[d].stopped = contexts[d].stopped
                                   /\ contexts'[d].turn = contexts[d].turn
    BY <1>3, <1>7
  <1>9. op' \in Waits /\ op'.at = "idle"
    BY <1>4, IdleType DEF Idle
  <1>10. References' /\ TurnsInv'
    <2>1. References'
      BY <1>1, <1>4, <1>6, <1>7, <1>8 DEF TypeOK, References, RequestsMove
    <2>2. \A t \in DOMAIN turns : turns[t].context \in DOMAIN contexts
      BY <1>1 DEF TypeOK, References
    <2> QED
      BY <2>1, <2>2, <1>4, <1>7, <1>8 DEF SessionsInv, TurnsInv
  <1>11. StopsFirst'
    BY <1>2, <1>3, <1>7, <1>9 DEF SessionsInv, StopsFirst
  <1>12. EntryInv'
    BY <1>1, <1>4, <1>7, <1>8 DEF SessionsInv, EntryInv
  <1>13. ApprovalsInv'
    BY <1>1, <1>6, <1>8, ApprovalsKept DEF SessionsInv, TypeOK, References
  <1>14. BoundsInv' /\ WaitInv' /\ entry' \in 0..Len(contexts')
    BY <1>1, <1>4, <1>7, <1>9, BoundsKept DEF TypeOK, WaitInv
  <1>15. TypeOK'
    BY <1>1, <1>4, <1>5, <1>6, <1>7, <1>9, <1>10, <1>14 DEF TypeOK, RequestsMove
  <1> QED
    BY <1>6, <1>10, <1>11, <1>12, <1>13, <1>15 DEF SessionsInv
-----------------------------------------------------------------------------
(* The theorems.                                                           *)

LEMMA SessionsStep ==
    ASSUME SessionsInv, [Next]_vars
    PROVE  SessionsInv'
PROOF
  <1>1. CASE UNCHANGED vars
    <2>1. UNCHANGED <<contexts, entry, op, sdk, requests, turns, history, bounds>>
      BY <1>1 DEF vars
    <2>2. TypeOK /\ ResolvedInv /\ BoundsInv
      BY DEF SessionsInv, TypeOK
    <2>3. RequestsMove /\ ResolvedInv' /\ BoundsInv' /\ sdk' \in Seq(Streams) /\ Len(sdk') = Len(sdk)
      BY <2>1, <2>2, RequestsStay, BoundsKept DEF TypeOK
    <2> QED
      BY <2>1, <2>3, SdkStep
  <1>2. CASE Operations
    BY <1>2, StartSessionPreserves, SendTurnPreserves, MessagePreserves, InterruptPreserves,
       AnswersPreserve, StopSessionPreserves
    DEF Operations
  <1>3. CASE Proceed
    BY <1>3, BeginTurnPreserves, MessagePreserves, ClosePreserves DEF Proceed
  <1>4. ASSUME NEW c \in DOMAIN contexts,
               \/ StreamFiber(c) \/ Work(c)
               \/ CanUseTool(c) \/ Say(c) \/ SayAside(c) \/ ProcessDies(c)
        PROVE  SessionsInv'
    BY <1>4, AssistantPreserves, ResultPreserves, StreamExitPreserves, TakePromptPreserves,
       SayPreserves, CanUseToolPreserves, ProcessDiesPreserves
    DEF StreamFiber, Work
  <1>5. CASE \E r \in DOMAIN requests : Resume(r)
    BY <1>5, AnswersPreserve
  <1> QED
    BY <1>1, <1>2, <1>3, <1>4, <1>5 DEF Next

LEMMA SessionsAlways == Spec => []SessionsInv
  <1>1. Init => SessionsInv
    BY InitHolds
  <1>2. SessionsInv /\ [Next]_vars => SessionsInv'
    BY SessionsStep
  <1> QED
    BY <1>1, <1>2, PTL DEF Spec

(* The state has the declared shape, and contexts, turns and requests      *)
(* refer to ones that exist, whatever is called, asked for or dies when.   *)
THEOREM SessionsTypeCorrect == Spec => []TypeOK
  <1>1. SessionsInv => TypeOK
    BY DEF SessionsInv
  <1> QED
    BY <1>1, SessionsAlways, PTL

(* Every turn announced is ended once, and none is left open by a session  *)
(* that exits, for every interleaving of results, sends, stops and exits   *)
(* (completeTurn, sendTurn, handleStreamExit).                             *)
THEOREM TurnsEndOnceAlways == Spec => []TurnsEndOnce
  <1>1. SessionsInv => TurnsEndOnce
    <2> SUFFICES ASSUME SessionsInv, NEW t \in DOMAIN turns \ replaced
                 PROVE  LET context == contexts[turns[t].context]
                        IN  /\ turns[t].ends = IF context.turn = t THEN 0 ELSE 1
                            /\ context.exited /\ ~turns[t].late => turns[t].ends = 1
      BY DEF TurnsEndOnce
    <2> DEFINE c == turns[t].context
    <2>1. c \in DOMAIN contexts /\ t # 0
      BY Elements DEF SessionsInv, TypeOK, References
    <2>2. CASE contexts[c].turn # t
      BY <2>2 DEF SessionsInv, TurnsInv
    <2>3. CASE contexts[c].turn = t
      BY <2>1, <2>3 DEF SessionsInv, TurnsInv, StopsFirst
    <2> QED
      BY <2>2, <2>3
  <1> QED
    BY <1>1, SessionsAlways, PTL

(* Every approval and question is resolved once, or twice if a stop        *)
(* cancelled it; one that waits belongs to the session that answers reach, *)
(* and no approval outlives its session (canUseTool, stopSessionInternal). *)
THEOREM RequestsAreSettledAlways == Spec => []RequestsAreSettled
  <1>1. SessionsInv => RequestsAreSettled
    <2> SUFFICES ASSUME SessionsInv, NEW r \in DOMAIN requests
                 PROVE  LET request == requests[r]
                            context == contexts[request.context]
                        IN  /\ request.resolved <= IF request.cancelled THEN 2 ELSE 1
                            /\ request.state = "pending" /\ ~context.stopped /\ ~overlapped =>
                                  entry = request.context
                            /\ request.kind = "approval" /\ context.exited /\ ~request.late =>
                                  request.state # "pending"
      BY DEF RequestsAreSettled
    <2>1. requests[r] \in Requests /\ Counted(requests[r]) /\ requests[r].context \in DOMAIN contexts
      BY Elements DEF SessionsInv, TypeOK, References, ResolvedInv
    <2>2. requests[r].resolved <= IF requests[r].cancelled THEN 2 ELSE 1
      BY <2>1 DEF Requests, Counted
    <2>3. requests[r].state = "pending" /\ ~contexts[requests[r].context].stopped /\ ~overlapped =>
            entry = requests[r].context
      BY <2>1 DEF SessionsInv, EntryInv
    <2>4. requests[r].kind = "approval" /\ contexts[requests[r].context].exited /\ ~requests[r].late =>
            requests[r].state # "pending"
      BY <2>1 DEF SessionsInv, ApprovalsInv, StopsFirst
    <2> QED
      BY <2>2, <2>3, <2>4
  <1> QED
    BY <1>1, SessionsAlways, PTL
=============================================================================

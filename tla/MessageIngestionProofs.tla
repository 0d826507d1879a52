------------------------ MODULE MessageIngestionProofs ------------------------
(***************************************************************************)
(* Proofs about the text of assistant messages: the type invariant, that   *)
(* text reaches the reader once and in order, and that the messages of a   *)
(* completed turn are finished, for any messages and turns, any size of    *)
(* the buffer, and any number of failures and changes of the mode.         *)
(***************************************************************************)
EXTENDS MessageIngestionProperties, TLAPS

(* The inputs of the worker: about a message, the end of a turn, a mode.   *)
AboutMessage == {"delta", "item"}
TextInputs == [type : AboutMessage, message : Messages, turn : Turns, text : Chunks]
EndInputs == [type : {"completed", "exited"}, message : {NoMessage}, turn : Turns, text : {<<>>}]
ModeInputs == [type : {"mode"}, mode : {"buffered", "streaming"}]
Inputs == TextInputs \cup EndInputs \cup ModeInputs

Of(input, m) == input.type \in AboutMessage /\ input.message = m
Ends(input, t) == input.type \in {"completed", "exited"} /\ input.turn = t
Completes(input, t) == input.type = "completed" /\ input.turn = t
Speaks(input, t) == input.type \in AboutMessage /\ input.turn = t

(* The text of a delta is one chunk, that of a completion all of them.     *)
InputOf(input) ==
    /\ input \in Inputs
    /\ input.type \in AboutMessage => input.turn = TurnOf[input.message]
    /\ input.type = "delta" => input.text = <<input.text[1]>> /\ input.text[1] \in 1..said[input.message]
    /\ input.type = "item" =>
        /\ input.message \in whole
        /\ input.text # <<>> => input.text = FullText(input.message) /\ said[input.message] > 0
    /\ \A t \in Turns : Ends(input, t) => ended[t] = input.type

(* Of two inputs the first is no completion of the second's message, has   *)
(* no later chunk of it, and does not end its turn.                        *)
Precedes(first, second) ==
    /\ \A m \in Messages : Of(first, m) /\ Of(second, m) =>
        /\ first.type = "delta"
        /\ second.type = "delta" => first.text[1] < second.text[1]
    /\ \A t \in Turns : Ends(first, t) =>
        ~Ends(second, t) /\ ~Speaks(second, t)

QueueInv ==
    /\ queue \in Seq(Inputs)
    /\ \A input \in Range(queue) : InputOf(input)
    /\ \A i, j \in DOMAIN queue : i < j => Precedes(queue[i], queue[j])

Pending(t) == \E input \in Range(queue) : Completes(input, t)

(* Text of a completed turn comes before the turn's completion.            *)
PendingInv ==
    \A t \in Turns : ended[t] = "completed" =>
        \A input \in Range(queue) : Speaks(input, t) => Pending(t)

(* The input in hand was before those that wait; its commands are about    *)
(* remembered messages of its turn.                                        *)
HandInv ==
    /\ task.input \in Inputs
    /\ task.input.type \in AboutMessage =>
        /\ task.input.turn = TurnOf[task.input.message]
        /\ task.rest \subseteq {task.input.message}
        /\ task.input.message \in remembered[task.input.turn]
        /\ \A i \in DOMAIN task.commands : task.commands[i].message = task.input.message
        /\ ended[task.input.turn] = "completed" => Pending(task.input.turn)
    /\ task.input.type = "item" => task.input.message \in whole
    /\ task.input.type = "completed" =>
        /\ ended[task.input.turn] = "completed"
        /\ task.rest \subseteq remembered[task.input.turn]
        /\ \A i \in DOMAIN task.commands : task.commands[i].message \in remembered[task.input.turn]
        /\ \A input \in Range(queue) :
            ~Ends(input, task.input.turn) /\ ~Speaks(input, task.input.turn)
    /\ task.input.type \notin AboutMessage \cup {"completed"} =>
        task.rest = {} /\ task.commands = <<>>

(* A message is completed without text, when nothing of it is buffered;    *)
(* where messages are finalized, the delta of one is before its completion.*)
CompletionOf(i) ==
    \E j \in DOMAIN task.commands :
        /\ j > i /\ task.commands[j].do = "complete"
        /\ task.commands[j].message = task.commands[i].message

CommandsInv ==
    \A i \in DOMAIN task.commands :
        /\ task.commands[i].do = "complete" =>
            task.commands[i].text = <<>> /\ buffer[task.commands[i].message] = <<>>
        /\ task.commands[i].do = "delta" /\ task.input.type # "delta" => CompletionOf(i)

TaskInv ==
    /\ task = Handling(task.input, task.rest, task.fallback, task.commands)
    /\ task = Idle \/ HandInv
    /\ CommandsInv

(* A text to fall back on is whole, and the read model has none of it.     *)
FallbackInv ==
    \A m \in task.rest : task.fallback # <<>> =>
        /\ task.input.type = "item" /\ task.input.message = m
        /\ task.fallback = FullText(m) /\ said[m] > 0
        /\ message[m].text = <<>> /\ task.commands = <<>>
        /\ \A input \in Range(queue) : ~Of(input, m)

-----------------------------------------------------------------------------
(* The text of a message in three parts.                                   *)

Apart(a, b) == Range(a) \cap Range(b) = {}
Below(a, b) == \A x \in Range(a), y \in Range(b) : x < y
Rises(a) == \A i, j \in DOMAIN a : i < j => a[i] < a[j]

Once(a, b, c) ==
    /\ IsInjective(a) /\ IsInjective(b) /\ IsInjective(c)
    /\ Apart(a, b) /\ Apart(a, c) /\ Apart(b, c)

InOrder(a, b, c) ==
    /\ Rises(a) /\ Rises(b) /\ Rises(c)
    /\ Below(a, b) /\ Below(a, c) /\ Below(b, c)

Content(m) == Range(message[m].text) \cup Range(InHand(m)) \cup Range(buffer[m])

(* The only chunk comes with the completion.                               *)
OnlyWhole(m) ==
    /\ said[m] = 1 /\ Content(m) = {}
    /\ \A input \in Range(queue) : Of(input, m) => input.text = <<1>> /\ input.type = "item"
    /\ \/ \E input \in Range(queue) : Of(input, m)
       \/ m \in task.rest /\ task.fallback = <<1>>

DeltaOf(input, m) == input.type = "delta" /\ input.message = m
InDelta(k, m) == \E input \in Range(queue) : DeltaOf(input, m) /\ input.text = <<k>>

TextOf(m) ==
    /\ Once(message[m].text, InHand(m), buffer[m])
    /\ m \notin overtaken => InOrder(message[m].text, InHand(m), buffer[m])
    /\ Content(m) \subseteq 1..said[m]
    /\ \A input \in Range(queue) : DeltaOf(input, m) =>
            \A x \in Content(m) : x < input.text[1]
    /\ m \notin lost =>
        OnlyWhole(m) \/ \A k \in 1..said[m] : k \in Content(m) \/ InDelta(k, m)

TextInv == \A m \in Messages : TextOf(m)
-----------------------------------------------------------------------------
(* What is left to do of a message.                                        *)

Tidy(m) ==
    /\ message[m].state # "streaming" /\ buffer[m] = <<>>
    /\ said[m] > 0 => message[m].state = "done"

Completing(m) ==
    \/ m \in task.rest
    \/ /\ buffer[m] = <<>>
       /\ \E i \in DOMAIN task.commands :
            task.commands[i].do = "complete" /\ task.commands[i].message = m

Covered(m) == m \in remembered[TurnOf[m]] \/ \E input \in Range(queue) : Of(input, m)

StateOf(m) ==
    LET t == TurnOf[m]
    IN  /\ Tidy(m) \/ Covered(m) \/ m \in unfinished \/ ended[t] = "exited"
        /\ ended[t] = "completed" =>
            Tidy(m) \/ m \in unfinished \/ Pending(t) \/ Completes(task.input, t)
        /\ Completes(task.input, t) => Tidy(m) \/ Completing(m) \/ m \in unfinished
        /\ task.input.type = "item" /\ task.input.message = m => Tidy(m) \/ Completing(m)

StateInv == \A m \in Messages : StateOf(m)

IngestionInv == TypeOK /\ QueueInv /\ PendingInv /\ TaskInv /\ FallbackInv /\ TextInv /\ StateInv
-----------------------------------------------------------------------------
(* Sequences.                                                              *)

LEMMA RangeOfEmpty == Range(<<>>) = {} /\ IsInjective(<<>>) /\ Rises(<<>>)
BY DEF Range, IsInjective, Rises

LEMMA EmptyRange ==
    ASSUME NEW S, NEW s \in Seq(S), Range(s) = {}
    PROVE  s = <<>>
PROOF
  <1>1. s # <<>> => 1 \in DOMAIN s
    OBVIOUS
  <1> QED
    BY <1>1 DEF Range

LEMMA RangeOfOne ==
    ASSUME NEW k
    PROVE  Range(<<k>>) = {k} /\ IsInjective(<<k>>) /\ Rises(<<k>>)
PROOF
  <1>1. DOMAIN <<k>> = {1} /\ <<k>>[1] = k
    OBVIOUS
  <1>2. Range(<<k>>) = {k}
    BY <1>1 DEF Range
  <1>3. IsInjective(<<k>>) /\ Rises(<<k>>)
    BY <1>1 DEF IsInjective, Rises
  <1> QED
    BY <1>2, <1>3

LEMMA RangeOfAppend ==
    ASSUME NEW S, NEW s \in Seq(S), NEW x \in S
    PROVE  Range(Append(s, x)) = Range(s) \cup {x}
PROOF
  <1> DEFINE n == Append(s, x)
  <1>1. /\ DOMAIN n = 1..(Len(s) + 1) /\ DOMAIN s = 1..Len(s) /\ Len(s) \in Nat
        /\ n[Len(s) + 1] = x /\ \A i \in DOMAIN s : n[i] = s[i]
    OBVIOUS
  <1> HIDE DEF n
  <1>2. \A i \in DOMAIN n : n[i] \in Range(s) \cup {x}
    BY <1>1 DEF Range
  <1>3. \A i \in DOMAIN s : i \in DOMAIN n /\ s[i] = n[i]
    BY <1>1
  <1>4. Len(s) + 1 \in DOMAIN n
    BY <1>1
  <1>5. Range(n) \subseteq Range(s) \cup {x}
    BY <1>2 DEF Range
  <1>6. Range(s) \subseteq Range(n)
    BY <1>3 DEF Range
  <1>7. x \in Range(n)
    BY <1>1, <1>4 DEF Range
  <1> QED
    BY <1>5, <1>6, <1>7 DEF n

LEMMA RangeOfTail ==
    ASSUME NEW S, NEW s \in Seq(S), s # <<>>
    PROVE  /\ Head(s) \in S /\ Tail(s) \in Seq(S) /\ Len(Tail(s)) = Len(s) - 1
           /\ Range(s) = {Head(s)} \cup Range(Tail(s)) /\ Range(Tail(s)) \subseteq S
           /\ \A x \in Range(Tail(s)) : \E i \in DOMAIN s : i > 1 /\ x = s[i]
PROOF
  <1> DEFINE n == Tail(s)
  <1>1. /\ Len(s) \in Nat \ {0} /\ DOMAIN s = 1..Len(s) /\ Head(s) = s[1]
        /\ n \in Seq(S) /\ Len(n) = Len(s) - 1 /\ DOMAIN n = 1..(Len(s) - 1)
        /\ \A i \in DOMAIN n : n[i] = s[i + 1]
        /\ \A i \in DOMAIN s : s[i] \in S
    OBVIOUS
  <1> HIDE DEF n
  <1>2. \A i \in DOMAIN n : i + 1 \in DOMAIN s /\ i + 1 > 1
    BY <1>1
  <1>3. \A i \in DOMAIN s : i = 1 \/ (i - 1 \in DOMAIN n /\ n[i - 1] = s[i])
    <2> SUFFICES ASSUME NEW i \in DOMAIN s, i # 1
                 PROVE  i - 1 \in DOMAIN n /\ n[i - 1] = s[i]
      OBVIOUS
    <2>1. i - 1 \in DOMAIN n /\ (i - 1) + 1 = i
      BY <1>1
    <2> QED
      BY <1>1, <2>1
  <1>4. 1 \in DOMAIN s
    BY <1>1
  <1>5. \A x \in Range(n) : \E i \in DOMAIN s : i > 1 /\ x = s[i]
    BY <1>1, <1>2 DEF Range
  <1>6. Range(s) \subseteq {Head(s)} \cup Range(n)
    BY <1>1, <1>3 DEF Range
  <1>7. {Head(s)} \cup Range(n) \subseteq Range(s)
    BY <1>1, <1>4, <1>5 DEF Range
  <1>8. Range(n) \subseteq S
    BY <1>1, <1>5
  <1> QED
    BY <1>1, <1>4, <1>5, <1>6, <1>7, <1>8 DEF n

(* Of two sequences, one after the other.                                  *)
LEMMA ConcatElements ==
    ASSUME NEW S, NEW a \in Seq(S), NEW b \in Seq(S)
    PROVE  /\ a \o b \in Seq(S) /\ Len(a \o b) = Len(a) + Len(b)
           /\ \A i \in DOMAIN (a \o b) :
                \/ i \in DOMAIN a /\ (a \o b)[i] = a[i]
                \/ i - Len(a) \in DOMAIN b /\ i > Len(a) /\ (a \o b)[i] = b[i - Len(a)]
           /\ \A i \in DOMAIN a : i \in DOMAIN (a \o b) /\ (a \o b)[i] = a[i]
           /\ \A i \in DOMAIN b : i + Len(a) \in DOMAIN (a \o b) /\ (a \o b)[i + Len(a)] = b[i]
OBVIOUS

LEMMA ConcatEmpty ==
    ASSUME NEW S, NEW a \in Seq(S)
    PROVE  a \o <<>> = a /\ <<>> \o a = a
OBVIOUS

LEMMA ConcatRange ==
    ASSUME NEW S, NEW a \in Seq(S), NEW b \in Seq(S)
    PROVE  Range(a \o b) = Range(a) \cup Range(b)
PROOF
  <1>1. PICK n : n = a \o b
    OBVIOUS
  <1>2. /\ \A i \in DOMAIN n : (i \in DOMAIN a /\ n[i] = a[i])
                                \/ (i - Len(a) \in DOMAIN b /\ n[i] = b[i - Len(a)])
        /\ \A i \in DOMAIN a : i \in DOMAIN n /\ n[i] = a[i]
        /\ \A i \in DOMAIN b : i + Len(a) \in DOMAIN n /\ n[i + Len(a)] = b[i]
    BY <1>1, ConcatElements
  <1>3. Range(n) \subseteq Range(a) \cup Range(b)
    BY <1>2 DEF Range
  <1>4. Range(a) \subseteq Range(n) /\ Range(b) \subseteq Range(n)
    BY <1>2 DEF Range
  <1> QED
    BY <1>1, <1>3, <1>4

LEMMA ConcatInjective ==
    ASSUME NEW S, NEW a \in Seq(S), NEW b \in Seq(S), IsInjective(a), IsInjective(b), Apart(a, b)
    PROVE  IsInjective(a \o b)
PROOF
  <1>1. PICK n : n = a \o b
    OBVIOUS
  <1>2. \A i \in DOMAIN n : (i \in DOMAIN a /\ n[i] = a[i])
                            \/ (i - Len(a) \in DOMAIN b /\ n[i] = b[i - Len(a)])
    BY <1>1, ConcatElements
  <1>3. DOMAIN n = 1..(Len(a) + Len(b)) /\ Len(a) \in Nat /\ Len(b) \in Nat
    BY <1>1
  <1>4. \A i \in DOMAIN a, j \in DOMAIN b : a[i] # b[j]
    BY DEF Apart, Range
  <1>5. ASSUME NEW i \in DOMAIN n, NEW j \in DOMAIN n, n[i] = n[j]
        PROVE  i = j
    <2>1. CASE i \in DOMAIN a /\ n[i] = a[i] /\ j \in DOMAIN a /\ n[j] = a[j]
      BY <1>5, <2>1 DEF IsInjective
    <2>2. CASE i - Len(a) \in DOMAIN b /\ n[i] = b[i - Len(a)]
               /\ j - Len(a) \in DOMAIN b /\ n[j] = b[j - Len(a)]
      <3>1. i - Len(a) = j - Len(a)
        BY <1>5, <2>2 DEF IsInjective
      <3> QED
        BY <1>3, <3>1
    <2> QED
      BY <1>2, <1>4, <1>5, <2>1, <2>2
  <1> QED
    BY <1>1, <1>5 DEF IsInjective

LEMMA ConcatRises ==
    ASSUME NEW a \in Seq(Nat), NEW b \in Seq(Nat), Rises(a), Rises(b), Below(a, b)
    PROVE  Rises(a \o b)
PROOF
  <1>1. PICK n : n = a \o b
    OBVIOUS
  <1>2. \A i \in DOMAIN n : (i \in DOMAIN a /\ n[i] = a[i])
            \/ (i - Len(a) \in DOMAIN b /\ i > Len(a) /\ n[i] = b[i - Len(a)])
    BY <1>1, ConcatElements
  <1>3. /\ DOMAIN n = 1..(Len(a) + Len(b)) /\ DOMAIN a = 1..Len(a)
        /\ Len(a) \in Nat /\ Len(b) \in Nat
    BY <1>1
  <1>4. \A i \in DOMAIN a, j \in DOMAIN b : a[i] < b[j]
    BY DEF Below, Range
  <1>5. ASSUME NEW i \in DOMAIN n, NEW j \in DOMAIN n, i < j
        PROVE  n[i] < n[j]
    <2>1. CASE j \in DOMAIN a /\ n[j] = a[j]
      <3>1. i \in DOMAIN a /\ n[i] = a[i]
        BY <1>2, <1>3, <1>5, <2>1
      <3> QED
        BY <1>5, <2>1, <3>1 DEF Rises
    <2>2. CASE j - Len(a) \in DOMAIN b /\ n[j] = b[j - Len(a)]
      <3>1. CASE i \in DOMAIN a /\ n[i] = a[i]
        BY <1>4, <2>2, <3>1
      <3>2. CASE i - Len(a) \in DOMAIN b /\ n[i] = b[i - Len(a)]
        <4>1. i - Len(a) < j - Len(a)
          BY <1>3, <1>5
        <4> QED
          BY <2>2, <3>2, <4>1 DEF Rises
      <3> QED
        BY <1>2, <3>1, <3>2
    <2> QED
      BY <1>2, <2>1, <2>2
  <1> QED
    BY <1>1, <1>5 DEF Rises

LEMMA FullTextFields ==
    ASSUME NEW m, said[m] \in Nat \ {0}
    PROVE  /\ FullText(m) \in Seq(1..said[m]) /\ Range(FullText(m)) = 1..said[m]
           /\ FullText(m) # <<>> /\ Len(FullText(m)) = said[m]
           /\ IsInjective(FullText(m)) /\ Rises(FullText(m))
PROOF
  <1> DEFINE n == FullText(m)
  <1>1. n = [i \in 1..said[m] |-> i]
    BY DEF FullText
  <1>2. n \in Seq(1..said[m]) /\ Len(n) = said[m] /\ DOMAIN n = 1..said[m]
    BY <1>1
  <1>3. \A i \in DOMAIN n : n[i] = i
    BY <1>1
  <1> HIDE DEF n
  <1>4. Range(n) = 1..said[m]
    BY <1>2, <1>3 DEF Range
  <1>5. IsInjective(n) /\ Rises(n)
    BY <1>2, <1>3 DEF IsInjective, Rises
  <1>6. n # <<>>
    BY <1>2
  <1> QED
    BY <1>2, <1>4, <1>5, <1>6 DEF n
-----------------------------------------------------------------------------
(* The parts of a text.                                                    *)

LEMMA SequenceElements ==
    ASSUME NEW S, NEW T, S \subseteq T, NEW s \in Seq(S)
    PROVE  s \in Seq(T) /\ Range(s) \subseteq S
PROOF
  <1>1. Len(s) \in Nat /\ DOMAIN s = 1..Len(s) /\ \A i \in 1..Len(s) : s[i] \in S
    OBVIOUS
  <1>2. s \in Seq(T)
    BY <1>1
  <1>3. Range(s) \subseteq S
    BY <1>1 DEF Range
  <1> QED
    BY <1>2, <1>3

LEMMA ChunksAreNumbers ==
    ASSUME NEW a \in Chunks
    PROVE  a \in Seq(Nat) /\ a \in Seq(1..MaxChunks) /\ Range(a) \subseteq 1..MaxChunks
PROOF
  <1>1. a \in Seq(1..MaxChunks)
    BY DEF Chunks
  <1>2. 1..MaxChunks \subseteq Nat
    OBVIOUS
  <1> QED
    BY <1>1, <1>2, SequenceElements

(* Delivered, the text in hand follows what was delivered.                 *)
LEMMA PartsDelivered ==
    ASSUME NEW a \in Chunks, NEW b \in Chunks, NEW c
    PROVE  /\ Once(a, b, c) => Once(a \o b, <<>>, c)
           /\ InOrder(a, b, c) => InOrder(a \o b, <<>>, c)
           /\ Range(a \o b) = Range(a) \cup Range(b) /\ a \o b \in Chunks
PROOF
  <1>1. a \in Seq(Nat) /\ b \in Seq(Nat)
    BY ChunksAreNumbers
  <1>2. Range(a \o b) = Range(a) \cup Range(b)
    BY <1>1, ConcatRange
  <1>3. Once(a, b, c) => IsInjective(a \o b)
    BY <1>1, ConcatInjective DEF Once
  <1>4. InOrder(a, b, c) => Rises(a \o b)
    BY <1>1, ConcatRises DEF InOrder
  <1>5. a \o b \in Chunks
    BY DEF Chunks
  <1>6. PICK n : n = a \o b
    OBVIOUS
  <1>7. Once(a, b, c) => Once(n, <<>>, c)
    BY <1>2, <1>3, <1>6, RangeOfEmpty DEF Once, Apart
  <1>8. InOrder(a, b, c) => InOrder(n, <<>>, c)
    BY <1>2, <1>4, <1>6, RangeOfEmpty DEF InOrder, Below
  <1> QED
    BY <1>2, <1>5, <1>6, <1>7, <1>8

(* Finalized, the buffered text is in hand; lost, it is nowhere.           *)
LEMMA PartsMoved ==
    ASSUME NEW a, NEW b, NEW c
    PROVE  /\ Once(a, <<>>, c) => Once(a, c, <<>>)
           /\ InOrder(a, <<>>, c) => InOrder(a, c, <<>>)
           /\ Once(a, b, c) => Once(a, b, <<>>) /\ Once(a, <<>>, c)
           /\ InOrder(a, b, c) => InOrder(a, b, <<>>) /\ InOrder(a, <<>>, c)
BY RangeOfEmpty DEF Once, InOrder, Apart, Below

(* A later chunk is added to the buffered text.                            *)
LEMMA PartsExtended ==
    ASSUME NEW a \in Chunks, NEW c \in Chunks, NEW k \in 1..MaxChunks, Once(a, <<>>, c),
           \A x \in Range(a) \cup Range(c) : x < k
    PROVE  /\ Once(a, <<>>, c \o <<k>>) /\ Once(a, c \o <<k>>, <<>>)
           /\ InOrder(a, <<>>, c) =>
                InOrder(a, <<>>, c \o <<k>>) /\ InOrder(a, c \o <<k>>, <<>>)
           /\ Range(c \o <<k>>) = Range(c) \cup {k} /\ c \o <<k>> \in Chunks
           /\ Len(c \o <<k>>) = Len(c) + 1
PROOF
  <1>1. /\ c \in Seq(Nat) /\ <<k>> \in Seq(Nat) /\ k \in Nat
        /\ Range(a) \subseteq Nat /\ Range(c) \subseteq Nat
    BY ChunksAreNumbers
  <1>2. Range(<<k>>) = {k} /\ IsInjective(<<k>>) /\ Rises(<<k>>)
    BY RangeOfOne
  <1>3. PICK one : one = <<k>>
    OBVIOUS
  <1>4. PICK n : n = c \o one
    OBVIOUS
  <1>5. Range(n) = Range(c) \cup {k}
    <2>1. one \in Seq(Nat) /\ Range(one) = {k}
      BY <1>1, <1>2, <1>3
    <2> QED
      BY <1>1, <1>4, <2>1, ConcatRange
  <1>6. k \notin Range(a) \cup Range(c)
    BY <1>1
  <1>7. IsInjective(n)
    BY <1>1, <1>2, <1>3, <1>4, <1>6, ConcatInjective DEF Once, Apart
  <1>8. InOrder(a, <<>>, c) => Rises(n)
    BY <1>1, <1>2, <1>3, <1>4, ConcatRises DEF InOrder, Below
  <1>9. n \in Chunks /\ Len(n) = Len(c) + 1
    BY <1>3, <1>4 DEF Chunks
  <1>10. Once(a, <<>>, n) /\ Once(a, n, <<>>)
    BY <1>5, <1>6, <1>7, RangeOfEmpty DEF Once, Apart
  <1>11. InOrder(a, <<>>, c) => InOrder(a, <<>>, n) /\ InOrder(a, n, <<>>)
    BY <1>5, <1>8, RangeOfEmpty DEF InOrder, Below
  <1> QED
    BY <1>3, <1>4, <1>5, <1>9, <1>10, <1>11

(* Or delivered, past what is buffered.                                    *)
LEMMA PartsPassed ==
    ASSUME NEW a \in Chunks, NEW c \in Chunks, NEW k \in 1..MaxChunks, Once(a, <<>>, c),
           \A x \in Range(a) \cup Range(c) : x < k
    PROVE  /\ Once(a, <<k>>, c)
           /\ InOrder(a, <<>>, c) /\ c = <<>> => InOrder(a, <<k>>, c)
PROOF
  <1>1. k \in Nat /\ Range(a) \subseteq Nat /\ Range(c) \subseteq Nat
    BY ChunksAreNumbers
  <1>2. Range(<<k>>) = {k} /\ IsInjective(<<k>>) /\ Rises(<<k>>)
    BY RangeOfOne
  <1>3. k \notin Range(a) \cup Range(c)
    BY <1>1
  <1> QED
    BY <1>2, <1>3, RangeOfEmpty DEF Once, InOrder, Apart, Below

LEMMA WholeParts ==
    ASSUME NEW m, said[m] \in Nat \ {0}
    PROVE  Once(<<>>, FullText(m), <<>>) /\ InOrder(<<>>, FullText(m), <<>>)
BY FullTextFields, RangeOfEmpty DEF Once, InOrder, Apart, Below

LEMMA EmptyParts == Once(<<>>, <<>>, <<>>) /\ InOrder(<<>>, <<>>, <<>>)
BY RangeOfEmpty DEF Once, InOrder, Apart, Below
-----------------------------------------------------------------------------
(* The queue.                                                              *)

LEMMA QueueHead ==
    ASSUME QueueInv, queue # <<>>
    PROVE  /\ Head(queue) \in Inputs /\ InputOf(Head(queue))
           /\ Tail(queue) \in Seq(Inputs) /\ Len(Tail(queue)) = Len(queue) - 1
           /\ Len(queue) \in Nat
           /\ Range(queue) = {Head(queue)} \cup Range(Tail(queue))
           /\ \A input \in Range(Tail(queue)) : Precedes(Head(queue), input) /\ InputOf(input)
PROOF
  <1>1. queue \in Seq(Inputs)
    BY DEF QueueInv
  <1>2. /\ Head(queue) \in Inputs /\ Tail(queue) \in Seq(Inputs)
        /\ Len(Tail(queue)) = Len(queue) - 1 /\ Range(queue) = {Head(queue)} \cup Range(Tail(queue))
        /\ \A x \in Range(Tail(queue)) : \E i \in DOMAIN queue : i > 1 /\ x = queue[i]
    BY <1>1, RangeOfTail
  <1>3. 1 \in DOMAIN queue /\ Head(queue) = queue[1] /\ Len(queue) \in Nat
    BY <1>1
  <1>4. \A x \in Range(Tail(queue)) : Precedes(Head(queue), x)
    BY <1>2, <1>3 DEF QueueInv
  <1>5. \A x \in Range(queue) : InputOf(x)
    BY DEF QueueInv
  <1> QED
    BY <1>2, <1>3, <1>4, <1>5

LEMMA QueueTaken ==
    ASSUME QueueInv, queue # <<>>, queue' = Tail(queue), UNCHANGED provider
    PROVE  QueueInv'
PROOF
  <1>1. said' = said /\ whole' = whole /\ ended' = ended
    BY DEF provider
  <1>2. queue' \in Seq(Inputs) /\ \A input \in Range(queue') : InputOf(input)
    BY QueueHead
  <1>3. \A input \in Range(queue') : InputOf(input)'
    BY <1>1, <1>2 DEF InputOf, FullText
  <1>4. \A i, j \in DOMAIN queue' : i < j => Precedes(queue'[i], queue'[j])
    <2>1. queue \in Seq(Inputs) /\ DOMAIN queue' = 1..(Len(queue) - 1) /\ DOMAIN queue = 1..Len(queue)
          /\ Len(queue) \in Nat
      BY DEF QueueInv
    <2>2. \A i \in DOMAIN queue' : i + 1 \in DOMAIN queue /\ queue'[i] = queue[i + 1]
      BY <2>1
    <2>3. \A i, j \in DOMAIN queue' : i < j => i + 1 < j + 1
      BY <2>1
    <2> QED
      BY <2>2, <2>3 DEF QueueInv
  <1> QED
    BY <1>2, <1>3, <1>4 DEF QueueInv

LEMMA QueueExtended ==
    ASSUME QueueInv, NEW new \in Inputs, queue' = Append(queue, new), InputOf(new)',
           \A input \in Range(queue) : InputOf(input)' /\ Precedes(input, new)
    PROVE  QueueInv' /\ Range(queue') = Range(queue) \cup {new}
PROOF
  <1>1. queue \in Seq(Inputs)
    BY DEF QueueInv
  <1>2. queue' \in Seq(Inputs) /\ Range(queue') = Range(queue) \cup {new}
    BY <1>1, RangeOfAppend
  <1>3. \A i, j \in DOMAIN queue' : i < j => Precedes(queue'[i], queue'[j])
    <2>1. DOMAIN queue' = 1..(Len(queue) + 1) /\ DOMAIN queue = 1..Len(queue) /\ Len(queue) \in Nat
          /\ queue'[Len(queue) + 1] = new /\ \A i \in DOMAIN queue : queue'[i] = queue[i]
      BY <1>1
    <2>2. \A i \in DOMAIN queue : queue[i] \in Range(queue)
      BY DEF Range
    <2>3. SUFFICES ASSUME NEW i \in DOMAIN queue', NEW j \in DOMAIN queue', i < j
                   PROVE  Precedes(queue'[i], queue'[j])
      OBVIOUS
    <2>4. i \in DOMAIN queue /\ (j \in DOMAIN queue \/ j = Len(queue) + 1)
      BY <2>1, <2>3
    <2> QED
      BY <2>1, <2>2, <2>3, <2>4 DEF QueueInv
  <1> QED
    BY <1>2, <1>3 DEF QueueInv
LEMMA InputFields ==
    ASSUME NEW input \in Inputs
    PROVE  /\ input.type \in AboutMessage =>
                input.message \in Messages /\ input.turn \in Turns /\ input.text \in Chunks
           /\ input.type \in {"completed", "exited"} => input.turn \in Turns
           /\ input.type = "mode" => input.mode \in {"buffered", "streaming"}
           /\ input.type \in AboutMessage \cup {"completed", "exited", "mode"}
BY DEF Inputs, TextInputs, EndInputs, ModeInputs, AboutMessage

LEMMA HandFields ==
    ASSUME TaskInv
    PROVE  /\ task = Idle =>
                task.input.type = "none" /\ task.rest = {} /\ task.commands = <<>> /\ task.fallback = <<>>
           /\ task # Idle => HandInv /\ task.input \in Inputs
           /\ task.rest # {} \/ task.commands # <<>> \/ task.input.type # "none" => task # Idle
PROOF
  <1>1. task = Idle =>
            task.input.type = "none" /\ task.rest = {} /\ task.commands = <<>> /\ task.fallback = <<>>
    BY DEF Idle, Handling
  <1> QED
    BY <1>1 DEF TaskInv, HandInv

(* A message that came in its completion only was completed.               *)
LEMMA OnlyWholeIsWhole ==
    ASSUME QueueInv, TaskInv, FallbackInv, NEW m \in Messages, OnlyWhole(m)
    PROVE  m \in whole
PROOF
  <1>1. CASE \E input \in Range(queue) : Of(input, m)
    <2>1. PICK input \in Range(queue) : Of(input, m) /\ input.type = "item"
      BY <1>1 DEF OnlyWhole
    <2> QED
      BY <2>1 DEF QueueInv, InputOf, Of
  <1>2. CASE m \in task.rest /\ task.fallback = <<1>>
    <2>1. task.fallback # <<>>
      BY <1>2
    <2>2. task.input.type = "item" /\ task.input.message = m
      BY <1>2, <2>1 DEF FallbackInv
    <2>3. HandInv
      BY <1>2, HandFields
    <2> QED
      BY <2>2, <2>3 DEF HandInv
  <1> QED
    BY <1>1, <1>2 DEF OnlyWhole

-----------------------------------------------------------------------------
(* The provider.                                                           *)

Adds(new, m) ==
    \/ new.type = "delta" /\ new.text = <<said[m] + 1>> /\ said'[m] = said[m] + 1
    \/ new.type = "item" /\ said'[m] = said[m]
    \/ new.type = "item" /\ said[m] = 0 /\ said'[m] = 1 /\ new.text = <<1>>

(* What the provider sends, given what it has sent.                        *)
Fits(new) ==
    /\ new \in Inputs /\ InputOf(new)'
    /\ said' \in [Messages -> 0..MaxChunks] /\ whole' \subseteq Messages /\ whole \subseteq whole'
    /\ ended' \in [Turns -> {"no", "completed", "exited"}] /\ starts' \in 0..MaxStarts
    /\ \A t \in Turns :
        /\ ended[t] # "no" => ended'[t] = ended[t] /\ ~Ends(new, t) /\ ~Speaks(new, t)
        /\ ended'[t] = ended[t] \/ (Ends(new, t) /\ ended'[t] = new.type)
        /\ Speaks(new, t) => ~Ends(new, t)
    /\ \A m \in Messages :
        /\ ~Of(new, m) => said'[m] = said[m]
        /\ Of(new, m) => m \notin whole /\ Adds(new, m)

LEMMA EnqueuedQueue ==
    ASSUME IngestionInv, NEW new, Fits(new), Enqueue(new)
    PROVE  QueueInv' /\ Range(queue') = Range(queue) \cup {new}
PROOF
  <1>1. said \in [Messages -> 0..MaxChunks] /\ QueueInv
    BY DEF IngestionInv, TypeOK
  <1>2. ASSUME NEW input \in Range(queue)
        PROVE  InputOf(input)' /\ Precedes(input, new)
    <2>1. input \in Inputs /\ InputOf(input)
      BY <1>1, <1>2 DEF QueueInv, InputOf
    <2>2. \A m \in Messages : said[m] \in Nat /\ said'[m] \in Nat /\ said[m] <= said'[m]
      <3> TAKE m \in Messages
      <3>1. said[m] \in Nat /\ said'[m] \in Nat
        BY <1>1 DEF Fits
      <3>2. said'[m] = said[m] \/ said'[m] = said[m] + 1 \/ (said[m] = 0 /\ said'[m] = 1)
        BY DEF Fits, Adds
      <3> QED
        BY <3>1, <3>2
    <2>3. \A m \in Messages : m \in whole => said'[m] = said[m]
      BY DEF Fits
    <2>4. input.type \in AboutMessage => input.message \in Messages /\ input.turn = TurnOf[input.message]
      BY <2>1, InputFields DEF InputOf
    <2>5. input.type = "delta" =>
            input.text = <<input.text[1]>> /\ input.text[1] \in 1..said[input.message]
              /\ input.text[1] \in 1..said'[input.message]
      <3> SUFFICES ASSUME input.type = "delta"
                   PROVE  input.text = <<input.text[1]>> /\ input.text[1] \in 1..said[input.message]
                            /\ input.text[1] \in 1..said'[input.message]
        OBVIOUS
      <3>1. input.text = <<input.text[1]>> /\ input.text[1] \in 1..said[input.message]
        BY <2>1 DEF InputOf
      <3>2. input.message \in Messages
        BY <2>4 DEF AboutMessage
      <3>3. said[input.message] \in Nat /\ said'[input.message] \in Nat
                /\ said[input.message] <= said'[input.message]
        BY <2>2, <3>2
      <3> QED
        BY <3>1, <3>3
    <2>6. input.type = "item" =>
            /\ input.message \in whole'
            /\ input.text # <<>> => input.text = FullText(input.message)' /\ said'[input.message] > 0
      <3> SUFFICES ASSUME input.type = "item"
                   PROVE  /\ input.message \in whole'
                          /\ input.text # <<>> =>
                                input.text = FullText(input.message)' /\ said'[input.message] > 0
        OBVIOUS
      <3>1. input.message \in Messages /\ input.message \in whole
        BY <2>1, <2>4 DEF InputOf, AboutMessage
      <3>2. said'[input.message] = said[input.message]
        BY <2>3, <3>1
      <3>3. FullText(input.message)' = FullText(input.message)
        BY <3>2 DEF FullText
      <3> QED
        BY <2>1, <3>1, <3>2, <3>3 DEF InputOf, Fits
    <2>7. \A t \in Turns : Ends(input, t) => ended[t] = input.type /\ ended[t] # "no"
      BY <2>1 DEF InputOf, Ends
    <2>8. \A t \in Turns : Ends(input, t) => ended'[t] = input.type /\ ~Ends(new, t) /\ ~Speaks(new, t)
      BY <2>7 DEF Fits
    <2>9. InputOf(input)'
      BY <2>1, <2>4, <2>5, <2>6, <2>8 DEF InputOf
    <2>10. ASSUME NEW m \in Messages, Of(input, m), Of(new, m)
           PROVE  /\ input.type = "delta"
                  /\ new.type = "delta" => input.text[1] < new.text[1]
      <3>1. m \notin whole /\ Adds(new, m)
        BY <2>10 DEF Fits
      <3>2. input.type = "delta"
        BY <2>1, <2>10, <3>1 DEF InputOf, Of, AboutMessage
      <3>3. new.type = "delta" => new.text = <<said[m] + 1>>
        BY <3>1 DEF Adds
      <3>4. new.type = "delta" => new.text[1] = said[m] + 1
        BY <3>3
      <3>5. input.text[1] \in 1..said[m] /\ said[m] \in Nat
        BY <2>2, <2>5, <2>10, <3>2 DEF Of
      <3> QED
        BY <3>2, <3>4, <3>5
    <2> QED
      BY <2>8, <2>9, <2>10 DEF Precedes
  <1>3. new \in Inputs /\ InputOf(new)' /\ queue' = Append(queue, new)
    BY DEF Fits, Enqueue
  <1> QED
    BY <1>1, <1>2, <1>3, QueueExtended

LEMMA EnqueuedTask ==
    ASSUME IngestionInv, NEW new, Fits(new), Enqueue(new)
    PROVE  TypeOK' /\ PendingInv' /\ TaskInv' /\ FallbackInv'
PROOF
  <1> USE DEF IngestionInv
  <1>1. Range(queue') = Range(queue) \cup {new}
    BY EnqueuedQueue
  <1>2. /\ task' = task /\ message' = message /\ remembered' = remembered /\ buffer' = buffer
        /\ delivery' = delivery /\ lost' = lost /\ unfinished' = unfinished
        /\ overtaken' = overtaken /\ failures' = failures
    BY DEF Enqueue, history
  <1>3. TypeOK'
    <2>1. queue \in Seq(Inputs)
      BY DEF QueueInv
    <2>2. Len(queue') = Len(queue) + 1 /\ outstanding' = outstanding + 1 /\ Len(queue) \in Nat
      BY <2>1 DEF Enqueue
    <2>3. outstanding = Len(queue) + IF task = Idle THEN 0 ELSE 1
      BY DEF TypeOK
    <2>4. outstanding' = Len(queue') + IF task' = Idle THEN 0 ELSE 1
      BY <1>2, <2>2, <2>3
    <2>5. /\ said' \in [Messages -> 0..MaxChunks] /\ whole' \subseteq Messages
          /\ ended' \in [Turns -> {"no", "completed", "exited"}] /\ starts' \in 0..MaxStarts
      BY DEF Fits
    <2> QED
      BY <1>2, <2>4, <2>5 DEF TypeOK, Commands
  <1>4. \A t \in Turns : Pending(t) => Pending(t)'
    BY <1>1 DEF Pending
  <1>5. ASSUME NEW t \in Turns, ended'[t] = "completed"
        PROVE  ended[t] = "completed" \/ Pending(t)'
    <2>1. CASE ended'[t] = ended[t]
      BY <1>5, <2>1
    <2>2. CASE Ends(new, t) /\ ended'[t] = new.type
      <3>1. Completes(new, t)
        BY <1>5, <2>2 DEF Ends, Completes
      <3> QED
        BY <1>1, <3>1 DEF Pending
    <2> QED
      BY <2>1, <2>2 DEF Fits
  <1>6. PendingInv'
    <2> SUFFICES ASSUME NEW t \in Turns, ended'[t] = "completed",
                        NEW input \in Range(queue'), Speaks(input, t)
                 PROVE  Pending(t)'
      BY DEF PendingInv
    <2>1. CASE ended[t] = "completed"
      <3>1. input \in Range(queue)
        BY <1>1, <2>1 DEF Fits
      <3> QED
        BY <1>4, <2>1, <3>1 DEF PendingInv
    <2> QED
      BY <1>5, <2>1
  <1>7. task # Idle => HandInv'
    <2> SUFFICES ASSUME task # Idle PROVE HandInv'
      OBVIOUS
    <2>1. HandInv /\ task.input \in Inputs
      BY HandFields
    <2>2. task.input.type \in AboutMessage /\ ended'[task.input.turn] = "completed" =>
            Pending(task.input.turn)'
      <3> SUFFICES ASSUME task.input.type \in AboutMessage, ended'[task.input.turn] = "completed"
                   PROVE  Pending(task.input.turn)'
        OBVIOUS
      <3>1. task.input.turn \in Turns
        BY <2>1, InputFields
      <3>2. ended[task.input.turn] = "completed" => Pending(task.input.turn)
        BY <2>1 DEF HandInv
      <3>3. PICK t \in Turns : t = task.input.turn
        BY <3>1
      <3>4. Pending(t)'
        BY <1>4, <1>5, <3>2, <3>3
      <3> QED
        BY <1>2, <3>3, <3>4 DEF Pending
    <2>3. task.input.type = "item" => task.input.message \in whole'
      BY <2>1 DEF HandInv, Fits
    <2>4. task.input.type = "completed" =>
            /\ ended'[task.input.turn] = "completed"
            /\ \A input \in Range(queue') : ~Ends(input, task.input.turn) /\ ~Speaks(input, task.input.turn)
      <3> SUFFICES ASSUME task.input.type = "completed"
                   PROVE  /\ ended'[task.input.turn] = "completed"
                          /\ \A input \in Range(queue') :
                                ~Ends(input, task.input.turn) /\ ~Speaks(input, task.input.turn)
        OBVIOUS
      <3>1. task.input.turn \in Turns
        BY <2>1, InputFields
      <3>2. ended[task.input.turn] = "completed"
        BY <2>1 DEF HandInv
      <3>3. ended'[task.input.turn] = "completed" /\ ~Ends(new, task.input.turn)
                /\ ~Speaks(new, task.input.turn)
        BY <3>1, <3>2 DEF Fits
      <3> QED
        BY <1>1, <2>1, <3>3 DEF HandInv
    <2> QED
      BY <1>2, <2>1, <2>2, <2>3, <2>4 DEF HandInv
  <1>8. TaskInv'
    BY <1>2, <1>7 DEF TaskInv, CommandsInv, CompletionOf
  <1>9. FallbackInv'
    <2> SUFFICES ASSUME NEW m \in task.rest, task.fallback # <<>>
                 PROVE  /\ task.input.type = "item" /\ task.input.message = m
                        /\ task.fallback = FullText(m)' /\ said'[m] > 0
                        /\ message[m].text = <<>> /\ task.commands = <<>>
                        /\ \A input \in Range(queue') : ~Of(input, m)
      BY <1>2 DEF FallbackInv
    <2>1. /\ task.input.type = "item" /\ task.input.message = m
          /\ task.fallback = FullText(m) /\ said[m] > 0
          /\ message[m].text = <<>> /\ task.commands = <<>>
          /\ \A input \in Range(queue) : ~Of(input, m)
      BY DEF FallbackInv
    <2>2. m \in Messages /\ m \in whole
      <3>1. HandInv
        BY HandFields
      <3> QED
        BY <2>1, <3>1 DEF HandInv, TypeOK
    <2>3. said'[m] = said[m] /\ ~Of(new, m)
      BY <2>2 DEF Fits
    <2>4. FullText(m)' = FullText(m)
      BY <2>3 DEF FullText
    <2> QED
      BY <1>1, <2>1, <2>3, <2>4
  <1> QED
    BY <1>3, <1>6, <1>8, <1>9
LEMMA EnqueuedText ==
    ASSUME IngestionInv, NEW new, Fits(new), Enqueue(new)
    PROVE  TextInv'
PROOF
  <1> USE DEF IngestionInv
  <1> SUFFICES ASSUME NEW m \in Messages PROVE TextOf(m)'
    BY DEF TextInv
  <1>1. Range(queue') = Range(queue) \cup {new}
    BY EnqueuedQueue
  <1>2. task' = task /\ message' = message /\ buffer' = buffer /\ lost' = lost /\ overtaken' = overtaken
    BY DEF Enqueue, history
  <1>3. TextOf(m)
    BY DEF TextInv
  <1>4. Content(m)' = Content(m) /\ InHand(m)' = InHand(m)
    BY <1>2 DEF Content, InHand
  <1>5. \A k : InDelta(k, m) => InDelta(k, m)'
    BY <1>1 DEF InDelta
  <1>6. said[m] \in Nat
    BY DEF TypeOK
  <1>7. Once(message[m].text, InHand(m), buffer[m])'
    BY <1>2, <1>3, <1>4 DEF TextOf
  <1>8. m \notin overtaken' => InOrder(message[m].text, InHand(m), buffer[m])'
    BY <1>2, <1>3, <1>4 DEF TextOf
  <1>9. Content(m) \subseteq 1..said[m]
    BY <1>3 DEF TextOf
  <1>10. \A input \in Range(queue) : DeltaOf(input, m) => \A x \in Content(m) : x < input.text[1]
    BY <1>3 DEF TextOf
  <1>11. CASE ~Of(new, m)
    <2>1. said'[m] = said[m] /\ ~DeltaOf(new, m)
      BY <1>11 DEF Fits, DeltaOf, Of, AboutMessage
    <2>2. OnlyWhole(m) => OnlyWhole(m)'
      BY <1>1, <1>2, <1>4, <1>11, <2>1 DEF OnlyWhole
    <2>3. m \notin lost => OnlyWhole(m) \/ \A k \in 1..said[m] : k \in Content(m) \/ InDelta(k, m)
      BY <1>3 DEF TextOf
    <2>4. m \notin lost' =>
            OnlyWhole(m)' \/ \A k \in 1..said'[m] : k \in Content(m)' \/ InDelta(k, m)'
      BY <1>2, <1>4, <1>5, <2>1, <2>2, <2>3
    <2>5. \A input \in Range(queue') : DeltaOf(input, m) => \A x \in Content(m)' : x < input.text[1]
      BY <1>1, <1>4, <1>10, <2>1
    <2> QED
      BY <1>4, <1>7, <1>8, <1>9, <2>1, <2>4, <2>5 DEF TextOf
  <1>12. CASE Of(new, m)
    <2>1. m \notin whole /\ Adds(new, m)
      BY <1>12 DEF Fits
    <2>2. m \notin lost => \A k \in 1..said[m] : k \in Content(m) \/ InDelta(k, m)
      BY <1>3, <2>1, OnlyWholeIsWhole DEF TextOf
    <2>3. CASE new.type = "delta" /\ new.text = <<said[m] + 1>> /\ said'[m] = said[m] + 1
      <3>1. DeltaOf(new, m) /\ new.text[1] = said[m] + 1
        BY <1>12, <2>3 DEF DeltaOf, Of
      <3>2. Content(m)' \subseteq 1..said'[m]
        BY <1>4, <1>6, <1>9, <2>3
      <3>3. \A input \in Range(queue') : DeltaOf(input, m) => \A x \in Content(m)' : x < input.text[1]
        BY <1>1, <1>4, <1>6, <1>9, <1>10, <3>1
      <3>5. m \notin lost' => \A k \in 1..said'[m] : k \in Content(m)' \/ InDelta(k, m)'
        <4> SUFFICES ASSUME m \notin lost', NEW k \in 1..said'[m]
                     PROVE  k \in Content(m)' \/ InDelta(k, m)'
          OBVIOUS
        <4>1. k \in 1..said[m] \/ k = said[m] + 1
          BY <1>6, <2>3
        <4>2. CASE k = said[m] + 1
          <5>1. \E input \in Range(queue') : DeltaOf(input, m) /\ input.text = <<k>>
            BY <1>1, <2>3, <3>1, <4>2
          <5> QED
            BY <5>1 DEF InDelta
        <4> QED
          BY <1>2, <1>4, <1>5, <2>2, <4>1, <4>2
      <3> QED
        BY <1>7, <1>8, <3>2, <3>3, <3>5 DEF TextOf
    <2>4. CASE new.type = "item" /\ said'[m] = said[m]
      <3>1. \A input \in Range(queue') : DeltaOf(input, m) => \A x \in Content(m)' : x < input.text[1]
        BY <1>1, <1>4, <1>10, <2>4 DEF DeltaOf
      <3>2. m \notin lost' => \A k \in 1..said'[m] : k \in Content(m)' \/ InDelta(k, m)'
        BY <1>2, <1>4, <1>5, <2>2, <2>4
      <3> QED
        BY <1>4, <1>7, <1>8, <1>9, <2>4, <3>1, <3>2 DEF TextOf
    <2>5. CASE new.type = "item" /\ said[m] = 0 /\ said'[m] = 1 /\ new.text = <<1>>
      <3>1. Content(m)' = {}
        BY <1>4, <1>9, <2>5
      <3>2. \A input \in Range(queue) : Of(input, m) => FALSE
        <4> SUFFICES ASSUME NEW input \in Range(queue), Of(input, m) PROVE FALSE
          OBVIOUS
        <4>1. InputOf(input)
          BY DEF QueueInv
        <4>2. input.type = "delta"
          BY <2>1, <4>1 DEF InputOf, Of, AboutMessage
        <4>3. input.text[1] \in 1..said[m]
          BY <4>1, <4>2 DEF InputOf, Of
        <4> QED
          BY <2>5, <4>3
      <3>3. OnlyWhole(m)'
        BY <1>1, <1>12, <2>5, <3>1, <3>2 DEF OnlyWhole
      <3> QED
        BY <1>7, <1>8, <3>1, <3>3 DEF TextOf
    <2> QED
      BY <2>1, <2>3, <2>4, <2>5 DEF Adds
  <1> QED
    BY <1>11, <1>12

LEMMA EnqueuedState ==
    ASSUME IngestionInv, NEW new, Fits(new), Enqueue(new)
    PROVE  StateInv'
PROOF
  <1> USE DEF IngestionInv
  <1> SUFFICES ASSUME NEW m \in Messages PROVE StateOf(m)'
    BY DEF StateInv
  <1>1. Range(queue') = Range(queue) \cup {new}
    BY EnqueuedQueue
  <1>2. /\ task' = task /\ message' = message /\ buffer' = buffer /\ unfinished' = unfinished
        /\ remembered' = remembered
    BY DEF Enqueue, history
  <1>3. StateOf(m)
    BY DEF StateInv
  <1>4. Completing(m)' = Completing(m)
    BY <1>2 DEF Completing
  <1>5. Covered(m) => Covered(m)'
    BY <1>1, <1>2 DEF Covered
  <1> DEFINE t == TurnOf[m]
  <1>6. t \in Turns
    BY MessageAssumption
  <1>7. Pending(t) => Pending(t)'
    BY <1>1 DEF Pending
  <1>8. /\ ended[t] # "no" => ended'[t] = ended[t] /\ ~Ends(new, t) /\ ~Speaks(new, t)
        /\ ended'[t] = ended[t] \/ (Ends(new, t) /\ ended'[t] = new.type)
        /\ Speaks(new, t) => ~Ends(new, t)
    BY <1>6 DEF Fits
  <1>9. /\ Tidy(m) \/ Covered(m) \/ m \in unfinished \/ ended[t] = "exited"
        /\ ended[t] = "completed" =>
            Tidy(m) \/ m \in unfinished \/ Pending(t) \/ Completes(task.input, t)
        /\ Completes(task.input, t) => Tidy(m) \/ Completing(m) \/ m \in unfinished
        /\ task.input.type = "item" /\ task.input.message = m => Tidy(m) \/ Completing(m)
    BY <1>3 DEF StateOf
  <1> HIDE DEF t
  <1>10. ended'[t] = "completed" => ended[t] = "completed" \/ Pending(t)'
    <2> SUFFICES ASSUME ended'[t] = "completed", ended[t] # "completed" PROVE Pending(t)'
      OBVIOUS
    <2>1. Completes(new, t)
      BY <1>8 DEF Ends, Completes
    <2> QED
      BY <1>1, <2>1 DEF Pending
  <1>11. CASE ~Of(new, m)
    <2>1. Tidy(m)' = Tidy(m)
      <3>1. said'[m] = said[m]
        BY <1>11 DEF Fits
      <3> QED
        BY <1>2, <3>1 DEF Tidy
    <2>2. /\ Tidy(m)' \/ Covered(m)' \/ m \in unfinished' \/ ended'[t] = "exited"
          /\ ended'[t] = "completed" =>
            Tidy(m)' \/ m \in unfinished' \/ Pending(t)' \/ Completes(task'.input, t)
          /\ Completes(task'.input, t) => Tidy(m)' \/ Completing(m)' \/ m \in unfinished'
          /\ task'.input.type = "item" /\ task'.input.message = m => Tidy(m)' \/ Completing(m)'
      BY <1>2, <1>4, <1>5, <1>7, <1>8, <1>9, <1>10, <2>1
    <2> QED
      BY <2>2 DEF StateOf, t
  <1>12. CASE Of(new, m)
    <2>1. Speaks(new, t)
      BY <1>12 DEF Fits, InputOf, Of, Speaks, t
    <2>2. ended[t] = "no" /\ ended'[t] = "no"
      BY <1>8, <2>1
    <2>3. Covered(m)'
      BY <1>1, <1>12 DEF Covered
    <2>4. ~Completes(task.input, t)
      <3>1. SUFFICES ASSUME Completes(task.input, t) PROVE FALSE
        OBVIOUS
      <3>2. HandInv
        BY <3>1, HandFields DEF Completes
      <3> QED
        BY <2>2, <3>1, <3>2 DEF HandInv, Completes
    <2>5. ~(task.input.type = "item" /\ task.input.message = m)
      <3>1. SUFFICES ASSUME task.input.type = "item", task.input.message = m PROVE FALSE
        OBVIOUS
      <3>2. HandInv
        BY <3>1, HandFields
      <3> QED
        BY <1>12, <3>1, <3>2 DEF HandInv, Fits
    <2>6. /\ Tidy(m)' \/ Covered(m)' \/ m \in unfinished' \/ ended'[t] = "exited"
          /\ ended'[t] = "completed" =>
            Tidy(m)' \/ m \in unfinished' \/ Pending(t)' \/ Completes(task'.input, t)
          /\ Completes(task'.input, t) => Tidy(m)' \/ Completing(m)' \/ m \in unfinished'
          /\ task'.input.type = "item" /\ task'.input.message = m => Tidy(m)' \/ Completing(m)'
      BY <1>2, <1>9, <2>2, <2>3, <2>4, <2>5
    <2> QED
      BY <2>6 DEF StateOf, t
  <1> QED
    BY <1>11, <1>12

LEMMA Enqueued ==
    ASSUME IngestionInv, NEW new, Fits(new), Enqueue(new)
    PROVE  IngestionInv'
BY EnqueuedQueue, EnqueuedTask, EnqueuedText, EnqueuedState DEF IngestionInv
LEMMA SayFits ==
    ASSUME IngestionInv, NEW m \in Messages, Say(m)
    PROVE  IngestionInv'
PROOF
  <1>1. PICK k : k = said[m] + 1
    OBVIOUS
  <1>2. PICK new : new = Input("delta", m, TurnOf[m], <<k>>)
    OBVIOUS
  <1>3. /\ said \in [Messages -> 0..MaxChunks] /\ whole \subseteq Messages
        /\ ended \in [Turns -> {"no", "completed", "exited"}] /\ starts \in 0..MaxStarts
    BY DEF IngestionInv, TypeOK
  <1>4. k \in 1..MaxChunks /\ <<k>> \in Chunks
    <2>1. said[m] \in Nat /\ said[m] < MaxChunks /\ MaxChunks \in Nat
      BY <1>3, MessageAssumption DEF Say
    <2>2. k \in 1..MaxChunks
      BY <1>1, <2>1
    <2> QED
      BY <2>2 DEF Chunks
  <1>5. /\ new.type = "delta" /\ new.message = m /\ new.turn = TurnOf[m] /\ new.text = <<k>>
        /\ new.text[1] = k /\ TurnOf[m] \in Turns
    BY <1>2, MessageAssumption DEF Input
  <1>6. new \in Inputs
    BY <1>2, <1>4, <1>5 DEF Input, Inputs, TextInputs, AboutMessage
  <1>7. /\ said' = [said EXCEPT ![m] = k] /\ whole' = whole /\ ended' = ended /\ starts' = starts
        /\ m \notin whole /\ ended[TurnOf[m]] = "no"
    BY <1>1 DEF Say
  <1>8. said' \in [Messages -> 0..MaxChunks] /\ said'[m] = k /\ \A n \in Messages \ {m} : said'[n] = said[n]
    BY <1>3, <1>4, <1>7
  <1>9. InputOf(new)'
    BY <1>4, <1>5, <1>6, <1>8 DEF InputOf, Ends, AboutMessage
  <1>10. \A n \in Messages :
            /\ ~Of(new, n) => said'[n] = said[n]
            /\ Of(new, n) => n \notin whole /\ Adds(new, n)
    BY <1>1, <1>5, <1>7, <1>8 DEF Of, Adds, AboutMessage
  <1>11. \A t \in Turns :
            /\ ended[t] # "no" => ended'[t] = ended[t] /\ ~Ends(new, t) /\ ~Speaks(new, t)
            /\ ended'[t] = ended[t] \/ (Ends(new, t) /\ ended'[t] = new.type)
            /\ Speaks(new, t) => ~Ends(new, t)
    BY <1>5, <1>7 DEF Ends, Speaks, AboutMessage
  <1>12. Fits(new)
    BY <1>3, <1>6, <1>7, <1>8, <1>9, <1>10, <1>11 DEF Fits
  <1>13. Enqueue(new)
    BY <1>1, <1>2 DEF Say
  <1> QED
    BY <1>12, <1>13, Enqueued

LEMMA FinishFits ==
    ASSUME IngestionInv, NEW m \in Messages, NEW text \in {<<>>, FullText(m)}, Finish(m, text)
    PROVE  IngestionInv'
PROOF
  <1>1. PICK new : new = Input("item", m, TurnOf[m], text)
    OBVIOUS
  <1>2. /\ said \in [Messages -> 0..MaxChunks] /\ whole \subseteq Messages
        /\ ended \in [Turns -> {"no", "completed", "exited"}] /\ starts \in 0..MaxStarts
        /\ said[m] \in Nat /\ MaxChunks \in Nat \ {0}
    BY MessageAssumption DEF IngestionInv, TypeOK
  <1>3. /\ said' = [said EXCEPT ![m] = IF text = <<>> THEN @ ELSE Len(text)]
        /\ whole' = whole \cup {m} /\ ended' = ended /\ starts' = starts
        /\ m \notin whole /\ ended[TurnOf[m]] = "no"
    BY DEF Finish
  <1>4. /\ text \in Chunks
        /\ \/ text = <<>> /\ said'[m] = said[m]
           \/ /\ text = FullText(m)' /\ said'[m] > 0
              /\ said'[m] = said[m] \/ (said[m] = 0 /\ said'[m] = 1 /\ text = <<1>>)
        /\ said'[m] \in 0..MaxChunks
    <2>1. CASE text = <<>>
      <3>1. text \in Chunks
        BY <2>1 DEF Chunks
      <3> QED
        BY <1>2, <1>3, <2>1, <3>1
    <2>2. CASE text = FullText(m) /\ said[m] = 0
      <3>1. FullText(m) = [i \in 1..1 |-> i]
        BY <2>2 DEF FullText
      <3>2. text = <<1>> /\ Len(text) = 1 /\ text # <<>>
        BY <2>2, <3>1
      <3>3. said'[m] = 1
        BY <1>2, <1>3, <3>2
      <3>4. FullText(m)' = [i \in 1..1 |-> i]
        BY <3>3 DEF FullText
      <3>5. 1 \in 1..MaxChunks
        BY <1>2
      <3>6. text \in Chunks
        BY <3>2, <3>5 DEF Chunks
      <3> QED
        BY <1>2, <2>2, <3>1, <3>2, <3>3, <3>4, <3>6
    <2>3. CASE text = FullText(m) /\ said[m] # 0
      <3>1. FullText(m) \in Seq(1..said[m]) /\ FullText(m) # <<>> /\ Len(FullText(m)) = said[m]
        BY <1>2, <2>3, FullTextFields
      <3>2. said'[m] = said[m]
        BY <1>2, <1>3, <2>3, <3>1
      <3>3. FullText(m)' = FullText(m)
        BY <3>2 DEF FullText
      <3>4. 1..said[m] \subseteq 1..MaxChunks
        BY <1>2
      <3>5. text \in Chunks
        BY <2>3, <3>1, <3>4, SequenceElements DEF Chunks
      <3> QED
        BY <1>2, <2>3, <3>2, <3>3, <3>5
    <2> QED
      BY <2>1, <2>2, <2>3
  <1>5. /\ new.type = "item" /\ new.message = m /\ new.turn = TurnOf[m] /\ new.text = text
        /\ TurnOf[m] \in Turns
    BY <1>1, MessageAssumption DEF Input
  <1>6. new \in Inputs
    BY <1>1, <1>4, <1>5 DEF Input, Inputs, TextInputs, AboutMessage
  <1>7. said' \in [Messages -> 0..MaxChunks] /\ \A n \in Messages \ {m} : said'[n] = said[n]
    BY <1>2, <1>3, <1>4
  <1>8. m \in whole' /\ (text # <<>> => text = FullText(m)' /\ said'[m] > 0)
    BY <1>3, <1>4
  <1>9. InputOf(new)'
    <2>1. new.message = m /\ FullText(new.message)' = FullText(m)'
      BY <1>5 DEF FullText
    <2> QED
      BY <1>5, <1>6, <1>8, <2>1 DEF InputOf, Ends, AboutMessage
  <1>10. Adds(new, m)
    BY <1>4, <1>5 DEF Adds
  <1>11. \A n \in Messages :
            /\ ~Of(new, n) => said'[n] = said[n]
            /\ Of(new, n) => n \notin whole /\ Adds(new, n)
    BY <1>3, <1>5, <1>7, <1>10 DEF Of, AboutMessage
  <1>12. \A t \in Turns :
            /\ ended[t] # "no" => ended'[t] = ended[t] /\ ~Ends(new, t) /\ ~Speaks(new, t)
            /\ ended'[t] = ended[t] \/ (Ends(new, t) /\ ended'[t] = new.type)
            /\ Speaks(new, t) => ~Ends(new, t)
    BY <1>3, <1>5 DEF Ends, Speaks, AboutMessage
  <1>13. Fits(new)
    BY <1>2, <1>3, <1>6, <1>7, <1>9, <1>11, <1>12 DEF Fits
  <1>14. Enqueue(new)
    BY <1>1 DEF Finish
  <1> QED
    BY <1>13, <1>14, Enqueued

LEMMA EndTurnFits ==
    ASSUME IngestionInv, NEW t \in Turns, NEW how \in {"completed", "exited"}, EndTurn(t, how)
    PROVE  IngestionInv'
PROOF
  <1>1. PICK new : new = Input(how, NoMessage, t, <<>>)
    OBVIOUS
  <1>2. /\ said \in [Messages -> 0..MaxChunks] /\ whole \subseteq Messages
        /\ ended \in [Turns -> {"no", "completed", "exited"}] /\ starts \in 0..MaxStarts
    BY DEF IngestionInv, TypeOK
  <1>3. new.type = how /\ new.turn = t /\ how \notin AboutMessage
    BY <1>1 DEF Input, AboutMessage
  <1>4. new \in Inputs
    BY <1>1 DEF Input, Inputs, EndInputs
  <1>5. /\ said' = said /\ whole' = whole /\ starts' = starts /\ ended[t] = "no"
        /\ ended' = [ended EXCEPT ![t] = how]
    BY DEF EndTurn
  <1>6. ended' \in [Turns -> {"no", "completed", "exited"}] /\ ended'[t] = how
        /\ \A u \in Turns \ {t} : ended'[u] = ended[u]
    BY <1>2, <1>5
  <1>7. InputOf(new)'
    BY <1>3, <1>4, <1>6 DEF InputOf, Ends, AboutMessage
  <1>8. \A n \in Messages : ~Of(new, n) /\ said'[n] = said[n]
    BY <1>3, <1>5 DEF Of
  <1>9. \A u \in Turns :
            /\ ended[u] # "no" => ended'[u] = ended[u] /\ ~Ends(new, u) /\ ~Speaks(new, u)
            /\ ended'[u] = ended[u] \/ (Ends(new, u) /\ ended'[u] = new.type)
            /\ Speaks(new, u) => ~Ends(new, u)
    BY <1>3, <1>5, <1>6 DEF Ends, Speaks
  <1>10. Fits(new)
    BY <1>2, <1>4, <1>5, <1>6, <1>7, <1>8, <1>9 DEF Fits
  <1>11. Enqueue(new)
    BY <1>1 DEF EndTurn
  <1> QED
    BY <1>10, <1>11, Enqueued

LEMMA StartTurnFits ==
    ASSUME IngestionInv, NEW mode \in {"buffered", "streaming"}, StartTurn(mode)
    PROVE  IngestionInv'
PROOF
  <1>1. PICK new : new = [type |-> "mode", mode |-> mode]
    OBVIOUS
  <1>2. /\ said \in [Messages -> 0..MaxChunks] /\ whole \subseteq Messages
        /\ ended \in [Turns -> {"no", "completed", "exited"}] /\ starts \in 0..MaxStarts
        /\ MaxStarts \in Nat
    BY MessageAssumption DEF IngestionInv, TypeOK
  <1>3. new.type = "mode"
    BY <1>1
  <1>4. new \in Inputs
    BY <1>1 DEF Inputs, ModeInputs
  <1>5. said' = said /\ whole' = whole /\ ended' = ended /\ starts' \in 0..MaxStarts
    BY <1>2 DEF StartTurn, provider
  <1>6. InputOf(new)'
    BY <1>3, <1>4 DEF InputOf, Ends, AboutMessage
  <1>7. \A n \in Messages : ~Of(new, n) /\ said'[n] = said[n]
    BY <1>3, <1>5 DEF Of, AboutMessage
  <1>8. \A u \in Turns : ~Ends(new, u) /\ ~Speaks(new, u) /\ ended'[u] = ended[u]
    BY <1>3, <1>5 DEF Ends, Speaks, AboutMessage
  <1>9. Fits(new)
    BY <1>2, <1>4, <1>5, <1>6, <1>7, <1>8 DEF Fits
  <1>10. Enqueue(new)
    BY <1>1 DEF StartTurn
  <1> QED
    BY <1>9, <1>10, Enqueued
-----------------------------------------------------------------------------
(* The worker takes an input.                                              *)

LEMMA InitialIngestion == Init => IngestionInv
PROOF
  <1> SUFFICES ASSUME Init PROVE IngestionInv
    OBVIOUS
  <1>1. /\ said = [m \in Messages |-> 0] /\ whole = {} /\ ended = [t \in Turns |-> "no"]
        /\ queue = <<>> /\ outstanding = 0 /\ task = Idle /\ delivery = "buffered"
        /\ remembered = [t \in Turns |-> {}] /\ buffer = [m \in Messages |-> <<>>]
        /\ message = [m \in Messages |-> NoMessage]
        /\ lost = {} /\ unfinished = {} /\ overtaken = {} /\ starts = 0 /\ failures = 0
    BY DEF Init
  <1>2. task.rest = {} /\ task.commands = <<>> /\ task.fallback = <<>> /\ task.input.type = "none"
    BY <1>1 DEF Idle, Handling
  <1>3. <<>> \in Chunks /\ <<>> \in Seq(Commands) /\ <<>> \in Seq(Inputs) /\ Len(<<>>) = 0
        /\ DOMAIN <<>> = {} /\ Range(<<>>) = {}
    BY RangeOfEmpty DEF Chunks
  <1>4. \A m \in Messages : message[m].text = <<>> /\ message[m].state = "absent" /\ buffer[m] = <<>>
            /\ said[m] = 0
    BY <1>1 DEF NoMessage
  <1>5. TypeOK
    <2>1. NoMessage \in [text : Chunks, state : {"absent", "streaming", "done"}]
      BY <1>3 DEF NoMessage
    <2>2. /\ said \in [Messages -> 0..MaxChunks] /\ whole \subseteq Messages
          /\ ended \in [Turns -> {"no", "completed", "exited"}]
          /\ message \in [Messages -> [text : Chunks, state : {"absent", "streaming", "done"}]]
          /\ starts \in 0..MaxStarts /\ failures \in 0..MaxFailures
      BY <1>1, <2>1, MessageAssumption
    <2>3. outstanding = Len(queue) + IF task = Idle THEN 0 ELSE 1
      BY <1>1, <1>3
    <2>4. buffer \in [Messages -> Chunks] /\ \A m \in Messages : Len(buffer[m]) <= MaxBuffered
      BY <1>1, <1>3, MessageAssumption
    <2>5. /\ remembered \in [Turns -> SUBSET Messages]
          /\ \A t \in Turns : remembered[t] \subseteq MessagesOf(t)
      BY <1>1
    <2> QED
      BY <1>1, <1>2, <1>3, <2>2, <2>3, <2>4, <2>5 DEF TypeOK
  <1>6. QueueInv /\ PendingInv
    BY <1>1, <1>3 DEF QueueInv, PendingInv
  <1>7. TaskInv /\ FallbackInv
    BY <1>1, <1>2, <1>3 DEF TaskInv, FallbackInv, CommandsInv, Idle, Handling
  <1>8. TextInv
    <2> SUFFICES ASSUME NEW m \in Messages PROVE TextOf(m)
      BY DEF TextInv
    <2>1. InHand(m) = <<>> /\ message[m].text = <<>> /\ buffer[m] = <<>> /\ said[m] = 0
      BY <1>2, <1>4 DEF InHand
    <2>2. Content(m) = {}
      BY <1>3, <2>1 DEF Content
    <2> QED
      BY <1>1, <1>3, <2>1, <2>2, EmptyParts DEF TextOf
  <1>9. StateInv
    <2> SUFFICES ASSUME NEW m \in Messages PROVE StateOf(m)
      BY DEF StateInv
    <2>1. Tidy(m)
      BY <1>4 DEF Tidy
    <2> QED
      BY <2>1 DEF StateOf
  <1> QED
    BY <1>5, <1>6, <1>7, <1>8, <1>9 DEF IngestionInv

CachesOK ==
    /\ delivery' \in {"buffered", "streaming"}
    /\ remembered' \in [Turns -> SUBSET Messages]
    /\ \A t \in Turns : remembered'[t] \subseteq MessagesOf(t)
    /\ buffer' \in [Messages -> Chunks] /\ \A m \in Messages : Len(buffer'[m]) <= MaxBuffered
    /\ lost' \subseteq Messages /\ unfinished' \subseteq Messages /\ overtaken' \subseteq Messages

(* What an input of each type may leave to do.                             *)
Fitting(input, messages, fallback, commands) ==
    /\ messages \subseteq Messages /\ fallback \in Chunks /\ commands \in Seq(Commands)
    /\ \A i \in DOMAIN commands :
        /\ i > 1 => commands[i].text = <<>>
        /\ commands[i].do = "delta" /\ commands[i].message = input.message
    /\ commands # <<>> => input.type = "delta"
    /\ input.type \in AboutMessage =>
        messages \subseteq {input.message} /\ input.message \in remembered'[input.turn]
    /\ input.type = "completed" => messages \subseteq remembered'[input.turn]
    /\ input.type \notin AboutMessage \cup {"completed"} => messages = {}

LEMMA TaskTaken ==
    ASSUME NEW input, NEW messages, NEW fallback, NEW commands,
           task' = Handling(input, messages, fallback, commands)
    PROVE  /\ task'.input = input /\ task'.rest = messages
           /\ task'.fallback = fallback /\ task'.commands = commands
           /\ task' = Handling(task'.input, task'.rest, task'.fallback, task'.commands)
BY DEF Handling

LEMMA TailPending ==
    ASSUME QueueInv, PendingInv, queue # <<>>, queue' = Tail(queue), ended' = ended
    PROVE  PendingInv'
PROOF
  <1> SUFFICES ASSUME NEW t \in Turns, ended'[t] = "completed",
                      NEW input \in Range(queue'), Speaks(input, t)
               PROVE  Pending(t)'
    BY DEF PendingInv
  <1>1. Range(queue) = {Head(queue)} \cup Range(queue') /\ Precedes(Head(queue), input)
    BY QueueHead
  <1>2. Pending(t)
    BY <1>1 DEF PendingInv
  <1>3. ~Completes(Head(queue), t)
    BY <1>1 DEF Precedes, Completes, Ends
  <1> QED
    BY <1>1, <1>2, <1>3 DEF Pending

LEMMA Begun ==
    ASSUME IngestionInv, task = Idle, queue # <<>>, CachesOK,
           NEW messages, NEW fallback, NEW commands,
           Fitting(Head(queue), messages, fallback, commands),
           Begin(Head(queue), messages, fallback, commands)
    PROVE  TypeOK' /\ QueueInv' /\ PendingInv' /\ TaskInv'
PROOF
  <1> USE DEF IngestionInv
  <1>1. PICK first : first = Head(queue)
    OBVIOUS
  <1>2. /\ first \in Inputs /\ InputOf(first) /\ Len(queue') = Len(queue) - 1 /\ Len(queue) \in Nat
        /\ Range(queue) = {first} \cup Range(queue')
        /\ \A input \in Range(queue') : Precedes(first, input) /\ InputOf(input)
    BY <1>1, QueueHead DEF Begin
  <1>3. /\ said' = said /\ whole' = whole /\ ended' = ended /\ message' = message
        /\ outstanding' = outstanding /\ starts' = starts /\ failures' = failures
        /\ queue' = Tail(queue) /\ task' = Handling(first, messages, fallback, commands)
    BY <1>1 DEF Begin, provider
  <1>4. QueueInv'
    BY <1>3, QueueTaken DEF provider
  <1>5. PendingInv'
    BY <1>3, TailPending
  <1>6. /\ task'.input = first /\ task'.rest = messages
        /\ task'.fallback = fallback /\ task'.commands = commands
        /\ task' = Handling(task'.input, task'.rest, task'.fallback, task'.commands)
    BY <1>3, TaskTaken
  <1>7. first.type \in AboutMessage \cup {"completed", "exited", "mode"}
    BY <1>2, InputFields
  <1>8. task' # Idle
    BY <1>6, <1>7 DEF Idle, Handling, AboutMessage
  <1>9. TypeOK'
    <2>1. outstanding' = Len(queue') + IF task' = Idle THEN 0 ELSE 1
      BY <1>2, <1>3, <1>8 DEF TypeOK
    <2>2. /\ task'.rest \subseteq Messages /\ task'.fallback \in Chunks /\ task'.commands \in Seq(Commands)
          /\ \A i \in DOMAIN task'.commands : i > 1 => task'.commands[i].text = <<>>
      BY <1>1, <1>6 DEF Fitting
    <2> QED
      BY <1>3, <2>1, <2>2 DEF TypeOK, CachesOK, Commands, Chunks
  <1>10. CommandsInv'
    BY <1>1, <1>6 DEF CommandsInv, Fitting
  <1>11. HandInv'
    <2>1. first.type \in AboutMessage =>
            /\ first.turn = TurnOf[first.message] /\ messages \subseteq {first.message}
            /\ first.message \in remembered'[first.turn]
            /\ \A i \in DOMAIN commands : commands[i].message = first.message
      BY <1>1, <1>2 DEF Fitting, InputOf
    <2>2. first.type \in AboutMessage /\ ended'[first.turn] = "completed" =>
            \E input \in Range(queue') : Completes(input, first.turn)
      <3> SUFFICES ASSUME first.type \in AboutMessage, ended'[first.turn] = "completed"
                   PROVE  \E input \in Range(queue') : Completes(input, first.turn)
        OBVIOUS
      <3>1. first.turn \in Turns /\ Speaks(first, first.turn)
        BY <1>2, InputFields DEF Speaks
      <3>2. Pending(first.turn)
        BY <1>2, <1>3, <3>1 DEF PendingInv
      <3>3. ~Completes(first, first.turn)
        BY DEF Completes, AboutMessage
      <3> QED
        BY <1>2, <3>2, <3>3 DEF Pending
    <2>3. first.type = "item" => first.message \in whole'
      BY <1>2, <1>3 DEF InputOf
    <2>4. first.type = "completed" =>
            /\ ended'[first.turn] = "completed"
            /\ messages \subseteq remembered'[first.turn] /\ commands = <<>>
            /\ \A input \in Range(queue') : ~Ends(input, first.turn) /\ ~Speaks(input, first.turn)
      <3> SUFFICES ASSUME first.type = "completed"
                   PROVE  /\ ended'[first.turn] = "completed"
                          /\ messages \subseteq remembered'[first.turn] /\ commands = <<>>
                          /\ \A input \in Range(queue') :
                                ~Ends(input, first.turn) /\ ~Speaks(input, first.turn)
        OBVIOUS
      <3>1. first.turn \in Turns /\ Ends(first, first.turn)
        BY <1>2, InputFields DEF Ends
      <3>2. ended'[first.turn] = "completed"
        BY <1>2, <1>3, <3>1 DEF InputOf
      <3> QED
        BY <1>1, <1>2, <3>1, <3>2 DEF Fitting, Precedes
    <2>5. first.type \notin AboutMessage \cup {"completed"} => messages = {} /\ commands = <<>>
      BY <1>1 DEF Fitting, AboutMessage
    <2>6. commands = <<>> => \A i \in DOMAIN commands : FALSE
      OBVIOUS
    <2> QED
      BY <1>2, <1>6, <2>1, <2>2, <2>3, <2>4, <2>5, <2>6 DEF HandInv, Pending
  <1>12. TaskInv'
    BY <1>6, <1>10, <1>11 DEF TaskInv
  <1> QED
    BY <1>4, <1>5, <1>9, <1>12

(* A step that moves no text of a message, or loses it.                    *)
Keeps(m) ==
    /\ said'[m] = said[m] /\ message'[m].text = message[m].text
    /\ InHand(m)' \in {InHand(m), <<>>} /\ buffer'[m] \in {buffer[m], <<>>}
    /\ m \in overtaken => m \in overtaken'
    /\ \A input : Of(input, m) => (input \in Range(queue') <=> input \in Range(queue))
    /\ m \notin lost' =>
        /\ m \notin lost /\ InHand(m)' = InHand(m) /\ buffer'[m] = buffer[m]
        /\ m \in task.rest /\ task.fallback = <<1>> => m \in task'.rest /\ task'.fallback = <<1>>

LEMMA TextKept ==
    ASSUME NEW m, TextOf(m), Keeps(m)
    PROVE  TextOf(m)'
PROOF
  <1>1. PICK a, b, c, bn, cn :
            /\ a = message[m].text /\ b = InHand(m) /\ c = buffer[m]
            /\ bn = InHand(m)' /\ cn = buffer'[m]
    OBVIOUS
  <1>2. Once(a, b, c) /\ (m \notin overtaken => InOrder(a, b, c))
    BY <1>1 DEF TextOf
  <1>3. bn \in {b, <<>>} /\ cn \in {c, <<>>} /\ message'[m].text = a
    BY <1>1 DEF Keeps
  <1>4. /\ Once(a, b, <<>>) /\ Once(a, <<>>, c) /\ Once(a, <<>>, <<>>)
        /\ InOrder(a, b, c) => InOrder(a, b, <<>>) /\ InOrder(a, <<>>, c) /\ InOrder(a, <<>>, <<>>)
    BY <1>2, PartsMoved
  <1>5. Once(a, bn, cn) /\ (m \notin overtaken => InOrder(a, bn, cn))
    BY <1>2, <1>3, <1>4
  <1>6. Once(message[m].text, InHand(m), buffer[m])'
        /\ (m \notin overtaken' => InOrder(message[m].text, InHand(m), buffer[m])')
    BY <1>1, <1>3, <1>5 DEF Keeps
  <1>7. Content(m)' \subseteq Content(m)
    BY <1>1, <1>3, RangeOfEmpty DEF Content
  <1>8. \A input : DeltaOf(input, m) => (input \in Range(queue') <=> input \in Range(queue))
    BY DEF Keeps, DeltaOf, Of, AboutMessage
  <1>9. Content(m)' \subseteq 1..said'[m]
    BY <1>7 DEF TextOf, Keeps
  <1>10. \A input \in Range(queue') : DeltaOf(input, m) => \A x \in Content(m)' : x < input.text[1]
    BY <1>7, <1>8 DEF TextOf
  <1>11. ASSUME m \notin lost'
         PROVE  OnlyWhole(m)' \/ \A k \in 1..said'[m] : k \in Content(m)' \/ InDelta(k, m)'
    <2>1. m \notin lost /\ Content(m)' = Content(m) /\ said'[m] = said[m]
      BY <1>11 DEF Keeps, Content
    <2>2. \A k : InDelta(k, m) => InDelta(k, m)'
      BY <1>8 DEF InDelta
    <2>3. OnlyWhole(m) => OnlyWhole(m)'
      BY <1>11, <2>1 DEF OnlyWhole, Keeps
    <2> QED
      BY <2>1, <2>2, <2>3 DEF TextOf
  <1> QED
    BY <1>6, <1>9, <1>10, <1>11 DEF TextOf
LEMMA RememberedTyped ==
    ASSUME TypeOK, NEW m \in Messages, Remember(m)
    PROVE  /\ remembered' \in [Turns -> SUBSET Messages]
           /\ \A t \in Turns : remembered'[t] \subseteq MessagesOf(t)
           /\ \A t \in Turns : remembered[t] \subseteq remembered'[t]
           /\ m \in remembered'[TurnOf[m]] /\ TurnOf[m] \in Turns
PROOF
  <1>1. /\ remembered \in [Turns -> SUBSET Messages] /\ TurnOf[m] \in Turns
        /\ \A t \in Turns : remembered[t] \subseteq MessagesOf(t)
    BY MessageAssumption DEF TypeOK
  <1>2. remembered' = [remembered EXCEPT ![TurnOf[m]] = remembered[TurnOf[m]] \cup {m}]
    BY DEF Remember
  <1>3. \A t \in Turns : remembered'[t] = IF t = TurnOf[m] THEN remembered[t] \cup {m} ELSE remembered[t]
    BY <1>1, <1>2
  <1>4. m \in MessagesOf(TurnOf[m])
    BY DEF MessagesOf
  <1> QED
    BY <1>1, <1>2, <1>3, <1>4

(* The state of the messages when the worker takes an input about one.     *)
LEMMA TextTakenState ==
    ASSUME IngestionInv, task = Idle, queue # <<>>, Head(queue).type \in AboutMessage,
           task'.input = Head(queue), queue' = Tail(queue), Remember(Head(queue).message),
           ended' = ended, unfinished' = unfinished,
           \A m \in Messages \ {Head(queue).message} : Tidy(m) => Tidy(m)',
           Head(queue).type = "item" => task'.rest = {Head(queue).message} /\ UNCHANGED <<said, message, buffer>>
    PROVE  StateInv'
PROOF
  <1> USE DEF IngestionInv
  <1>1. PICK first : first = Head(queue)
    OBVIOUS
  <1>2. PICK m : m = first.message
    OBVIOUS
  <1>3. /\ first \in Inputs /\ InputOf(first) /\ Range(queue) = {first} \cup Range(queue')
        /\ first.type \in AboutMessage /\ task'.input = first
    BY <1>1, QueueHead
  <1>4. m \in Messages /\ first.turn = TurnOf[m] /\ TurnOf[m] \in Turns
    BY <1>2, <1>3, InputFields, MessageAssumption DEF InputOf
  <1>5. /\ \A t \in Turns : remembered[t] \subseteq remembered'[t]
        /\ m \in remembered'[TurnOf[m]]
    BY <1>1, <1>2, <1>4, RememberedTyped
  <1>6. SUFFICES ASSUME NEW n \in Messages PROVE StateOf(n)'
    BY DEF StateInv
  <1>7. PICK t \in Turns : t = TurnOf[n]
    BY MessageAssumption
  <1>8. task.input.type = "none"
    BY HandFields
  <1>9. /\ Tidy(n) \/ Covered(n) \/ n \in unfinished \/ ended[t] = "exited"
        /\ ended[t] = "completed" => Tidy(n) \/ n \in unfinished \/ Pending(t)
    BY <1>7, <1>8 DEF StateInv, StateOf, Completes
  <1>10. Pending(t) => Pending(t)'
    BY <1>3 DEF Pending, Completes, AboutMessage
  <1>11. ~Completes(task'.input, t)
    BY <1>3 DEF Completes, AboutMessage
  <1>12. CASE n = m
    <2>1. Covered(n)'
      BY <1>5, <1>12 DEF Covered
    <2>2. ended'[t] = "completed" => Pending(t)'
      <3>1. Speaks(first, t)
        BY <1>3, <1>4, <1>7, <1>12 DEF Speaks
      <3> QED
        BY <1>3, <1>10, <3>1 DEF PendingInv
    <2>3. task'.input.type = "item" /\ task'.input.message = n => Completing(n)'
      BY <1>1, <1>2, <1>3, <1>12 DEF Completing
    <2> QED
      BY <1>7, <1>11, <2>1, <2>2, <2>3 DEF StateOf
  <1>13. CASE n # m
    <2>1. Tidy(n) => Tidy(n)'
      BY <1>1, <1>2, <1>13
    <2>2. Covered(n) => Covered(n)'
      <3>1. ~Of(first, n)
        BY <1>2, <1>13 DEF Of
      <3> QED
        BY <1>3, <1>5, <1>7, <3>1 DEF Covered
    <2>3. ~(task'.input.message = n)
      BY <1>2, <1>3, <1>13
    <2> QED
      BY <1>7, <1>9, <1>10, <1>11, <2>1, <2>2, <2>3 DEF StateOf
  <1> QED
    BY <1>12, <1>13

LEMMA TakeDeltaStep ==
    ASSUME IngestionInv, task = Idle, queue # <<>>, Head(queue).type = "delta",
           TakeDelta(Head(queue).message, Head(queue).text)
    PROVE  IngestionInv'
PROOF
  <1> USE DEF IngestionInv
  <1>1. PICK first : first = Head(queue)
    OBVIOUS
  <1>2. PICK m : m = first.message
    OBVIOUS
  <1>3. PICK k : k = first.text[1]
    OBVIOUS
  <1>4. /\ first \in Inputs /\ InputOf(first) /\ Range(queue) = {first} \cup Range(queue')
        /\ first.type = "delta"
        /\ \A input \in Range(queue') : Precedes(first, input)
    BY <1>1, QueueHead DEF TakeDelta, Begin
  <1>5. /\ m \in Messages /\ first.turn = TurnOf[m] /\ first.text \in Chunks
    BY <1>2, <1>4, InputFields DEF InputOf, AboutMessage
  <1>6. first.text = <<k>> /\ k \in 1..said[m]
    BY <1>2, <1>3, <1>4 DEF InputOf
  <1>7. k \in 1..MaxChunks
    BY <1>5, <1>6, MessageAssumption DEF TypeOK
  <1>8. PICK a, c : a = message[m].text /\ c = buffer[m]
    OBVIOUS
  <1>9. PICK text : text = <<k>>
    OBVIOUS
  <1>10. PICK next : next = c \o text
    OBVIOUS
  <1>11. a \in Chunks /\ c \in Chunks /\ Len(c) <= MaxBuffered
    BY <1>5, <1>8 DEF TypeOK
  <1>12. PICK keep \in BOOLEAN : keep = (delivery = "buffered" /\ Len(next) <= MaxBuffered)
    OBVIOUS
  <1>13. PICK out : out = IF keep THEN <<>> ELSE IF delivery = "buffered" THEN next ELSE text
    OBVIOUS
  <1>14. PICK commands : commands = IF keep THEN <<>> ELSE <<Delta(m, out)>>
    OBVIOUS
  <1>15. PICK rest : rest = IF keep THEN next ELSE IF delivery = "buffered" THEN <<>> ELSE c
    OBVIOUS
  <1>16. /\ Remember(m) /\ buffer' = [buffer EXCEPT ![m] = rest]
         /\ overtaken' = IF delivery = "streaming" /\ c # <<>> THEN overtaken \cup {m} ELSE overtaken
         /\ Begin(first, {}, <<>>, commands)
         /\ delivery' = delivery /\ lost' = lost /\ unfinished' = unfinished
    BY <1>1, <1>2, <1>6, <1>8, <1>9, <1>10, <1>12, <1>13, <1>14, <1>15 DEF TakeDelta
  <1>17. /\ said' = said /\ message' = message /\ ended' = ended /\ queue' = Tail(queue)
         /\ task' = Handling(first, {}, <<>>, commands)
    BY <1>1, <1>16 DEF Begin, provider
  <1>18. /\ task'.input = first /\ task'.rest = {} /\ task'.fallback = <<>> /\ task'.commands = commands
    BY <1>17, TaskTaken
  <1>19. task.rest = {} /\ task.commands = <<>>
    BY HandFields
  <1>20. /\ TextOf(m) /\ InHand(m) = <<>> /\ Content(m) = Range(a) \cup Range(c)
         /\ \A x \in Content(m) : x < k
    <2>1. TextOf(m) /\ InHand(m) = <<>>
      BY <1>5, <1>19 DEF TextInv, InHand
    <2>2. DeltaOf(first, m) /\ first \in Range(queue)
      BY <1>2, <1>4 DEF DeltaOf
    <2>3. \A x \in Content(m) : x < first.text[1]
      BY <2>1, <2>2 DEF TextOf
    <2> QED
      BY <1>3, <1>8, <2>1, <2>3, RangeOfEmpty DEF Content
  <1>21. /\ Once(a, <<>>, c) /\ (m \notin overtaken => InOrder(a, <<>>, c))
         /\ \A x \in Range(a) \cup Range(c) : x < k
    BY <1>8, <1>20 DEF TextOf
  <1>22. /\ Once(a, <<>>, next) /\ Once(a, next, <<>>)
         /\ InOrder(a, <<>>, c) => InOrder(a, <<>>, next) /\ InOrder(a, next, <<>>)
         /\ Range(next) = Range(c) \cup {k} /\ next \in Chunks /\ Len(next) = Len(c) + 1
    BY <1>7, <1>9, <1>10, <1>11, <1>21, PartsExtended
  <1>23. /\ Once(a, text, c) /\ (InOrder(a, <<>>, c) /\ c = <<>> => InOrder(a, text, c))
         /\ Range(text) = {k} /\ text \in Chunks /\ <<>> \in Chunks
    BY <1>5, <1>6, <1>7, <1>9, <1>11, <1>21, PartsPassed, RangeOfOne DEF Chunks
  <1>24. delivery \in {"buffered", "streaming"}
    BY DEF TypeOK
  <1>25. /\ out \in Chunks /\ rest \in Chunks /\ Len(rest) <= MaxBuffered
    <2>1. PICK none : none = <<>>
      OBVIOUS
    <2>2. Len(none) <= MaxBuffered
      BY <2>1, MessageAssumption
    <2> QED
      BY <1>11, <1>12, <1>13, <1>15, <1>22, <1>23, <2>1, <2>2
  <1>26. CachesOK
    <2>1. buffer' \in [Messages -> Chunks] /\ \A n \in Messages : Len(buffer'[n]) <= MaxBuffered
      BY <1>5, <1>16, <1>25 DEF TypeOK
    <2>2. /\ remembered' \in [Turns -> SUBSET Messages]
          /\ \A t \in Turns : remembered'[t] \subseteq MessagesOf(t)
      BY <1>5, <1>16, RememberedTyped
    <2>3. overtaken' \subseteq Messages
      BY <1>5, <1>16 DEF TypeOK
    <2> QED
      BY <1>16, <2>1, <2>2, <2>3 DEF CachesOK, TypeOK
  <1>27. /\ commands \in Seq(Commands)
         /\ \A i \in DOMAIN commands :
                i = 1 /\ commands[i].do = "delta" /\ commands[i].message = m /\ commands[i].text = out
         /\ (IF keep THEN commands = <<>>
             ELSE commands # <<>> /\ Head(commands).message = m /\ Head(commands).text = out)
    <2>1. CASE keep
      <3>1. commands = <<>>
        BY <1>14, <2>1
      <3> QED
        BY <2>1, <3>1
    <2>2. CASE ~keep
      <3>1. PICK command : command = Delta(m, out)
        OBVIOUS
      <3>2. command \in Commands /\ command.do = "delta" /\ command.message = m /\ command.text = out
        BY <1>5, <1>25, <3>1 DEF Delta, Commands
      <3>3. commands = <<command>>
        BY <1>14, <2>2, <3>1
      <3> QED
        BY <2>2, <3>2, <3>3
    <2> QED
      BY <2>1, <2>2
  <1>28. Fitting(first, {}, <<>>, commands)
    <2>1. first.message \in remembered'[first.turn]
      BY <1>2, <1>5, <1>16, RememberedTyped
    <2> QED
      BY <1>2, <1>4, <1>23, <1>27, <2>1 DEF Fitting, AboutMessage
  <1>29. TypeOK' /\ QueueInv' /\ PendingInv' /\ TaskInv'
    BY <1>1, <1>16, <1>26, <1>28, Begun
  <1>30. FallbackInv'
    BY <1>18 DEF FallbackInv
  <1>31. InHand(m)' = out
    BY <1>13, <1>18, <1>27 DEF InHand
  <1>32. buffer'[m] = rest /\ \A n \in Messages \ {m} : buffer'[n] = buffer[n]
    BY <1>5, <1>16 DEF TypeOK
  <1>33. TextOf(m)'
    <2>1. Once(a, out, rest) /\ (m \notin overtaken' => InOrder(a, out, rest))
          /\ Range(out) \cup Range(rest) = Range(c) \cup {k}
      <3>1. CASE keep
        BY <1>12, <1>13, <1>15, <1>16, <1>21, <1>22, <3>1, RangeOfEmpty
      <3>2. CASE ~keep /\ delivery = "buffered"
        BY <1>13, <1>15, <1>16, <1>21, <1>22, <3>2, RangeOfEmpty
      <3>3. CASE ~keep /\ delivery = "streaming"
        <4>1. out = text /\ rest = c
          BY <1>13, <1>15, <3>3
        <4>2. m \notin overtaken' => m \notin overtaken /\ c = <<>>
          BY <1>16, <3>3
        <4> QED
          BY <1>21, <1>23, <4>1, <4>2
      <3> QED
        BY <1>24, <3>1, <3>2, <3>3
    <2>2. Content(m)' = Content(m) \cup {k}
      BY <1>8, <1>17, <1>20, <1>31, <1>32, <2>1 DEF Content
    <2>3. Content(m)' \subseteq 1..said'[m]
      BY <1>6, <1>17, <1>20, <2>2 DEF TextOf
    <2>4. \A input \in Range(queue') : DeltaOf(input, m) => \A x \in Content(m)' : x < input.text[1]
      <3> SUFFICES ASSUME NEW input \in Range(queue'), DeltaOf(input, m), NEW x \in Content(m)'
                   PROVE  x < input.text[1]
        OBVIOUS
      <3>1. Of(first, m) /\ Of(input, m)
        BY <1>2, <1>4 DEF Of, DeltaOf, AboutMessage
      <3>2. k < input.text[1]
        BY <1>3, <1>4, <1>5, <3>1 DEF Precedes, DeltaOf
      <3>3. x \in Content(m) => x < input.text[1]
        BY <1>4, <1>20 DEF TextOf
      <3> QED
        BY <2>2, <3>2, <3>3
    <2>5. m \notin lost' => \A j \in 1..said'[m] : j \in Content(m)' \/ InDelta(j, m)'
      <3> SUFFICES ASSUME m \notin lost, NEW j \in 1..said[m]
                   PROVE  j \in Content(m)' \/ InDelta(j, m)'
        BY <1>16, <1>17
      <3>1. ~OnlyWhole(m)
        <4>1. Of(first, m) /\ first.type # "item" /\ first \in Range(queue)
          BY <1>2, <1>4 DEF Of, AboutMessage
        <4> QED
          BY <4>1 DEF OnlyWhole
      <3>2. j \in Content(m) \/ InDelta(j, m)
        BY <1>20, <3>1 DEF TextOf
      <3>3. CASE InDelta(j, m)
        <4>1. PICK input \in Range(queue) : DeltaOf(input, m) /\ input.text = <<j>>
          BY <3>3 DEF InDelta
        <4>2. CASE input = first
          <5>1. j = k
            BY <1>3, <4>1, <4>2
          <5> QED
            BY <2>2, <5>1
        <4>3. CASE input \in Range(queue')
          BY <4>1, <4>3 DEF InDelta
        <4> QED
          BY <1>4, <4>2, <4>3
      <3> QED
        BY <2>2, <3>2, <3>3
    <2>6. message'[m].text = a
      BY <1>8, <1>17
    <2> QED
      BY <1>31, <1>32, <2>1, <2>3, <2>4, <2>5, <2>6 DEF TextOf
  <1>34. TextInv'
    <2> SUFFICES ASSUME NEW n \in Messages, n # m PROVE TextOf(n)'
      BY <1>33 DEF TextInv
    <2>1. InHand(n)' = <<>> /\ InHand(n) = <<>>
      BY <1>18, <1>19, <1>27 DEF InHand
    <2>2. \A input : Of(input, n) => (input \in Range(queue') <=> input \in Range(queue))
      BY <1>2, <1>4 DEF Of
    <2>3. Keeps(n)
      BY <1>16, <1>17, <1>19, <1>32, <2>1, <2>2 DEF Keeps
    <2> QED
      BY <2>3, TextKept DEF TextInv
  <1>35. StateInv'
    <2>1. \A n \in Messages \ {m} : Tidy(n) => Tidy(n)'
      BY <1>17, <1>32 DEF Tidy
    <2> QED
      BY <1>1, <1>2, <1>4, <1>16, <1>17, <1>18, <2>1, TextTakenState DEF AboutMessage
  <1> QED
    BY <1>29, <1>30, <1>34, <1>35
LEMMA TakeCompletionStep ==
    ASSUME IngestionInv, task = Idle, queue # <<>>, Head(queue).type = "item",
           TakeCompletion(Head(queue).message, Head(queue).text)
    PROVE  IngestionInv'
PROOF
  <1> USE DEF IngestionInv
  <1>1. PICK first : first = Head(queue)
    OBVIOUS
  <1>2. PICK m : m = first.message
    OBVIOUS
  <1>3. /\ first \in Inputs /\ InputOf(first) /\ Range(queue) = {first} \cup Range(queue')
        /\ first.type = "item"
        /\ \A input \in Range(queue') : Precedes(first, input)
    BY <1>1, QueueHead DEF TakeCompletion, Begin
  <1>4. /\ m \in Messages /\ first.turn = TurnOf[m] /\ first.text \in Chunks
    BY <1>2, <1>3, InputFields DEF InputOf, AboutMessage
  <1>5. PICK fallback : fallback = IF message[m].text = <<>> THEN first.text ELSE <<>>
    OBVIOUS
  <1>6. /\ Remember(m) /\ Begin(first, {m}, fallback, <<>>)
        /\ delivery' = delivery /\ buffer' = buffer
        /\ lost' = lost /\ unfinished' = unfinished /\ overtaken' = overtaken
    BY <1>1, <1>2, <1>5 DEF TakeCompletion, history
  <1>7. /\ said' = said /\ message' = message /\ ended' = ended /\ queue' = Tail(queue)
        /\ task' = Handling(first, {m}, fallback, <<>>)
    BY <1>1, <1>6 DEF Begin, provider
  <1>8. /\ task'.input = first /\ task'.rest = {m} /\ task'.fallback = fallback /\ task'.commands = <<>>
    BY <1>7, TaskTaken
  <1>9. task.rest = {} /\ task.commands = <<>>
    BY HandFields
  <1>10. <<>> \in Chunks /\ fallback \in Chunks /\ <<>> \in Seq(Commands)
    <2>1. <<>> \in Chunks /\ <<>> \in Seq(Commands)
      BY DEF Chunks
    <2> QED
      BY <1>4, <1>5, <2>1
  <1>11. CachesOK
    <2>1. /\ remembered' \in [Turns -> SUBSET Messages]
          /\ \A t \in Turns : remembered'[t] \subseteq MessagesOf(t)
      BY <1>4, <1>6, RememberedTyped
    <2> QED
      BY <1>6, <2>1 DEF CachesOK, TypeOK
  <1>12. Fitting(first, {m}, fallback, <<>>)
    <2>1. first.message \in remembered'[first.turn]
      BY <1>2, <1>4, <1>6, RememberedTyped
    <2>2. \A i \in DOMAIN <<>> : FALSE
      OBVIOUS
    <2> QED
      BY <1>2, <1>3, <1>4, <1>10, <2>1, <2>2 DEF Fitting, AboutMessage
  <1>13. TypeOK' /\ QueueInv' /\ PendingInv' /\ TaskInv'
    BY <1>1, <1>6, <1>11, <1>12, Begun
  <1>14. \A input \in Range(queue') : ~Of(input, m)
    <2>1. Of(first, m)
      BY <1>2, <1>3 DEF Of, AboutMessage
    <2> QED
      BY <1>3, <1>4, <2>1 DEF Precedes
  <1>15. FallbackInv'
    <2> SUFFICES ASSUME fallback # <<>>
                 PROVE  /\ first.type = "item" /\ first.message = m
                        /\ fallback = FullText(m)' /\ said'[m] > 0
                        /\ message'[m].text = <<>> /\ task'.commands = <<>>
                        /\ \A input \in Range(queue') : ~Of(input, m)
      BY <1>8 DEF FallbackInv
    <2>1. message[m].text = <<>> /\ fallback = first.text
      BY <1>5
    <2>2. fallback = FullText(m) /\ said[m] > 0
      BY <1>2, <1>3, <2>1 DEF InputOf
    <2>3. FullText(m)' = FullText(m)
      BY <1>7 DEF FullText
    <2> QED
      BY <1>2, <1>3, <1>7, <1>8, <1>14, <2>1, <2>2, <2>3
  <1>16. \A n \in Messages : InHand(n)' = <<>> /\ InHand(n) = <<>>
    BY <1>8, <1>9 DEF InHand
  <1>17. TextOf(m)'
    <2>1. TextOf(m)
      BY <1>4 DEF TextInv
    <2>2. Content(m)' = Content(m)
      BY <1>4, <1>6, <1>7, <1>16 DEF Content
    <2>3. \A input \in Range(queue') : ~DeltaOf(input, m)
      BY <1>14 DEF DeltaOf, Of, AboutMessage
    <2>4. ASSUME m \notin lost'
          PROVE  OnlyWhole(m)' \/ \A k \in 1..said'[m] : k \in Content(m)' \/ InDelta(k, m)'
      <3>1. CASE OnlyWhole(m)
        <4>1. said[m] = 1 /\ Content(m) = {} /\ first.text = <<1>>
          BY <1>2, <1>3, <3>1 DEF OnlyWhole, Of, AboutMessage
        <4>2. message[m].text = <<>>
          <5>1. message[m].text \in Chunks /\ Range(message[m].text) = {}
            BY <1>4, <4>1 DEF TypeOK, Content
          <5> QED
            BY <5>1, EmptyRange DEF Chunks
        <4>3. fallback = <<1>>
          BY <1>5, <4>1, <4>2
        <4>4. OnlyWhole(m)'
          BY <1>7, <1>8, <1>14, <2>2, <4>1, <4>3 DEF OnlyWhole
        <4> QED
          BY <4>4
      <3>2. CASE \A k \in 1..said[m] : k \in Content(m) \/ InDelta(k, m)
        <4>1. \A k : InDelta(k, m) => InDelta(k, m)'
          <5>1. ~DeltaOf(first, m)
            BY <1>3 DEF DeltaOf
          <5> QED
            BY <1>3, <5>1 DEF InDelta
        <4> QED
          BY <1>7, <2>2, <3>2, <4>1
      <3> QED
        BY <1>6, <2>1, <2>4, <3>1, <3>2 DEF TextOf
    <2>5. /\ Once(message[m].text, InHand(m), buffer[m])'
          /\ m \notin overtaken' => InOrder(message[m].text, InHand(m), buffer[m])'
          /\ Content(m)' \subseteq 1..said'[m]
      BY <1>4, <1>6, <1>7, <1>16, <2>1, <2>2 DEF TextOf
    <2> QED
      BY <2>3, <2>4, <2>5 DEF TextOf
  <1>18. TextInv'
    <2> SUFFICES ASSUME NEW n \in Messages, n # m PROVE TextOf(n)'
      BY <1>17 DEF TextInv
    <2>1. \A input : Of(input, n) => (input \in Range(queue') <=> input \in Range(queue))
      BY <1>2, <1>3 DEF Of
    <2>2. Keeps(n)
      BY <1>6, <1>7, <1>9, <1>16, <2>1 DEF Keeps
    <2> QED
      BY <2>2, TextKept DEF TextInv
  <1>19. StateInv'
    <2>1. \A n \in Messages \ {m} : Tidy(n) => Tidy(n)'
      BY <1>6, <1>7 DEF Tidy
    <2> QED
      BY <1>1, <1>2, <1>3, <1>6, <1>7, <1>8, <2>1, TextTakenState DEF AboutMessage
  <1> QED
    BY <1>13, <1>15, <1>18, <1>19

(* An input about no message leaves the text where it is, or drops it.     *)
LEMMA OtherTaken ==
    ASSUME IngestionInv, queue # <<>>, Head(queue).type \notin AboutMessage, queue' = Tail(queue)
    PROVE  /\ Range(queue) = {Head(queue)} \cup Range(queue')
           /\ \A m \in Messages : \A input : Of(input, m) =>
                (input \in Range(queue') <=> input \in Range(queue))
           /\ \A m \in Messages : InputOf(Head(queue)) /\ Ends(Head(queue), TurnOf[m]) =>
                \A input \in Range(queue) : ~Of(input, m)
PROOF
  <1>1. PICK first : first = Head(queue)
    OBVIOUS
  <1>2. /\ Range(queue) = {first} \cup Range(queue')
        /\ \A input \in Range(queue') : Precedes(first, input) /\ InputOf(input)
    BY <1>1, QueueHead DEF IngestionInv
  <1>3. \A m \in Messages : ~Of(first, m)
    BY <1>1 DEF Of
  <1>4. ASSUME NEW m \in Messages, Ends(first, TurnOf[m]), NEW input \in Range(queue), Of(input, m)
        PROVE  FALSE
    <2>1. input \in Range(queue') /\ TurnOf[m] \in Turns
      BY <1>2, <1>3, <1>4, MessageAssumption
    <2>2. Speaks(input, TurnOf[m])
      BY <1>2, <1>4, <2>1 DEF InputOf, Of, Speaks
    <2> QED
      BY <1>2, <1>4, <2>1, <2>2 DEF Precedes
  <1> QED
    BY <1>1, <1>2, <1>3, <1>4

LEMMA TakeTurnCompletedStep ==
    ASSUME IngestionInv, task = Idle, queue # <<>>, Head(queue).type = "completed",
           TakeTurnCompleted(Head(queue).turn)
    PROVE  IngestionInv'
PROOF
  <1> USE DEF IngestionInv
  <1>1. PICK first : first = Head(queue)
    OBVIOUS
  <1>2. PICK u : u = first.turn
    OBVIOUS
  <1>3. /\ first \in Inputs /\ InputOf(first) /\ first.type = "completed" /\ u \in Turns
        /\ first.type \notin AboutMessage
    BY <1>1, <1>2, QueueHead, InputFields DEF AboutMessage
  <1>4. /\ Begin(first, remembered[u], <<>>, <<>>)
        /\ delivery' = delivery /\ buffer' = buffer /\ remembered' = remembered
        /\ lost' = lost /\ unfinished' = unfinished /\ overtaken' = overtaken
    BY <1>1, <1>2 DEF TakeTurnCompleted, history
  <1>5. /\ said' = said /\ message' = message /\ ended' = ended /\ queue' = Tail(queue)
        /\ task' = Handling(first, remembered[u], <<>>, <<>>)
    BY <1>1, <1>4 DEF Begin, provider
  <1>6. /\ task'.input = first /\ task'.rest = remembered[u] /\ task'.fallback = <<>>
        /\ task'.commands = <<>>
    BY <1>5, TaskTaken
  <1>7. task.rest = {} /\ task.commands = <<>> /\ task.input.type = "none"
    BY HandFields
  <1>8. CachesOK
    BY <1>4 DEF CachesOK, TypeOK
  <1>9. Fitting(first, remembered[u], <<>>, <<>>)
    <2>1. remembered[u] \subseteq Messages /\ <<>> \in Chunks /\ <<>> \in Seq(Commands)
          /\ \A i \in DOMAIN <<>> : FALSE
      BY <1>3 DEF TypeOK, Chunks
    <2> QED
      BY <1>2, <1>3, <1>4, <2>1 DEF Fitting
  <1>10. TypeOK' /\ QueueInv' /\ PendingInv' /\ TaskInv'
    BY <1>1, <1>4, <1>8, <1>9, Begun
  <1>11. FallbackInv'
    BY <1>6 DEF FallbackInv
  <1>12. /\ Range(queue) = {first} \cup Range(queue')
         /\ \A m \in Messages : \A input : Of(input, m) =>
                (input \in Range(queue') <=> input \in Range(queue))
         /\ \A m \in Messages : Ends(first, TurnOf[m]) => \A input \in Range(queue) : ~Of(input, m)
    BY <1>1, <1>3, <1>5, OtherTaken
  <1>13. TextInv'
    <2> SUFFICES ASSUME NEW n \in Messages PROVE TextOf(n)'
      BY DEF TextInv
    <2>1. InHand(n)' = <<>> /\ InHand(n) = <<>>
      BY <1>6, <1>7 DEF InHand
    <2>2. Keeps(n)
      BY <1>4, <1>5, <1>7, <1>12, <2>1 DEF Keeps
    <2> QED
      BY <2>2, TextKept DEF TextInv
  <1>14. StateInv'
    <2> SUFFICES ASSUME NEW n \in Messages PROVE StateOf(n)'
      BY DEF StateInv
    <2>1. PICK t \in Turns : t = TurnOf[n]
      BY MessageAssumption
    <2>2. /\ Tidy(n) \/ Covered(n) \/ n \in unfinished \/ ended[t] = "exited"
          /\ ended[t] = "completed" => Tidy(n) \/ n \in unfinished \/ Pending(t)
      BY <1>7, <2>1 DEF StateInv, StateOf, Completes
    <2>3. Tidy(n)' = Tidy(n)
      BY <1>4, <1>5 DEF Tidy
    <2>4. Covered(n) => Covered(n)'
      BY <1>4, <1>12 DEF Covered
    <2>5. Pending(t) => Pending(t)' \/ Completes(first, t)
      BY <1>12 DEF Pending
    <2>6. Completes(first, t) => Tidy(n)' \/ Completing(n)' \/ n \in unfinished'
      <3> SUFFICES ASSUME Completes(first, t) PROVE Tidy(n) \/ n \in remembered[u] \/ n \in unfinished
        BY <1>4, <1>6, <2>3 DEF Completing
      <3>1. t = u /\ Ends(first, t) /\ ended[t] = "completed"
        BY <1>2, <1>3 DEF Completes, Ends, InputOf
      <3>2. Covered(n) => n \in remembered[u]
        BY <1>12, <2>1, <3>1 DEF Covered
      <3> QED
        BY <2>2, <3>1, <3>2
    <2>7. task'.input.type # "item"
      BY <1>3, <1>6
    <2> QED
      BY <1>4, <1>5, <1>6, <2>1, <2>2, <2>3, <2>4, <2>5, <2>6, <2>7 DEF StateOf
  <1> QED
    BY <1>10, <1>11, <1>13, <1>14
LEMMA TakeExitStep ==
    ASSUME IngestionInv, task = Idle, queue # <<>>, Head(queue).type = "exited",
           TakeExit(Head(queue).turn)
    PROVE  IngestionInv'
PROOF
  <1> USE DEF IngestionInv
  <1>1. PICK first : first = Head(queue)
    OBVIOUS
  <1>2. PICK u : u = first.turn
    OBVIOUS
  <1>3. /\ first \in Inputs /\ InputOf(first) /\ first.type = "exited" /\ u \in Turns
        /\ first.type \notin AboutMessage
    BY <1>1, <1>2, QueueHead, InputFields DEF AboutMessage
  <1>4. /\ Begin(first, {}, <<>>, <<>>)
        /\ delivery' = delivery /\ remembered' = [remembered EXCEPT ![u] = {}]
        /\ buffer' = [m \in Messages |-> IF m \in remembered[u] THEN <<>> ELSE buffer[m]]
        /\ lost' = lost \cup {m \in remembered[u] : buffer[m] # <<>>}
        /\ unfinished' = unfinished /\ overtaken' = overtaken
    BY <1>1, <1>2 DEF TakeExit
  <1>5. /\ said' = said /\ message' = message /\ ended' = ended /\ queue' = Tail(queue)
        /\ task' = Handling(first, {}, <<>>, <<>>)
    BY <1>1, <1>4 DEF Begin, provider
  <1>6. /\ task'.input = first /\ task'.rest = {} /\ task'.fallback = <<>> /\ task'.commands = <<>>
    BY <1>5, TaskTaken
  <1>7. task.rest = {} /\ task.commands = <<>> /\ task.input.type = "none"
    BY HandFields
  <1>8. /\ remembered \in [Turns -> SUBSET Messages]
        /\ \A t \in Turns : remembered[t] \subseteq MessagesOf(t)
        /\ <<>> \in Chunks /\ Len(<<>>) = 0
    BY DEF TypeOK, Chunks
  <1>9. \A m \in Messages : TurnOf[m] # u => buffer'[m] = buffer[m]
    BY <1>3, <1>4, <1>8 DEF MessagesOf
  <1>10. CachesOK
    <2>1. buffer' \in [Messages -> Chunks]
      BY <1>4, <1>8 DEF TypeOK
    <2>2. \A m \in Messages : Len(buffer'[m]) <= MaxBuffered
      <3> TAKE m \in Messages
      <3>1. CASE m \in remembered[u]
        <4>1. buffer'[m] = <<>>
          BY <1>4, <3>1
        <4>2. Len(buffer'[m]) = 0
          BY <1>8, <4>1
        <4> QED
          BY <4>2, MessageAssumption
      <3>2. CASE m \notin remembered[u]
        BY <1>4, <3>2 DEF TypeOK
      <3> QED
        BY <3>1, <3>2
    <2>3. /\ remembered' \in [Turns -> SUBSET Messages]
          /\ \A t \in Turns : remembered'[t] \subseteq MessagesOf(t)
      BY <1>4, <1>8
    <2>4. lost' \subseteq Messages
      BY <1>3, <1>4, <1>8 DEF TypeOK
    <2> QED
      BY <1>4, <2>1, <2>2, <2>3, <2>4 DEF CachesOK, TypeOK
  <1>11. Fitting(first, {}, <<>>, <<>>)
    <2>1. <<>> \in Seq(Commands) /\ \A i \in DOMAIN <<>> : FALSE
      OBVIOUS
    <2> QED
      BY <1>3, <1>8, <2>1 DEF Fitting
  <1>12. TypeOK' /\ QueueInv' /\ PendingInv' /\ TaskInv'
    BY <1>1, <1>4, <1>10, <1>11, Begun
  <1>13. FallbackInv'
    BY <1>6 DEF FallbackInv
  <1>14. /\ Range(queue) = {first} \cup Range(queue')
         /\ \A m \in Messages : \A input : Of(input, m) =>
                (input \in Range(queue') <=> input \in Range(queue))
    BY <1>1, <1>3, <1>5, OtherTaken
  <1>15. TextInv'
    <2> SUFFICES ASSUME NEW n \in Messages PROVE TextOf(n)'
      BY DEF TextInv
    <2>1. InHand(n)' = <<>> /\ InHand(n) = <<>>
      BY <1>6, <1>7 DEF InHand
    <2>2. buffer'[n] \in {buffer[n], <<>>}
      BY <1>4
    <2>3. n \notin lost' => n \notin lost /\ buffer'[n] = buffer[n]
      BY <1>4
    <2>4. Keeps(n)
      BY <1>4, <1>5, <1>7, <1>14, <2>1, <2>2, <2>3 DEF Keeps
    <2> QED
      BY <2>4, TextKept DEF TextInv
  <1>16. StateInv'
    <2> SUFFICES ASSUME NEW n \in Messages PROVE StateOf(n)'
      BY DEF StateInv
    <2>1. PICK t \in Turns : t = TurnOf[n]
      BY MessageAssumption
    <2>2. /\ Tidy(n) \/ Covered(n) \/ n \in unfinished \/ ended[t] = "exited"
          /\ ended[t] = "completed" => Tidy(n) \/ n \in unfinished \/ Pending(t)
      BY <1>7, <2>1 DEF StateInv, StateOf, Completes
    <2>3. Pending(t) => Pending(t)'
      BY <1>3, <1>14 DEF Pending, Completes
    <2>4. ~Completes(task'.input, t) /\ task'.input.type # "item"
      BY <1>3, <1>6 DEF Completes
    <2>5. CASE t = u
      <3>1. ended'[t] = "exited"
        BY <1>2, <1>3, <1>5, <2>5 DEF InputOf, Ends
      <3> QED
        BY <2>1, <2>4, <3>1 DEF StateOf
    <2>6. CASE t # u
      <3>1. buffer'[n] = buffer[n] /\ remembered'[t] = remembered[t]
        BY <1>4, <1>8, <1>9, <2>1, <2>6
      <3>2. Tidy(n)' = Tidy(n)
        BY <1>5, <3>1 DEF Tidy
      <3>3. Covered(n) => Covered(n)'
        BY <1>14, <2>1, <3>1 DEF Covered
      <3> QED
        BY <1>4, <1>5, <2>1, <2>2, <2>3, <2>4, <3>2, <3>3 DEF StateOf
    <2> QED
      BY <2>5, <2>6
  <1> QED
    BY <1>12, <1>13, <1>15, <1>16

(* Steps that touch no cache and no message, and let the input at the head *)
(* of the queue go: a change of the mode, and the end of a turn that is    *)
(* not handled.                                                            *)
LEMMA LetGo ==
    ASSUME IngestionInv, task = Idle, queue # <<>>, Head(queue).type \notin AboutMessage,
           queue' = Tail(queue), UNCHANGED <<said, ended, message, buffer, remembered, lost, overtaken>>,
           task'.rest = {}, task'.commands = <<>>, task'.fallback = <<>>,
           task'.input.type \notin {"item", "completed"},
           unfinished \subseteq unfinished',
           Head(queue).type = "completed" =>
                remembered[Head(queue).turn] \subseteq unfinished'
    PROVE  FallbackInv' /\ TextInv' /\ StateInv'
PROOF
  <1> USE DEF IngestionInv
  <1>1. PICK first : first = Head(queue)
    OBVIOUS
  <1>2. first \in Inputs /\ InputOf(first)
    BY <1>1, QueueHead
  <1>3. task.rest = {} /\ task.commands = <<>> /\ task.input.type = "none"
    BY HandFields
  <1>4. FallbackInv'
    BY DEF FallbackInv
  <1>5. /\ Range(queue) = {first} \cup Range(queue')
        /\ \A m \in Messages : \A input : Of(input, m) =>
                (input \in Range(queue') <=> input \in Range(queue))
        /\ \A m \in Messages : Ends(first, TurnOf[m]) => \A input \in Range(queue) : ~Of(input, m)
    BY <1>1, <1>2, OtherTaken
  <1>6. TextInv'
    <2> SUFFICES ASSUME NEW n \in Messages PROVE TextOf(n)'
      BY DEF TextInv
    <2>1. InHand(n)' = <<>> /\ InHand(n) = <<>>
      BY <1>3 DEF InHand
    <2>2. Keeps(n)
      BY <1>3, <1>5, <2>1 DEF Keeps
    <2> QED
      BY <2>2, TextKept DEF TextInv
  <1>7. StateInv'
    <2> SUFFICES ASSUME NEW n \in Messages PROVE StateOf(n)'
      BY DEF StateInv
    <2>1. PICK t \in Turns : t = TurnOf[n]
      BY MessageAssumption
    <2>2. /\ Tidy(n) \/ Covered(n) \/ n \in unfinished \/ ended[t] = "exited"
          /\ ended[t] = "completed" => Tidy(n) \/ n \in unfinished \/ Pending(t)
      BY <1>3, <2>1 DEF StateInv, StateOf, Completes
    <2>3. Tidy(n)' = Tidy(n)
      BY DEF Tidy
    <2>4. Covered(n) => Covered(n)'
      BY <1>5 DEF Covered
    <2>5. Pending(t) => Pending(t)' \/ Completes(first, t)
      BY <1>5 DEF Pending
    <2>6. Completes(first, t) => Tidy(n) \/ n \in unfinished'
      <3> SUFFICES ASSUME Completes(first, t) PROVE Tidy(n) \/ n \in unfinished'
        OBVIOUS
      <3>1. Ends(first, t) /\ ended[t] = "completed" /\ first.turn = t
        BY <1>2 DEF Completes, Ends, InputOf
      <3>2. Covered(n) => n \in remembered[t]
        BY <1>5, <2>1, <3>1 DEF Covered
      <3> QED
        BY <1>1, <2>2, <3>1, <3>2 DEF Completes
    <2>7. ~Completes(task'.input, t)
      BY DEF Completes
    <2>8. /\ Tidy(n)' \/ Covered(n)' \/ n \in unfinished' \/ ended'[t] = "exited"
          /\ ended'[t] = "completed" => Tidy(n)' \/ n \in unfinished' \/ Pending(t)'
      BY <2>2, <2>3, <2>4, <2>5, <2>6
    <2> QED
      BY <2>1, <2>7, <2>8 DEF StateOf
  <1> QED
    BY <1>4, <1>6, <1>7

LEMMA TakeModeStep ==
    ASSUME IngestionInv, task = Idle, queue # <<>>, Head(queue).type = "mode",
           TakeMode(Head(queue).mode)
    PROVE  IngestionInv'
PROOF
  <1> USE DEF IngestionInv
  <1>1. PICK first : first = Head(queue)
    OBVIOUS
  <1>2. /\ first \in Inputs /\ first.type = "mode" /\ first.mode \in {"buffered", "streaming"}
        /\ first.type \notin AboutMessage
    BY <1>1, QueueHead, InputFields DEF AboutMessage
  <1>3. /\ Begin(first, {}, <<>>, <<>>)
        /\ delivery' = first.mode /\ remembered' = remembered /\ buffer' = buffer
        /\ lost' = lost /\ unfinished' = unfinished /\ overtaken' = overtaken
    BY <1>1 DEF TakeMode, history
  <1>4. /\ said' = said /\ message' = message /\ ended' = ended /\ queue' = Tail(queue)
        /\ task' = Handling(first, {}, <<>>, <<>>)
    BY <1>1, <1>3 DEF Begin, provider
  <1>5. /\ task'.input = first /\ task'.rest = {} /\ task'.fallback = <<>> /\ task'.commands = <<>>
    BY <1>4, TaskTaken
  <1>6. CachesOK
    BY <1>2, <1>3 DEF CachesOK, TypeOK
  <1>7. Fitting(first, {}, <<>>, <<>>)
    <2>1. <<>> \in Chunks /\ <<>> \in Seq(Commands) /\ \A i \in DOMAIN <<>> : FALSE
      BY DEF Chunks
    <2> QED
      BY <1>2, <2>1 DEF Fitting
  <1>8. TypeOK' /\ QueueInv' /\ PendingInv' /\ TaskInv'
    BY <1>1, <1>3, <1>6, <1>7, Begun
  <1>9. FallbackInv' /\ TextInv' /\ StateInv'
    BY <1>1, <1>2, <1>3, <1>4, <1>5, LetGo
  <1> QED
    BY <1>8, <1>9

LEMMA LifecycleFailsStep ==
    ASSUME IngestionInv, LifecycleFails
    PROVE  IngestionInv'
PROOF
  <1> USE DEF IngestionInv
  <1>1. PICK first : first = Head(queue)
    OBVIOUS
  <1>2. /\ task = Idle /\ queue # <<>> /\ first.type \in {"completed", "exited"}
        /\ failures < MaxFailures /\ failures' = failures + 1
        /\ unfinished' = IF first.type = "completed"
                         THEN unfinished \cup remembered[first.turn] ELSE unfinished
        /\ queue' = Tail(queue) /\ outstanding' = outstanding - 1
        /\ said' = said /\ whole' = whole /\ ended' = ended /\ UNCHANGED provider
        /\ task' = task /\ delivery' = delivery /\ remembered' = remembered /\ buffer' = buffer
        /\ message' = message /\ lost' = lost /\ overtaken' = overtaken /\ starts' = starts
    BY <1>1 DEF LifecycleFails, provider
  <1>3. /\ first \in Inputs /\ first.turn \in Turns /\ first.type \notin AboutMessage
        /\ Len(queue') = Len(queue) - 1 /\ Len(queue) \in Nat
    BY <1>1, <1>2, QueueHead, InputFields DEF AboutMessage
  <1>4. QueueInv' /\ PendingInv'
    BY <1>2, QueueTaken, TailPending
  <1>5. TypeOK'
    <2>1. outstanding' = Len(queue') + IF task' = Idle THEN 0 ELSE 1
      BY <1>2, <1>3 DEF TypeOK
    <2>2. unfinished' \subseteq Messages /\ failures' \in 0..MaxFailures
      BY <1>2, <1>3, MessageAssumption DEF TypeOK
    <2> QED
      BY <1>2, <2>1, <2>2 DEF TypeOK, Commands, Chunks
  <1>6. /\ task'.rest = {} /\ task'.commands = <<>> /\ task'.fallback = <<>>
        /\ task'.input.type = "none"
    BY <1>2, HandFields
  <1>7. TaskInv'
    BY <1>2, <1>6 DEF TaskInv, CommandsInv
  <1>8. FallbackInv' /\ TextInv' /\ StateInv'
    BY <1>1, <1>2, <1>3, <1>6, LetGo
  <1> QED
    BY <1>4, <1>5, <1>7, <1>8
-----------------------------------------------------------------------------
(* The worker handles the input in hand.                                   *)

LEMMA FinalizeStep ==
    ASSUME IngestionInv, NEW m \in Messages, Finalize(m)
    PROVE  IngestionInv'
PROOF
  <1> USE DEF IngestionInv
  <1>1. PICK a, c, text :
            a = message[m].text /\ c = buffer[m] /\ text = IF c # <<>> THEN c ELSE task.fallback
    OBVIOUS
  <1>2. PICK commands : commands = IF text = <<>> THEN <<Complete(m)>> ELSE <<Delta(m, text), Complete(m)>>
    OBVIOUS
  <1>3. /\ m \in task.rest /\ task.commands = <<>>
        /\ task' = [task EXCEPT !.rest = task.rest \ {m}, !.commands = commands]
        /\ buffer' = [buffer EXCEPT ![m] = <<>>]
        /\ said' = said /\ whole' = whole /\ ended' = ended /\ queue' = queue
        /\ outstanding' = outstanding /\ delivery' = delivery /\ remembered' = remembered
        /\ message' = message /\ lost' = lost /\ unfinished' = unfinished /\ overtaken' = overtaken
        /\ starts' = starts /\ failures' = failures
    BY <1>1, <1>2 DEF Finalize, provider, history
  <1>4. /\ HandInv /\ task # Idle
        /\ task = Handling(task.input, task.rest, task.fallback, task.commands)
    BY <1>3, HandFields DEF TaskInv
  <1>5. task' = Handling(task.input, task.rest \ {m}, task.fallback, commands)
    BY <1>3, <1>4 DEF Handling
  <1>6. /\ task'.input = task.input /\ task'.rest = task.rest \ {m} /\ task'.fallback = task.fallback
        /\ task'.commands = commands
        /\ task' = Handling(task'.input, task'.rest, task'.fallback, task'.commands)
    BY <1>5, TaskTaken
  <1>7. a \in Chunks /\ c \in Chunks /\ task.fallback \in Chunks /\ text \in Chunks
        /\ <<>> \in Chunks /\ Len(<<>>) = 0
    <2>1. <<>> \in Chunks /\ Len(<<>>) = 0
      BY DEF Chunks
    <2> QED
      BY <1>1, <2>1 DEF TypeOK
  <1>8. /\ commands \in Seq(Commands) /\ commands # <<>>
        /\ \A i \in DOMAIN commands :
            /\ i > 1 => commands[i].text = <<>>
            /\ commands[i].message = m
            /\ commands[i].do = "complete" => commands[i].text = <<>>
        /\ \E j \in DOMAIN commands : commands[j].do = "complete"
        /\ \A i \in DOMAIN commands : commands[i].do = "delta" =>
            \E j \in DOMAIN commands : j > i /\ commands[j].do = "complete"
        /\ Head(commands).message = m /\ Head(commands).text = text
    <2>1. PICK one, two : one = Delta(m, text) /\ two = Complete(m)
      OBVIOUS
    <2>2. /\ one \in Commands /\ one.do = "delta" /\ one.message = m /\ one.text = text
          /\ two \in Commands /\ two.do = "complete" /\ two.message = m /\ two.text = <<>>
      BY <1>7, <2>1 DEF Delta, Complete, Commands
    <2>3. CASE text = <<>>
      <3>1. commands = <<two>>
        BY <1>2, <2>1, <2>3
      <3> QED
        BY <2>2, <2>3, <3>1
    <2>4. CASE text # <<>>
      <3>1. commands = <<one, two>>
        BY <1>2, <2>1, <2>4
      <3>2. /\ commands \in Seq(Commands) /\ DOMAIN commands = {1, 2} /\ Head(commands) = one
            /\ commands[1] = one /\ commands[2] = two /\ commands # <<>>
        BY <2>2, <3>1
      <3> QED
        BY <2>2, <3>2
    <2> QED
      BY <2>3, <2>4
  <1>9. buffer'[m] = <<>> /\ \A n \in Messages \ {m} : buffer'[n] = buffer[n]
    BY <1>3 DEF TypeOK
  <1>10. TypeOK'
    <2>1. buffer' \in [Messages -> Chunks]
      BY <1>3, <1>7 DEF TypeOK
    <2>2. \A n \in Messages : Len(buffer'[n]) <= MaxBuffered
      BY <1>7, <1>9, MessageAssumption DEF TypeOK
    <2>3. task' # Idle
      BY <1>6, <1>8 DEF Idle, Handling
    <2>4. outstanding' = Len(queue') + IF task' = Idle THEN 0 ELSE 1
      BY <1>3, <1>4, <2>3 DEF TypeOK
    <2>5. /\ task'.rest \subseteq Messages /\ task'.fallback \in Chunks /\ task'.commands \in Seq(Commands)
          /\ \A i \in DOMAIN task'.commands : i > 1 => task'.commands[i].text = <<>>
      BY <1>6, <1>7, <1>8 DEF TypeOK
    <2> QED
      BY <1>3, <2>1, <2>2, <2>4, <2>5 DEF TypeOK, Commands, Chunks
  <1>11. QueueInv' /\ PendingInv'
    BY <1>3 DEF QueueInv, PendingInv, InputOf, FullText, Pending
  <1>12. TaskInv'
    <2>1. HandInv'
      <3>1. task.input.type \in AboutMessage => task.rest \ {m} \subseteq {task.input.message}
                /\ \A i \in DOMAIN commands : commands[i].message = task.input.message
        BY <1>3, <1>4, <1>8 DEF HandInv
      <3>2. task.input.type = "completed" =>
                /\ task.rest \ {m} \subseteq remembered[task.input.turn]
                /\ \A i \in DOMAIN commands : commands[i].message \in remembered[task.input.turn]
        BY <1>3, <1>4, <1>8 DEF HandInv
      <3>3. task.input.type \in AboutMessage \cup {"completed"}
        BY <1>3, <1>4 DEF HandInv
      <3> QED
        BY <1>3, <1>4, <1>6, <3>1, <3>2, <3>3 DEF HandInv, Pending
    <2>2. CommandsInv'
      BY <1>6, <1>8, <1>9 DEF CommandsInv, CompletionOf
    <2> QED
      BY <1>6, <2>1, <2>2 DEF TaskInv
  <1>13. FallbackInv'
    <2> SUFFICES ASSUME NEW n \in task.rest \ {m}, task.fallback # <<>> PROVE FALSE
      BY <1>6 DEF FallbackInv
    <2> QED
      BY <1>3 DEF FallbackInv
  <1>14. InHand(m)' = text /\ InHand(m) = <<>>
         /\ \A n \in Messages \ {m} : InHand(n)' = <<>> /\ InHand(n) = <<>>
    BY <1>3, <1>6, <1>8 DEF InHand
  <1>15. TextOf(m)'
    <2>1. TextOf(m)
      BY DEF TextInv
    <2>2. /\ Once(a, <<>>, c) /\ (m \notin overtaken => InOrder(a, <<>>, c))
          /\ Content(m) = Range(a) \cup Range(c) /\ Content(m)' = Range(a) \cup Range(text)
      BY <1>1, <1>3, <1>9, <1>14, <2>1, RangeOfEmpty DEF TextOf, Content
    <2>3. CASE c # <<>>
      <3>1. text = c /\ Content(m)' = Content(m)
        BY <1>1, <2>2, <2>3
      <3>2. Once(a, text, <<>>) /\ (m \notin overtaken => InOrder(a, text, <<>>))
        BY <2>2, <3>1, PartsMoved
      <3>3. ~OnlyWhole(m)
        <4>1. Range(c) # {}
          BY <1>7, <2>3, EmptyRange DEF Chunks
        <4> QED
          BY <2>2, <4>1 DEF OnlyWhole
      <3>4. m \notin lost' => \A k \in 1..said'[m] : k \in Content(m)' \/ InDelta(k, m)'
        BY <1>3, <2>1, <3>1, <3>3 DEF TextOf, InDelta
      <3> QED
        BY <1>1, <1>3, <1>9, <1>14, <2>1, <3>1, <3>2, <3>4 DEF TextOf
    <2>4. CASE c = <<>> /\ task.fallback = <<>>
      <3>1. text = c /\ Content(m)' = Content(m)
        BY <1>1, <2>2, <2>4
      <3>2. Once(a, text, <<>>) /\ (m \notin overtaken => InOrder(a, text, <<>>))
        BY <2>2, <2>4, <3>1
      <3>3. OnlyWhole(m) => OnlyWhole(m)'
        <4>1. <<1>> # <<>>
          OBVIOUS
        <4> QED
          BY <1>3, <2>4, <3>1, <4>1 DEF OnlyWhole
      <3>4. m \notin lost' =>
                OnlyWhole(m)' \/ \A k \in 1..said'[m] : k \in Content(m)' \/ InDelta(k, m)'
        BY <1>3, <2>1, <3>1, <3>3 DEF TextOf, InDelta
      <3> QED
        BY <1>1, <1>3, <1>9, <1>14, <2>1, <3>1, <3>2, <3>4 DEF TextOf
    <2>5. CASE c = <<>> /\ task.fallback # <<>>
      <3>1. /\ text = FullText(m) /\ said[m] > 0 /\ a = <<>>
            /\ \A input \in Range(queue) : ~Of(input, m)
        BY <1>1, <1>3, <2>5 DEF FallbackInv
      <3>2. said[m] \in Nat \ {0}
        BY <3>1 DEF TypeOK
      <3>3. Once(a, text, <<>>) /\ InOrder(a, text, <<>>)
        BY <3>1, <3>2, WholeParts
      <3>4. Content(m)' = 1..said[m]
        BY <2>2, <3>1, <3>2, FullTextFields, RangeOfEmpty
      <3>5. \A input \in Range(queue) : ~DeltaOf(input, m)
        BY <3>1 DEF Of, DeltaOf, AboutMessage
      <3> QED
        BY <1>1, <1>3, <1>9, <1>14, <3>3, <3>4, <3>5 DEF TextOf
    <2> QED
      BY <2>3, <2>4, <2>5
  <1>16. TextInv'
    <2> SUFFICES ASSUME NEW n \in Messages, n # m PROVE TextOf(n)'
      BY <1>15 DEF TextInv
    <2>1. Keeps(n)
      BY <1>3, <1>6, <1>9, <1>14 DEF Keeps
    <2> QED
      BY <2>1, TextKept DEF TextInv
  <1>17. StateInv'
    <2> SUFFICES ASSUME NEW n \in Messages PROVE StateOf(n)'
      BY DEF StateInv
    <2>1. StateOf(n)
      BY DEF StateInv
    <2>2. Tidy(n) => Tidy(n)'
      BY <1>3, <1>9 DEF Tidy
    <2>3. Completing(n) => Completing(n)'
      <3>1. CASE n = m
        BY <1>6, <1>8, <1>9, <3>1 DEF Completing
      <3>2. CASE n # m
        <4>1. Completing(n) => n \in task.rest
          BY <1>3 DEF Completing
        <4> QED
          BY <1>6, <3>2, <4>1 DEF Completing
      <3> QED
        BY <3>1, <3>2
    <2>4. Covered(n)' = Covered(n) /\ Pending(TurnOf[n])' = Pending(TurnOf[n])
      BY <1>3 DEF Covered, Pending
    <2> QED
      BY <1>3, <1>6, <2>1, <2>2, <2>3, <2>4 DEF StateOf
  <1> QED
    BY <1>10, <1>11, <1>12, <1>13, <1>16, <1>17

LEMMA DispatchStep ==
    ASSUME IngestionInv, Dispatch
    PROVE  IngestionInv'
PROOF
  <1> USE DEF IngestionInv
  <1>1. PICK commands, command, m : commands = task.commands /\ command = Head(commands) /\ m = command.message
    OBVIOUS
  <1>2. /\ commands # <<>> /\ commands \in Seq(Commands) /\ command \in Commands
        /\ Tail(commands) \in Seq(Commands) /\ 1 \in DOMAIN commands /\ commands[1] = command
        /\ \A i \in DOMAIN commands : i = 1 \/ (i - 1 \in DOMAIN Tail(commands)
                                                  /\ Tail(commands)[i - 1] = commands[i])
        /\ \A i \in DOMAIN Tail(commands) :
                i + 1 \in DOMAIN commands /\ i + 1 > 1 /\ Tail(commands)[i] = commands[i + 1]
        /\ \A i, j \in DOMAIN commands : j > i => j > 1
        /\ \A i \in DOMAIN Tail(commands), j \in DOMAIN commands : j > i + 1 => j - 1 > i
    <2>1. commands # <<>> /\ commands \in Seq(Commands)
      BY <1>1 DEF Dispatch, TypeOK
    <2>2. /\ Len(commands) \in Nat \ {0} /\ DOMAIN commands = 1..Len(commands)
          /\ DOMAIN Tail(commands) = 1..(Len(commands) - 1) /\ Tail(commands) \in Seq(Commands)
          /\ \A i \in DOMAIN Tail(commands) : Tail(commands)[i] = commands[i + 1]
          /\ command = commands[1]
          /\ \A i \in DOMAIN commands : commands[i] \in Commands
      BY <1>1, <2>1
    <2>3. \A i \in DOMAIN commands : i = 1 \/ (i - 1 \in DOMAIN Tail(commands)
                                                  /\ Tail(commands)[i - 1] = commands[i])
      <3> SUFFICES ASSUME NEW i \in DOMAIN commands, i # 1
                   PROVE  i - 1 \in DOMAIN Tail(commands) /\ Tail(commands)[i - 1] = commands[i]
        OBVIOUS
      <3>1. i - 1 \in DOMAIN Tail(commands) /\ (i - 1) + 1 = i
        BY <2>2
      <3> QED
        BY <2>2, <3>1
    <2>4. \A i \in DOMAIN Tail(commands) :
                i + 1 \in DOMAIN commands /\ i + 1 > 1 /\ Tail(commands)[i] = commands[i + 1]
      BY <2>2
    <2>5. /\ \A i, j \in DOMAIN commands : j > i => j > 1
          /\ \A i \in DOMAIN Tail(commands), j \in DOMAIN commands : j > i + 1 => j - 1 > i
          /\ 1 \in DOMAIN commands
      BY <2>2
    <2> QED
      BY <2>1, <2>2, <2>3, <2>4, <2>5
  <1>3. PICK rest : rest = Tail(commands)
    OBVIOUS
  <1>4. /\ m \in Messages /\ command.text \in Chunks /\ command.do \in {"delta", "complete"}
    BY <1>1, <1>2 DEF Commands
  <1>5. PICK new : new = [text |-> message[m].text \o command.text,
                          state |-> IF command.do = "delta" THEN "streaming" ELSE "done"]
    OBVIOUS
  <1>6. /\ message' = [message EXCEPT ![m] = new]
        /\ task' = [task EXCEPT !.commands = rest]
        /\ said' = said /\ whole' = whole /\ ended' = ended /\ queue' = queue
        /\ outstanding' = outstanding /\ delivery' = delivery /\ remembered' = remembered
        /\ buffer' = buffer /\ lost' = lost /\ unfinished' = unfinished /\ overtaken' = overtaken
        /\ starts' = starts /\ failures' = failures
    BY <1>1, <1>3, <1>5 DEF Dispatch, provider, history
  <1>7. /\ HandInv /\ task # Idle /\ CommandsInv /\ task.input \in Inputs
        /\ task = Handling(task.input, task.rest, task.fallback, task.commands)
    BY <1>1, <1>2, HandFields DEF TaskInv
  <1>8. task' = Handling(task.input, task.rest, task.fallback, rest)
    BY <1>6, <1>7 DEF Handling
  <1>9. /\ task'.input = task.input /\ task'.rest = task.rest /\ task'.fallback = task.fallback
        /\ task'.commands = rest
        /\ task' = Handling(task'.input, task'.rest, task'.fallback, task'.commands)
    BY <1>8, TaskTaken
  <1>10. PICK a, b, c : a = message[m].text /\ b = InHand(m) /\ c = buffer[m]
    OBVIOUS
  <1>11. a \in Chunks /\ b = command.text /\ b \in Chunks
    BY <1>1, <1>2, <1>4, <1>10 DEF InHand, TypeOK
  <1>12. PICK text : text = a \o b
    OBVIOUS
  <1>13. /\ Once(a, b, c) => Once(text, <<>>, c)
         /\ InOrder(a, b, c) => InOrder(text, <<>>, c)
         /\ Range(text) = Range(a) \cup Range(b) /\ text \in Chunks
    BY <1>11, <1>12, PartsDelivered
  <1>14. /\ new.text = text /\ new.state = (IF command.do = "delta" THEN "streaming" ELSE "done")
         /\ new \in [text : Chunks, state : {"absent", "streaming", "done"}]
    BY <1>5, <1>10, <1>11, <1>12, <1>13
  <1>15. message'[m] = new /\ \A n \in Messages \ {m} : message'[n] = message[n]
    BY <1>4, <1>6 DEF TypeOK
  <1>16. task.input.type \in AboutMessage \cup {"completed"} /\ task.input.type # "none" /\ task' # Idle
    <2>1. task.input.type \in AboutMessage \cup {"completed"}
      BY <1>1, <1>2, <1>7 DEF HandInv
    <2> QED
      BY <1>9, <2>1 DEF AboutMessage, Idle, Handling
  <1>17. \A i \in DOMAIN rest : rest[i].text = <<>>
    BY <1>1, <1>2, <1>3 DEF TypeOK
  <1>18. TypeOK'
    <2>1. message' \in [Messages -> [text : Chunks, state : {"absent", "streaming", "done"}]]
      BY <1>4, <1>6, <1>14 DEF TypeOK
    <2>2. outstanding' = Len(queue') + IF task' = Idle THEN 0 ELSE 1
      BY <1>6, <1>7, <1>16 DEF TypeOK
    <2>3. /\ task'.rest \subseteq Messages /\ task'.fallback \in Chunks /\ task'.commands \in Seq(Commands)
          /\ \A i \in DOMAIN task'.commands : i > 1 => task'.commands[i].text = <<>>
      BY <1>2, <1>3, <1>9, <1>17 DEF TypeOK
    <2> QED
      BY <1>6, <2>1, <2>2, <2>3 DEF TypeOK, Commands, Chunks
  <1>19. QueueInv' /\ PendingInv'
    BY <1>6 DEF QueueInv, PendingInv, InputOf, FullText, Pending
  <1>20. TaskInv'
    <2>1. HandInv'
      <3>1. task.input.type \in AboutMessage => \A i \in DOMAIN rest : rest[i].message = task.input.message
        BY <1>1, <1>2, <1>3, <1>7 DEF HandInv
      <3>2. task.input.type = "completed" =>
                \A i \in DOMAIN rest : rest[i].message \in remembered[task.input.turn]
        BY <1>1, <1>2, <1>3, <1>7 DEF HandInv
      <3> QED
        BY <1>6, <1>7, <1>9, <1>16, <3>1, <3>2 DEF HandInv, Pending
    <2>2. CommandsInv'
      <3> SUFFICES ASSUME NEW i \in DOMAIN rest
                   PROVE  /\ rest[i].do = "complete" =>
                                rest[i].text = <<>> /\ buffer[rest[i].message] = <<>>
                          /\ rest[i].do = "delta" /\ task.input.type # "delta" =>
                                \E j \in DOMAIN rest : j > i /\ rest[j].do = "complete"
                                                        /\ rest[j].message = rest[i].message
        BY <1>6, <1>9 DEF CommandsInv, CompletionOf
      <3>1. i + 1 \in DOMAIN commands /\ rest[i] = commands[i + 1]
        BY <1>2, <1>3
      <3>2. ASSUME rest[i].do = "delta", task.input.type # "delta"
            PROVE  \E j \in DOMAIN rest : j > i /\ rest[j].do = "complete"
                                           /\ rest[j].message = rest[i].message
        <4>1. PICK j \in DOMAIN commands : j > i + 1 /\ commands[j].do = "complete"
                                            /\ commands[j].message = commands[i + 1].message
          BY <1>1, <1>7, <3>1, <3>2 DEF CommandsInv, CompletionOf
        <4>2. i + 1 > 1 /\ j > 1
          BY <1>2, <1>3, <3>1, <4>1
        <4>3. j - 1 \in DOMAIN rest /\ rest[j - 1] = commands[j] /\ j - 1 > i
          BY <1>2, <1>3, <4>1, <4>2
        <4> QED
          BY <3>1, <4>1, <4>3
      <3> QED
        BY <1>1, <1>7, <3>1, <3>2 DEF CommandsInv
    <2> QED
      BY <1>9, <2>1, <2>2 DEF TaskInv
  <1>21. FallbackInv'
    <2> SUFFICES ASSUME NEW n \in task.rest, task.fallback # <<>> PROVE FALSE
      BY <1>9 DEF FallbackInv
    <2> QED
      BY <1>1, <1>2 DEF FallbackInv
  <1>22. \A n \in Messages : InHand(n)' = <<>>
    <2>1. rest # <<>> => Head(rest).text = <<>>
      <3>1. rest # <<>> => 1 \in DOMAIN rest /\ Head(rest) = rest[1]
        BY <1>2, <1>3
      <3> QED
        BY <1>17, <3>1
    <2> QED
      BY <1>9, <2>1 DEF InHand
  <1>23. TextOf(m)'
    <2>1. TextOf(m)
      BY <1>4 DEF TextInv
    <2>2. Content(m)' = Content(m)
      <3>1. message'[m].text = text /\ InHand(m)' = <<>> /\ buffer'[m] = c
        BY <1>4, <1>6, <1>10, <1>14, <1>15, <1>22
      <3>2. Content(m)' = Range(text) \cup Range(<<>>) \cup Range(c)
        BY <3>1 DEF Content
      <3>3. Content(m) = Range(a) \cup Range(b) \cup Range(c)
        BY <1>10 DEF Content
      <3> QED
        BY <1>13, <3>2, <3>3, RangeOfEmpty
    <2>3. Once(text, <<>>, c) /\ (m \notin overtaken => InOrder(text, <<>>, c))
      BY <1>10, <1>13, <2>1 DEF TextOf
    <2>4. OnlyWhole(m) => OnlyWhole(m)'
      BY <1>6, <1>9, <2>2 DEF OnlyWhole
    <2>5. m \notin lost' =>
            OnlyWhole(m)' \/ \A k \in 1..said'[m] : k \in Content(m)' \/ InDelta(k, m)'
      BY <1>6, <2>1, <2>2, <2>4 DEF TextOf, InDelta
    <2>6. message'[m].text = text /\ buffer'[m] = c /\ InHand(m)' = <<>>
      BY <1>4, <1>6, <1>10, <1>14, <1>15, <1>22
    <2> QED
      BY <1>6, <2>1, <2>2, <2>3, <2>5, <2>6 DEF TextOf
  <1>24. TextInv'
    <2> SUFFICES ASSUME NEW n \in Messages, n # m PROVE TextOf(n)'
      BY <1>23 DEF TextInv
    <2>1. InHand(n) = <<>> /\ InHand(n)' = <<>>
      BY <1>1, <1>22 DEF InHand
    <2>2. Keeps(n)
      BY <1>6, <1>9, <1>15, <2>1 DEF Keeps
    <2> QED
      BY <2>2, TextKept DEF TextInv
  <1>25. StateInv'
    <2> SUFFICES ASSUME NEW n \in Messages PROVE StateOf(n)'
      BY DEF StateInv
    <2>1. StateOf(n)
      BY DEF StateInv
    <2>2. Covered(n)' = Covered(n) /\ Pending(TurnOf[n])' = Pending(TurnOf[n])
      BY <1>6 DEF Covered, Pending
    <2>3. CASE n # m
      <3>1. Tidy(n)' = Tidy(n)
        BY <1>6, <1>15, <2>3 DEF Tidy
      <3>2. Completing(n) => Completing(n)'
        <4>1. CASE n \in task.rest
          BY <1>9, <4>1 DEF Completing
        <4>2. CASE /\ buffer[n] = <<>>
                   /\ \E i \in DOMAIN commands : commands[i].do = "complete" /\ commands[i].message = n
          <5>1. PICK i \in DOMAIN commands : commands[i].do = "complete" /\ commands[i].message = n
            BY <4>2
          <5>2. i - 1 \in DOMAIN rest /\ rest[i - 1] = commands[i]
            BY <1>1, <1>2, <1>3, <2>3, <5>1
          <5> QED
            BY <1>6, <1>9, <4>2, <5>1, <5>2 DEF Completing
        <4> QED
          BY <1>1, <4>1, <4>2 DEF Completing
      <3> QED
        BY <1>6, <1>9, <2>1, <2>2, <3>1, <3>2 DEF StateOf
    <2>4. CASE n = m /\ command.do = "complete"
      <3>1. buffer[n] = <<>>
        BY <1>1, <1>2, <1>7, <2>4 DEF CommandsInv
      <3>2. Tidy(n)'
        BY <1>6, <1>14, <1>15, <2>4, <3>1 DEF Tidy
      <3> QED
        BY <3>2 DEF StateOf
    <2>5. CASE n = m /\ command.do = "delta"
      <3>1. n \in remembered[TurnOf[n]] /\ TurnOf[n] \in Turns
        <4>1. CASE task.input.type \in AboutMessage
          BY <1>1, <1>2, <1>7, <2>5, <4>1, MessageAssumption DEF HandInv
        <4>2. CASE task.input.type = "completed"
          <5>1. n \in remembered[task.input.turn] /\ task.input.turn \in Turns
            BY <1>1, <1>2, <1>7, <2>5, <4>2, InputFields DEF HandInv
          <5>2. TurnOf[n] = task.input.turn
            BY <5>1 DEF TypeOK, MessagesOf
          <5> QED
            BY <5>1, <5>2
        <4> QED
          BY <1>16, <4>1, <4>2
      <3>2. Covered(n)'
        BY <1>6, <3>1 DEF Covered
      <3>3. task.input.type # "delta" => Completing(n)'
        <4> SUFFICES ASSUME task.input.type # "delta" PROVE Completing(n)'
          OBVIOUS
        <4>1. PICK j \in DOMAIN commands : j > 1 /\ commands[j].do = "complete" /\ commands[j].message = n
          BY <1>1, <1>2, <1>7, <2>5 DEF CommandsInv, CompletionOf
        <4>2. buffer[n] = <<>>
          BY <1>1, <1>7, <4>1 DEF CommandsInv
        <4>3. j - 1 \in DOMAIN rest /\ rest[j - 1] = commands[j]
          BY <1>2, <1>3, <4>1
        <4> QED
          BY <1>6, <1>9, <4>1, <4>2, <4>3 DEF Completing
      <3>4. ended[TurnOf[n]] = "completed" =>
                Pending(TurnOf[n]) \/ Completes(task.input, TurnOf[n])
        <4>1. CASE task.input.type \in AboutMessage
          <5>1. task.input.message = n /\ task.input.turn = TurnOf[n]
            BY <1>1, <1>2, <1>7, <2>5, <4>1 DEF HandInv
          <5> QED
            BY <1>7, <4>1, <5>1 DEF HandInv
        <4>2. CASE task.input.type = "completed"
          <5>1. n \in remembered[task.input.turn] /\ task.input.turn \in Turns
            BY <1>1, <1>2, <1>7, <2>5, <4>2, InputFields DEF HandInv
          <5>2. TurnOf[n] = task.input.turn
            BY <5>1 DEF TypeOK, MessagesOf
          <5> QED
            BY <4>2, <5>2 DEF Completes
        <4> QED
          BY <1>16, <4>1, <4>2
      <3>5. Completes(task.input, TurnOf[n]) => task.input.type # "delta"
        BY DEF Completes
      <3> QED
        BY <1>6, <1>9, <2>2, <3>2, <3>3, <3>4, <3>5 DEF StateOf
    <2> QED
      BY <1>4, <2>3, <2>4, <2>5
  <1> QED
    BY <1>18, <1>19, <1>20, <1>21, <1>24, <1>25
LEMMA DispatchFailsStep ==
    ASSUME IngestionInv, DispatchFails
    PROVE  IngestionInv'
PROOF
  <1> USE DEF IngestionInv
  <1>1. PICK commands : commands = task.commands
    OBVIOUS
  <1>2. PICK deltas, left :
            /\ deltas = {commands[i].message : i \in {j \in DOMAIN commands : commands[j].do = "delta"}}
            /\ left = task.rest \cup {commands[i].message : i \in DOMAIN commands}
    OBVIOUS
  <1>3. /\ commands # <<>> /\ failures < MaxFailures /\ failures' = failures + 1
        /\ lost' = lost \cup deltas
        /\ unfinished' = IF task.input.type = "completed" THEN unfinished \cup left ELSE unfinished
        /\ task' = Idle /\ outstanding' = outstanding - 1
        /\ said' = said /\ whole' = whole /\ ended' = ended /\ queue' = queue
        /\ delivery' = delivery /\ remembered' = remembered /\ buffer' = buffer
        /\ message' = message /\ overtaken' = overtaken /\ starts' = starts
    BY <1>1, <1>2 DEF DispatchFails, provider
  <1>4. commands \in Seq(Commands) /\ 1 \in DOMAIN commands /\ Head(commands) = commands[1]
        /\ \A i \in DOMAIN commands : commands[i] \in Commands /\ commands[i].message \in Messages
                /\ commands[i].do \in {"delta", "complete"}
    <2>1. commands \in Seq(Commands)
      BY <1>1 DEF TypeOK
    <2>2. 1 \in DOMAIN commands /\ Head(commands) = commands[1]
          /\ \A i \in DOMAIN commands : commands[i] \in Commands
      BY <1>3, <2>1
    <2> QED
      BY <2>1, <2>2 DEF Commands
  <1>5. task # Idle /\ HandInv /\ CommandsInv
    BY <1>1, <1>3, HandFields DEF TaskInv
  <1>6. /\ task'.rest = {} /\ task'.commands = <<>> /\ task'.fallback = <<>>
        /\ task'.input.type = "none" /\ task' = Handling(task'.input, task'.rest, task'.fallback, task'.commands)
    BY <1>3 DEF Idle, Handling
  <1>7. TypeOK'
    <2>1. outstanding' = Len(queue') + IF task' = Idle THEN 0 ELSE 1
      <3>1. Len(queue) \in Nat
        BY DEF QueueInv
      <3> QED
        BY <1>3, <1>5, <3>1 DEF TypeOK
    <2>2. lost' \subseteq Messages /\ unfinished' \subseteq Messages
      BY <1>2, <1>3, <1>4 DEF TypeOK
    <2>3. failures' \in 0..MaxFailures
      BY <1>3, MessageAssumption DEF TypeOK
    <2>4. /\ task'.rest \subseteq Messages /\ task'.fallback \in Chunks /\ task'.commands \in Seq(Commands)
          /\ \A i \in DOMAIN task'.commands : i > 1 => task'.commands[i].text = <<>>
      <3>1. <<>> \in Chunks /\ <<>> \in Seq(Commands) /\ \A i \in DOMAIN <<>> : FALSE
        BY DEF Chunks
      <3> QED
        BY <1>6, <3>1
    <2> QED
      BY <1>3, <2>1, <2>2, <2>3, <2>4 DEF TypeOK, Commands, Chunks
  <1>8. QueueInv' /\ PendingInv'
    BY <1>3 DEF QueueInv, PendingInv, InputOf, FullText, Pending
  <1>9. TaskInv' /\ FallbackInv'
    BY <1>3, <1>6 DEF TaskInv, CommandsInv, FallbackInv
  <1>10. TextInv'
    <2> SUFFICES ASSUME NEW n \in Messages PROVE TextOf(n)'
      BY DEF TextInv
    <2>1. InHand(n)' = <<>>
      BY <1>6 DEF InHand
    <2>2. n \notin lost' => InHand(n) = <<>>
      <3> SUFFICES ASSUME n \notin lost', Head(commands).message = n PROVE Head(commands).text = <<>>
        BY <1>1 DEF InHand
      <3>1. commands[1].do # "delta"
        BY <1>2, <1>3, <1>4
      <3>2. commands[1].do = "complete"
        BY <1>4, <3>1
      <3> QED
        BY <1>1, <1>4, <1>5, <3>2 DEF CommandsInv
    <2>3. ~(n \in task.rest /\ task.fallback = <<1>>)
      <3>1. <<1>> # <<>>
        OBVIOUS
      <3> QED
        BY <1>1, <1>3, <3>1 DEF FallbackInv
    <2>4. Keeps(n)
      BY <1>3, <2>1, <2>2, <2>3 DEF Keeps
    <2> QED
      BY <2>4, TextKept DEF TextInv
  <1>11. StateInv'
    <2> SUFFICES ASSUME NEW n \in Messages PROVE StateOf(n)'
      BY DEF StateInv
    <2>1. StateOf(n)
      BY DEF StateInv
    <2>2. /\ Covered(n)' = Covered(n) /\ Pending(TurnOf[n])' = Pending(TurnOf[n])
          /\ Tidy(n)' = Tidy(n)
      BY <1>3 DEF Covered, Pending, Tidy
    <2>3. Completing(n) => n \in left
      BY <1>1, <1>2 DEF Completing
    <2>4. Completes(task.input, TurnOf[n]) => Tidy(n) \/ n \in unfinished'
      BY <1>3, <2>1, <2>3 DEF StateOf, Completes
    <2>5. n \in unfinished => n \in unfinished'
      BY <1>3
    <2>6. ~Completes(task'.input, TurnOf[n])
      BY <1>6 DEF Completes
    <2> QED
      BY <1>3, <1>6, <2>1, <2>2, <2>4, <2>5, <2>6 DEF StateOf
  <1> QED
    BY <1>7, <1>8, <1>9, <1>10, <1>11

LEMMA DoneStep ==
    ASSUME IngestionInv, Done
    PROVE  IngestionInv'
PROOF
  <1> USE DEF IngestionInv
  <1>1. PICK input : input = task.input
    OBVIOUS
  <1>2. /\ task # Idle /\ task.rest = {} /\ task.commands = <<>>
        /\ task' = Idle /\ outstanding' = outstanding - 1
        /\ said' = said /\ whole' = whole /\ ended' = ended /\ queue' = queue
        /\ delivery' = delivery /\ buffer' = buffer /\ message' = message
        /\ lost' = lost /\ unfinished' = unfinished /\ overtaken' = overtaken
        /\ starts' = starts /\ failures' = failures
    BY DEF Done, provider, history
  <1>3. HandInv /\ input \in Inputs
    BY <1>1, <1>2, HandFields
  <1>4. /\ input.type = "item" =>
            /\ remembered' = [remembered EXCEPT ![input.turn] = remembered[input.turn] \ {input.message}]
            /\ input.turn \in Turns
        /\ input.type = "completed" =>
            remembered' = [remembered EXCEPT ![input.turn] = {}] /\ input.turn \in Turns
        /\ input.type \notin {"item", "completed"} => remembered' = remembered
    <2>1. input.type \in {"item", "completed"} => input.turn \in Turns
      BY <1>3, InputFields DEF AboutMessage
    <2> QED
      BY <1>1, <2>1 DEF Done
  <1>5. /\ remembered \in [Turns -> SUBSET Messages]
        /\ \A t \in Turns : remembered[t] \subseteq MessagesOf(t)
    BY DEF TypeOK
  <1>6. /\ remembered' \in [Turns -> SUBSET Messages]
        /\ \A t \in Turns : remembered'[t] \subseteq remembered[t]
        /\ \A t \in Turns : \A n \in remembered[t] : n \in remembered'[t]
                \/ (input.type = "item" /\ input.message = n)
                \/ Completes(input, t)
    <2>1. CASE input.type = "item"
      BY <1>4, <1>5, <2>1
    <2>2. CASE input.type = "completed"
      BY <1>4, <1>5, <2>2 DEF Completes
    <2>3. CASE input.type \notin {"item", "completed"}
      BY <1>4, <1>5, <2>3
    <2> QED
      BY <2>1, <2>2, <2>3
  <1>7. /\ task'.rest = {} /\ task'.commands = <<>> /\ task'.fallback = <<>>
        /\ task'.input.type = "none" /\ task' = Handling(task'.input, task'.rest, task'.fallback, task'.commands)
    BY <1>2 DEF Idle, Handling
  <1>8. TypeOK'
    <2>1. outstanding' = Len(queue') + IF task' = Idle THEN 0 ELSE 1
      <3>1. Len(queue) \in Nat
        BY DEF QueueInv
      <3> QED
        BY <1>2, <3>1 DEF TypeOK
    <2>2. \A t \in Turns : remembered'[t] \subseteq MessagesOf(t)
      BY <1>5, <1>6
    <2>3. /\ task'.rest \subseteq Messages /\ task'.fallback \in Chunks /\ task'.commands \in Seq(Commands)
          /\ \A i \in DOMAIN task'.commands : i > 1 => task'.commands[i].text = <<>>
      <3>1. <<>> \in Chunks /\ <<>> \in Seq(Commands) /\ \A i \in DOMAIN <<>> : FALSE
        BY DEF Chunks
      <3> QED
        BY <1>7, <3>1
    <2> QED
      BY <1>2, <1>6, <2>1, <2>2, <2>3 DEF TypeOK, Commands, Chunks
  <1>9. QueueInv' /\ PendingInv'
    BY <1>2 DEF QueueInv, PendingInv, InputOf, FullText, Pending
  <1>10. TaskInv' /\ FallbackInv'
    BY <1>2, <1>7 DEF TaskInv, CommandsInv, FallbackInv
  <1>11. TextInv'
    <2> SUFFICES ASSUME NEW n \in Messages PROVE TextOf(n)'
      BY DEF TextInv
    <2>1. InHand(n)' = <<>> /\ InHand(n) = <<>>
      BY <1>2, <1>7 DEF InHand
    <2>2. Keeps(n)
      BY <1>2, <2>1 DEF Keeps
    <2> QED
      BY <2>2, TextKept DEF TextInv
  <1>12. StateInv'
    <2> SUFFICES ASSUME NEW n \in Messages PROVE StateOf(n)'
      BY DEF StateInv
    <2>1. PICK t \in Turns : t = TurnOf[n]
      BY MessageAssumption
    <2>2. ~Completing(n)
      BY <1>2 DEF Completing
    <2>3. /\ Tidy(n) \/ Covered(n) \/ n \in unfinished \/ ended[t] = "exited"
          /\ ended[t] = "completed" =>
                Tidy(n) \/ n \in unfinished \/ Pending(t) \/ Completes(input, t)
          /\ Completes(input, t) => Tidy(n) \/ n \in unfinished
          /\ input.type = "item" /\ input.message = n => Tidy(n)
      BY <1>1, <2>1, <2>2 DEF StateInv, StateOf
    <2>4. Pending(t)' = Pending(t) /\ Tidy(n)' = Tidy(n)
      BY <1>2 DEF Pending, Tidy
    <2>5. Covered(n) => Covered(n)' \/ Tidy(n) \/ n \in unfinished
      <3>1. CASE n \in remembered[t]
        BY <1>6, <2>1, <2>3, <3>1 DEF Covered
      <3>2. CASE \E other \in Range(queue) : Of(other, n)
        BY <1>2, <3>2 DEF Covered
      <3> QED
        BY <2>1, <3>1, <3>2 DEF Covered
    <2>6. ~Completes(task'.input, t) /\ task'.input.type # "item"
      BY <1>7 DEF Completes
    <2> QED
      BY <1>2, <2>1, <2>3, <2>4, <2>5, <2>6 DEF StateOf
  <1> QED
    BY <1>8, <1>9, <1>10, <1>11, <1>12

-----------------------------------------------------------------------------
LEMMA StutterStep ==
    ASSUME IngestionInv, UNCHANGED vars
    PROVE  IngestionInv'
PROOF
  <1>1. /\ said' = said /\ whole' = whole /\ ended' = ended /\ queue' = queue
        /\ outstanding' = outstanding /\ task' = task /\ delivery' = delivery
        /\ remembered' = remembered /\ buffer' = buffer /\ message' = message
        /\ lost' = lost /\ unfinished' = unfinished /\ overtaken' = overtaken
        /\ starts' = starts /\ failures' = failures
    BY DEF vars, provider, worker, history
  <1>2. TypeOK'
    BY <1>1 DEF IngestionInv, TypeOK, Commands, Chunks
  <1>3. QueueInv' /\ PendingInv'
    BY <1>1 DEF IngestionInv, QueueInv, PendingInv, InputOf, FullText, Pending
  <1>4. TaskInv' /\ FallbackInv'
    BY <1>1 DEF IngestionInv, TaskInv, HandInv, CommandsInv, CompletionOf, FallbackInv, Pending,
      FullText
  <1>5. TextInv'
    <2> SUFFICES ASSUME NEW m \in Messages PROVE TextOf(m)'
      BY DEF TextInv
    <2>1. InHand(m)' = InHand(m)
      BY <1>1 DEF InHand
    <2>2. Keeps(m)
      BY <1>1, <2>1 DEF Keeps
    <2> QED
      BY <2>2, TextKept DEF IngestionInv, TextInv
  <1>6. StateInv'
    BY <1>1 DEF IngestionInv, StateInv, StateOf, Tidy, Covered, Completing, Pending
  <1> QED
    BY <1>2, <1>3, <1>4, <1>5, <1>6 DEF IngestionInv

LEMMA TakeStep ==
    ASSUME IngestionInv, Take
    PROVE  IngestionInv'
BY TakeDeltaStep, TakeCompletionStep, TakeTurnCompletedStep, TakeExitStep, TakeModeStep DEF Take

(* The inductive invariant holds in every state.                           *)
LEMMA IngestionStep ==
    ASSUME IngestionInv, [Next]_vars
    PROVE  IngestionInv'
PROOF
  <1>1. ASSUME Provider PROVE IngestionInv'
    <2>1. ASSUME NEW m \in Messages, Say(m) PROVE IngestionInv'
      BY <2>1, SayFits
    <2>2. ASSUME NEW m \in Messages, Finish(m, <<>>) \/ Finish(m, FullText(m)) PROVE IngestionInv'
      BY <2>2, FinishFits
    <2>3. ASSUME NEW t \in Turns, EndTurn(t, "completed") \/ EndTurn(t, "exited") PROVE IngestionInv'
      BY <2>3, EndTurnFits
    <2>4. ASSUME NEW mode \in {"buffered", "streaming"}, StartTurn(mode) PROVE IngestionInv'
      BY <2>4, StartTurnFits
    <2> QED
      BY <1>1, <2>1, <2>2, <2>3, <2>4 DEF Provider
  <1>2. ASSUME Worker PROVE IngestionInv'
    BY <1>2, TakeStep, LifecycleFailsStep, FinalizeStep, DispatchStep, DispatchFailsStep,
      DoneStep DEF Worker
  <1>3. CASE UNCHANGED vars
    BY <1>3, StutterStep
  <1> QED
    BY <1>1, <1>2, <1>3 DEF Next

THEOREM IngestionInvariant == Spec => []IngestionInv
PROOF
  <1>1. Init => IngestionInv
    BY InitialIngestion
  <1>2. IngestionInv /\ [Next]_vars => IngestionInv'
    BY IngestionStep
  <1> QED
    BY <1>1, <1>2, PTL DEF Spec

(* The state of ingestion has the declared shape, and the worker's counter *)
(* of outstanding inputs is the length of its queue and the input in hand: *)
(* it is zero exactly when there is nothing to do (makeDrainableWorker).   *)
THEOREM IngestionTypeCorrect == Spec => []TypeOK
PROOF
  <1>1. IngestionInv => TypeOK
    BY DEF IngestionInv
  <1> QED
    BY <1>1, IngestionInvariant, PTL

LEMMA TextConserved == IngestionInv => TextIsConserved
PROOF
  <1> SUFFICES ASSUME IngestionInv, NEW m \in Messages
               PROVE  /\ IsInjective(Kept(m))
                      /\ m \notin lost => 1..said[m] \subseteq Range(Kept(m)) \cup Waiting(m)
                      /\ m \notin overtaken =>
                            \A i, j \in DOMAIN Kept(m) : i < j => Kept(m)[i] < Kept(m)[j]
    BY DEF TextIsConserved
  <1> USE DEF IngestionInv
  <1>1. PICK a, b, c : a = message[m].text /\ b = InHand(m) /\ c = buffer[m]
    OBVIOUS
  <1>2. a \in Chunks /\ b \in Chunks /\ c \in Chunks
    <2>1. a \in Chunks /\ c \in Chunks
      BY <1>1 DEF TypeOK
    <2>2. <<>> \in Chunks
      BY DEF Chunks
    <2>3. task.commands # <<>> => Head(task.commands) \in Commands
      BY DEF TypeOK
    <2>4. task.commands # <<>> => Head(task.commands).text \in Chunks
      BY <2>3 DEF Commands
    <2> QED
      BY <1>1, <2>1, <2>2, <2>4 DEF InHand
  <1>3. a \in Seq(Nat) /\ b \in Seq(Nat) /\ c \in Seq(Nat)
    BY <1>2, ChunksAreNumbers
  <1>4. Once(a, b, c) /\ (m \notin overtaken => InOrder(a, b, c))
    BY <1>1 DEF TextInv, TextOf
  <1>5. PICK ab : ab = a \o b
    OBVIOUS
  <1>6. /\ Once(ab, <<>>, c) /\ (m \notin overtaken => InOrder(ab, <<>>, c))
        /\ Range(ab) = Range(a) \cup Range(b) /\ ab \in Chunks
    BY <1>2, <1>4, <1>5, PartsDelivered
  <1>7. ab \in Seq(Nat)
    BY <1>6, ChunksAreNumbers
  <1>8. PICK all : all = ab \o c
    OBVIOUS
  <1>9. /\ IsInjective(all) /\ (m \notin overtaken => Rises(all))
        /\ Range(all) = Content(m)
    <2>1. IsInjective(all)
      BY <1>3, <1>6, <1>7, <1>8, ConcatInjective DEF Once
    <2>2. m \notin overtaken => Rises(all)
      BY <1>3, <1>6, <1>7, <1>8, ConcatRises DEF InOrder
    <2>3. Range(all) = Range(ab) \cup Range(c)
      BY <1>3, <1>7, <1>8, ConcatRange
    <2> QED
      BY <1>1, <1>6, <2>1, <2>2, <2>3 DEF Content
  <1>10. Kept(m) = all
    BY <1>1, <1>5, <1>8 DEF Kept
  <1>11. ASSUME m \notin lost, NEW k \in 1..said[m], k \notin Content(m)
         PROVE  k \in Waiting(m)
    <2>1. OnlyWhole(m) \/ InDelta(k, m)
      BY <1>11 DEF TextInv, TextOf
    <2>2. ASSUME NEW input \in Range(queue), Of(input, m), input.text = <<k>>
          PROVE  k \in Waiting(m)
      <3>1. PICK i \in DOMAIN queue : queue[i] = input
        BY <2>2 DEF Range
      <3>2. k \in Range(queue[i].text)
        BY <2>2, <3>1, RangeOfOne
      <3>3. queue[i].type \in {"delta", "item"} /\ queue[i].message = m
        BY <2>2, <3>1 DEF Of, AboutMessage
      <3> QED
        BY <3>2, <3>3 DEF Waiting
    <2>3. CASE InDelta(k, m)
      BY <2>2, <2>3 DEF InDelta, DeltaOf, Of, AboutMessage
    <2>4. CASE OnlyWhole(m)
      <3>1. k = 1
        BY <2>4 DEF OnlyWhole
      <3>2. CASE \E input \in Range(queue) : Of(input, m)
        BY <2>2, <2>4, <3>1, <3>2 DEF OnlyWhole
      <3>3. CASE m \in task.rest /\ task.fallback = <<1>>
        <4>1. k \in Range(task.fallback)
          BY <3>1, <3>3, RangeOfOne
        <4> QED
          BY <3>3, <4>1 DEF Waiting
      <3> QED
        BY <2>4, <3>2, <3>3 DEF OnlyWhole
    <2> QED
      BY <2>1, <2>3, <2>4
  <1> QED
    BY <1>9, <1>10, <1>11 DEF Rises

(* What the provider says reaches the reader once, in order unless the     *)
(* mode changed in mid-message, and entirely unless a dispatch failed or   *)
(* the session exited: however large the buffer is, wherever it spills,    *)
(* and whatever other threads and turns do in between                      *)
(* (appendBufferedAssistantText, finalizeAssistantMessage).                *)
THEOREM TextIsAlwaysConserved == Spec => []TextIsConserved
PROOF
  <1>1. IngestionInv => TextIsConserved
    BY TextConserved
  <1> QED
    BY <1>1, IngestionInvariant, PTL

LEMMA DrainedFinished == IngestionInv => DrainedTurnsAreFinished
PROOF
  <1> SUFFICES ASSUME IngestionInv, outstanding = 0, NEW t \in Turns, ended[t] = "completed",
                      NEW m \in MessagesOf(t) \ unfinished
               PROVE  Tidy(m)
    BY DEF DrainedTurnsAreFinished, Tidy
  <1> USE DEF IngestionInv
  <1>1. m \in Messages /\ TurnOf[m] = t
    BY DEF MessagesOf
  <1>2. queue \in Seq(Inputs)
    BY DEF QueueInv
  <1>3. queue = <<>> /\ task = Idle
    BY <1>2 DEF TypeOK
  <1>4. Range(queue) = {} /\ task.input.type = "none"
    BY <1>3, RangeOfEmpty, HandFields
  <1>5. StateOf(m)
    BY <1>1 DEF StateInv
  <1> QED
    BY <1>1, <1>4, <1>5 DEF StateOf, Pending, Completes

(* When the worker is drained, every message of a completed turn is        *)
(* finished in the read model and nothing of it is buffered, unless a      *)
(* dispatch failed at the turn's end (turn.completed, DrainableWorker's    *)
(* drain).                                                                 *)
THEOREM DrainedTurnsAreAlwaysFinished == Spec => []DrainedTurnsAreFinished
PROOF
  <1>1. IngestionInv => DrainedTurnsAreFinished
    BY DrainedFinished
  <1> QED
    BY <1>1, IngestionInvariant, PTL
=============================================================================

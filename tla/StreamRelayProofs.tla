--------------------------- MODULE StreamRelayProofs ---------------------------
(* Theorems about StreamRelay, for any protocols, any budget of retries, any  *)
(* tool calls and any number of lines and of keepalives.                      *)
EXTENDS StreamRelay, SequenceTheorems, FiniteSetTheorems, WellFoundedInduction, TLAPS

-----------------------------------------------------------------------------
(* Types                                                                     *)

Convs == [started : BOOLEAN, textOpen : BOOLEAN, tools : SUBSET ToolIndices, stopped : BOOLEAN]
Events == [type : Kinds, block : Int, call : Nat, line : Nat]
Chunks == Lines \cup {Wrong}

LEMMA ChunkType ==
    ASSUME NEW line \in Chunks
    PROVE  /\ line.kind \in {"text", "finish", "usage", "junk", "head", "args", "error"}
           /\ line.kind = "junk" <=> line = Junk
           /\ line.kind \in {"head", "args"} <=> line.tool \in ToolIndices
           /\ line.kind = "head" => line = ToolHead(line.tool)
           /\ \A i \in ToolIndices : line = ToolHead(i) => line.kind = "head" /\ line.tool = i
           /\ line.tool \in Int
<1> USE DEF Text, Finish, Usage, Junk, Wrong, ToolHead, ToolArgs
<1>1. ToolIndices \subseteq Nat
  BY RelayAssumption
<1>2. CASE line \in {Text, Finish, Usage, Junk, Wrong}
  BY <1>1, <1>2
<1>3. ASSUME NEW i \in ToolIndices, line = ToolHead(i) \/ line = ToolArgs(i)
      PROVE  /\ line.kind \in {"head", "args"} /\ line.tool = i /\ i \in Int
             /\ line.kind = "head" <=> line = ToolHead(i)
  BY <1>1, <1>3
<1>4. CASE \E i \in ToolIndices : line = ToolHead(i) \/ line = ToolArgs(i)
  BY <1>3, <1>4
<1>5. QED
  BY <1>2, <1>4 DEF Chunks, Lines

LEMMA EventType ==
    ASSUME calls \in Nat, NEW type \in Kinds, NEW block \in Int, NEW n \in Nat
    PROVE  Event(type, block, n) \in Events
BY DEF Event, Events

LEMMA BlockType ==
    /\ Blocks \subseteq Int /\ {-1, 0} \subseteq Blocks
    /\ \A i \in ToolIndices : Block(i) \in Blocks /\ Block(i) \in Int /\ Block(i) > 0
    /\ \A i, j \in ToolIndices : Block(i) = Block(j) => i = j
BY RelayAssumption DEF Blocks, Block

\* A list of the elements of a finite set.
LEMMA ListOfSet ==
    ASSUME NEW S \in SUBSET ToolIndices
    PROVE  LET q == SetToSeq(S)
           IN  /\ q \in Seq(S) /\ IsFiniteSet(S) /\ Len(q) = Cardinality(S)
               /\ DOMAIN q = 1..Len(q) /\ Len(q) \in Nat
               /\ \A i, j \in DOMAIN q : q[i] = q[j] => i = j
               /\ \A t \in S : \E i \in DOMAIN q : q[i] = t
<1> DEFINE n == Cardinality(S)
           D == 1..n
           q == SetToSeq(S)
<1>1. IsFiniteSet(S) /\ n \in Nat /\ IsFiniteSet(D) /\ Cardinality(D) = n
  <2>1. IsFiniteSet(S)
    BY RelayAssumption, FS_Subset
  <2>2. QED
    BY <2>1, FS_CardinalityType, FS_Interval
<1>2. \E f \in [D -> S] : IsInjective(f)
  <2>1. \E f \in Bijection(D, S) : TRUE
    BY <1>1, FS_CountingElements, FS_NatBijection DEF ExistsBijection
  <2>2. QED
    BY <2>1 DEF Bijection, Injection
<1>3. q \in [D -> S] /\ IsInjective(q)
  <2>1. q = CHOOSE f \in [D -> S] : IsInjective(f)
    BY DEF SetToSeq
  <2> HIDE DEF q, D
  <2>2. QED
    BY <1>2, <2>1
<1>4. q \in Surjection(D, S)
  <2> HIDE DEF q, D
  <2>1. q \in Injection(D, S)
    BY <1>3 DEF Injection
  <2>2. QED
    BY <1>1, <2>1, FS_Injection
<1> HIDE DEF q
<1>5. q \in Seq(S) /\ Len(q) = n /\ DOMAIN q = D
  BY <1>1, <1>3
<1>6. QED
  BY <1>1, <1>3, <1>4, <1>5 DEF IsInjective, Surjection, q

\* A set of natural numbers has a smallest element.
LEMMA SmallestExists ==
    ASSUME NEW T, T \subseteq Nat, T # {}
    PROVE  \E k \in T : \A j \in T : k <= j
<1> DEFINE R == OpToRel(<, Nat)
<1>1. IsWellFoundedOn(R, Nat)
  BY NatLessThanWellFounded
<1> HIDE DEF R
<1>2. PICK k \in T : \A j \in T : ~ (<<j, k>> \in R)
  BY <1>1, WFMin
<1>3. \A j \in T : ~ (j < k)
  BY <1>2 DEF R, OpToRel
<1>4. QED
  BY <1>3

\* Induction up to n, for a set in the place of a predicate.
LEMMA UpTo ==
    ASSUME NEW n \in Nat, NEW T, 0 \in T, \A i \in 1..n : i - 1 \in T => i \in T
    PROVE  0..n \subseteq T
<1> DEFINE Bad == {i \in 0..n : i \notin T}
<1>1. CASE Bad # {}
  <2> Bad \subseteq Nat
    OBVIOUS
  <2>1. PICK i \in Bad : \A j \in Bad : i <= j
    <3> HIDE DEF Bad
    <3>1. QED
      BY <1>1, SmallestExists
  <2>2. i \in 1..n /\ i - 1 \in 0..n
    BY <2>1
  <2>3. i - 1 \notin Bad
    BY <2>1, <2>2
  <2>4. QED
    BY <2>1, <2>2, <2>3
<1>2. CASE Bad = {}
  BY <1>2
<1>3. QED
  BY <1>1, <1>2

LEMMA Joins ==
    ASSUME NEW s \in Seq(Events), NEW t \in Seq(Events)
    PROVE  /\ s \o t \in Seq(Events) /\ s \o <<>> = s /\ <<>> \o s = s
           /\ \A u \in Seq(Events) : s \o (t \o u) = (s \o t) \o u
           /\ \A e \in Events : s \o <<e>> = Append(s, e) /\ <<e>> \in Seq(Events)
           /\ <<>> \in Seq(Events)
BY ConcatProperties, ConcatEmptySeq, ConcatAssociative, AppendIsConcat

LEMMA OnlyOne ==
    ASSUME NEW s \in Seq(Events), Len(s) = 1
    PROVE  s = <<s[1]>>
<1>1. DOMAIN s = 1..1 /\ s = [i \in 1..1 |-> s[i]]
  BY LenProperties
<1>2. QED
  BY <1>1

LEMMA TwoEvents ==
    ASSUME NEW e \in Events, NEW f \in Events
    PROVE  <<e, f>> \in Seq(Events) /\ <<e, f>> = <<e>> \o <<f>>
<1>1. <<e, f>> \in Seq(Events) /\ <<e>> \in Seq(Events) /\ <<f>> \in Seq(Events)
  OBVIOUS
<1> DEFINE w == <<e>> \o <<f>>
<1>2. w \in Seq(Events) /\ Len(w) = 2 /\ w[1] = e /\ w[2] = f
  BY <1>1, ConcatProperties
<1> HIDE DEF w
<1>3. Len(<<e, f>>) = 2 /\ <<e, f>>[1] = e /\ <<e, f>>[2] = f
  OBVIOUS
<1>4. w = <<e, f>>
  BY <1>1, <1>2, <1>3, SeqEqual
<1>5. QED
  BY <1>1, <1>4 DEF w

LEMMA CloseToolsType ==
    ASSUME calls \in Nat, NEW c \in Convs, NEW n \in Nat
    PROVE  LET q == SetToSeq(c.tools)
               t == CloseTools(c, n)
           IN  /\ t \in Seq(Events) /\ Len(t) = Len(q) /\ Len(q) \in Nat
               /\ \A p \in 1..Len(q) : /\ q[p] \in c.tools
                                       /\ t[p] = Event("close", Block(q[p]), n) /\ t[p] \in Events
<1> DEFINE q == SetToSeq(c.tools)
           t == CloseTools(c, n)
<1>1. c.tools \in SUBSET ToolIndices
  BY DEF Convs
<1>2. q \in Seq(c.tools) /\ DOMAIN q = 1..Len(q) /\ Len(q) \in Nat
  BY <1>1, ListOfSet
<1>3. t = [p \in 1..Len(q) |-> Event("close", Block(q[p]), n)]
  BY <1>2 DEF CloseTools
<1> HIDE DEF t, q
<1>4. \A p \in 1..Len(q) : /\ q[p] \in c.tools
                            /\ t[p] = Event("close", Block(q[p]), n) /\ t[p] \in Events
  BY <1>1, <1>2, <1>3, EventType, BlockType DEF Kinds
<1>5. t \in Seq(Events) /\ Len(t) = Len(q)
  BY <1>2, <1>3, <1>4
<1>6. QED
  BY <1>2, <1>4, <1>5 DEF t, q

\* What a piece of a chunk sends is events, and what it keeps is a state.
LEMMA PartTypes ==
    ASSUME calls \in Nat, NEW n \in Nat
    PROVE  \A d \in Convs :
             /\ Opening(d, n) \in Seq(Events) /\ CloseText(d, n) \in Seq(Events)
             /\ TextEvents(d, n).events \in Seq(Events) /\ TextEvents(d, n).conv \in Convs
             /\ \A i \in ToolIndices :
                   /\ HeadEvents(d, i, n).events \in Seq(Events) /\ HeadEvents(d, i, n).conv \in Convs
                   /\ ArgsEvents(d, i, n).events \in Seq(Events) /\ ArgsEvents(d, i, n).conv \in Convs
             /\ FinishEvents(d, n).events \in Seq(Events) /\ FinishEvents(d, n).conv \in Convs
<1>1. \A type \in Kinds, b \in Blocks : Event(type, b, n) \in Events
  BY EventType, BlockType
<1>2. \A d \in Convs : /\ [d EXCEPT !.started = TRUE] \in Convs
                       /\ [d EXCEPT !.textOpen = TRUE] \in Convs
                       /\ \A x \in BOOLEAN : [d EXCEPT !.textOpen = FALSE, !.stopped = x] \in Convs
                       /\ \A i \in ToolIndices : [d EXCEPT !.textOpen = FALSE, !.tools = @ \cup {i}] \in Convs
  BY DEF Convs
<1>3. \A d \in Convs : Opening(d, n) \in Seq(Events) /\ CloseText(d, n) \in Seq(Events)
  BY <1>1, BlockType DEF Opening, CloseText, Kinds
<1>4. \A d \in Convs : TextEvents(d, n).events \in Seq(Events) /\ TextEvents(d, n).conv \in Convs
  <2> TAKE d \in Convs
  <2>1. <<Event("open", 0, n)>> \in Seq(Events) /\ <<Event("delta", 0, n)>> \in Seq(Events)
        /\ <<>> \in Seq(Events)
    BY <1>1, BlockType DEF Kinds
  <2>2. TextEvents(d, n).events \in Seq(Events)
    BY <2>1, Joins DEF TextEvents
  <2>3. QED
    BY <1>2, <2>2 DEF TextEvents
<1>5. \A d \in Convs, i \in ToolIndices :
        HeadEvents(d, i, n).events \in Seq(Events) /\ HeadEvents(d, i, n).conv \in Convs
  <2> TAKE d \in Convs, i \in ToolIndices
  <2>1. <<Event("open", Block(i), n)>> \in Seq(Events) /\ <<>> \in Seq(Events)
    BY <1>1, BlockType DEF Kinds
  <2>2. HeadEvents(d, i, n).events \in Seq(Events)
    BY <1>3, <2>1, Joins DEF HeadEvents
  <2>3. QED
    BY <1>2, <2>2 DEF HeadEvents
<1>6. \A d \in Convs, i \in ToolIndices :
        ArgsEvents(d, i, n).events \in Seq(Events) /\ ArgsEvents(d, i, n).conv \in Convs
  BY <1>1, BlockType DEF Kinds, ArgsEvents
<1>7. \A d \in Convs : FinishEvents(d, n).events \in Seq(Events) /\ FinishEvents(d, n).conv \in Convs
  <2> TAKE d \in Convs
  <2>1. <<Event("message_delta", -1, n), Event("message_stop", -1, n)>> \in Seq(Events)
    BY <1>1, BlockType DEF Kinds
  <2>2. CloseTools(d, n) \in Seq(Events)
    BY CloseToolsType
  <2>3. FinishEvents(d, n).events \in Seq(Events)
    BY <1>3, <2>1, <2>2, Joins DEF FinishEvents
  <2>4. QED
    BY <1>2, <2>3 DEF FinishEvents
<1>8. QED
  BY <1>3, <1>4, <1>5, <1>6, <1>7

\* What is sent for a chunk is events, and what is kept of it is a state.
LEMMA SendType ==
    ASSUME calls \in Nat, NEW c \in Convs, NEW line \in Chunks, line # Junk, NEW n \in Nat
    PROVE  /\ Send(c, line, n).events \in Seq(Events) /\ Send(c, line, n).conv \in Convs
           /\ DoneEvents(c, n).events \in Seq(Events) /\ DoneEvents(c, n).conv \in Convs
           /\ <<Event("done", -1, n)>> \in Seq(Events)
<1>1. \A type \in Kinds, b \in Blocks : Event(type, b, n) \in Events
  BY EventType, BlockType
<1>2. \A d \in Convs : /\ [d EXCEPT !.started = TRUE] \in Convs
                       /\ \A x \in BOOLEAN : [d EXCEPT !.textOpen = FALSE, !.stopped = x] \in Convs
  BY DEF Convs
<1>3. \A d \in Convs : Opening(d, n) \in Seq(Events) /\ CloseText(d, n) \in Seq(Events)
  BY PartTypes
<1>4. DoneEvents(c, n).events \in Seq(Events) /\ DoneEvents(c, n).conv \in Convs
  <2>1. <<Event("message_stop", -1, n)>> \in Seq(Events) /\ <<>> \in Seq(Events)
    BY <1>1, BlockType DEF Kinds
  <2>2. DoneEvents(c, n).events \in Seq(Events)
    BY <1>3, <2>1, Joins DEF DoneEvents
  <2>3. c.stopped \/ c.started \in BOOLEAN
    BY DEF Convs
  <2>4. QED
    BY <1>2, <2>2, <2>3 DEF DoneEvents
<1>5. ChunkEvents(c, line, n).events \in Seq(Events) /\ ChunkEvents(c, line, n).conv \in Convs
  <2> DEFINE begun == [c EXCEPT !.started = TRUE]
             rest == CASE line.kind = "text" -> TextEvents(begun, n)
                       [] line.kind = "head" -> HeadEvents(begun, line.tool, n)
                       [] line.kind = "args" -> ArgsEvents(begun, line.tool, n)
                       [] line.kind = "finish" -> FinishEvents(begun, n)
                       [] OTHER -> [events |-> <<>>, conv |-> begun]
  <2>1. begun \in Convs
    BY <1>2
  <2>2. line.kind \in {"head", "args"} => line.tool \in ToolIndices
    BY ChunkType
  <2>3. rest.events \in Seq(Events) /\ rest.conv \in Convs
    <3> HIDE DEF begun
    <3>1. QED
      BY <2>1, <2>2, PartTypes, Joins
  <2>4. ChunkEvents(c, line, n) = [events |-> Opening(c, n) \o rest.events, conv |-> rest.conv]
    BY DEF ChunkEvents
  <2> HIDE DEF rest
  <2>5. QED
    BY <1>3, <2>3, <2>4, Joins
<1>6. <<Event(line.kind, line.tool, n)>> \in Seq(Events) /\ <<Event("done", -1, n)>> \in Seq(Events)
  <2>1. line.kind \in Kinds /\ line.tool \in Int
    BY ChunkType DEF Kinds
  <2>2. "done" \in Kinds /\ -1 \in Int
    BY DEF Kinds
  <2>3. QED
    BY <2>1, <2>2, EventType
<1>7. QED
  BY <1>4, <1>5, <1>6 DEF Send

-----------------------------------------------------------------------------
(* Types and the budget of retries                                           *)

Typed ==
    /\ route \in Routes /\ pc \in PCs
    /\ calls \in 0..(1 + Retries) /\ counted \in 0..Retries
    /\ source \in Outcomes \cup {"none", "raised"}
    /\ attempts \in [initial : 0..Retries, used : 0..(1 + Retries), total : 0..(1 + Retries)]
    /\ lines \in Seq(Lines) /\ wire \in Seq(Chunks)
    /\ done \in BOOLEAN /\ firstSent \in BOOLEAN
    /\ conv \in Convs /\ sent \in Seq(Events)
    /\ beats \in 0..MaxBeats

\* What the calls have used of the budget and what the generator has left of
\* it, and whose turn it is to end the trace.
Budget ==
    /\ pc = "request" => calls <= Retries
    /\ pc = "fake" => calls = 0 /\ counted = 0
    /\ pc = "waiting" => calls = 1 /\ counted = 0
    /\ pc \in {"start", "relay", "again"} =>
          /\ attempts.used = calls - attempts.initial
          /\ attempts.total = 1 + Retries - attempts.initial
          /\ 1 <= attempts.used /\ attempts.used <= attempts.total
    /\ pc = "again" => attempts.used < attempts.total
    /\ pc \in {"drain", "closed"} =>
          counted = calls - 1 - (IF source = "raised" THEN 1 ELSE 0)
    /\ pc \in {"request", "start", "relay", "again", "fake", "waiting"} => source # "raised"
    /\ pc = "closed" => ended = 1
    /\ pc \notin {"closed", "gone"} => ended = 0
    /\ ended \in 0..1

LEMMA InitBudget == Init => Typed /\ Budget
<1> SUFFICES ASSUME Init PROVE Typed /\ Budget
  OBVIOUS
<1>1. conv \in Convs
  BY DEF Init, NoConv, Convs
<1>2. attempts \in [initial : 0..Retries, used : 0..(1 + Retries), total : 0..(1 + Retries)]
  BY RelayAssumption DEF Init
<1>3. <<>> \in Seq(Lines) /\ <<>> \in Seq(Chunks) /\ <<>> \in Seq(Events)
  OBVIOUS
<1>4. 0 \in 0..(1 + Retries) /\ 0 \in 0..Retries /\ 0 \in 0..MaxBeats
  BY RelayAssumption
<1>5. Typed
  BY <1>1, <1>2, <1>3, <1>4 DEF Init, Typed, PCs
<1>6. Budget
  BY RelayAssumption DEF Init, Budget
<1>7. QED
  BY <1>5, <1>6

LEMMA Cutting ==
    ASSUME NEW a \in FakeAnswers
    PROVE  Cut(a) \in Seq(Lines)
<1> DEFINE q == SetToSeq(ToolIndices)
           m == 2 * Cardinality(ToolIndices)
<1>1. q \in Seq(ToolIndices) /\ Len(q) = Cardinality(ToolIndices) /\ Len(q) \in Nat
  BY ListOfSet
<1>2. Whole \in Seq(Lines)
  <2>1. \A j \in 1..m : (j + 1) \div 2 \in 1..Len(q)
    BY <1>1
  <2>2. \A j \in 1..m : q[(j + 1) \div 2] \in ToolIndices
    BY <1>1, <2>1, ElementOfSeq
  <2> HIDE DEF q
  <2>3. \A j \in 1..m : (IF j % 2 = 1 THEN ToolHead(q[(j + 1) \div 2])
                                     ELSE ToolArgs(q[(j + 1) \div 2])) \in Lines
    BY <2>2 DEF Lines
  <2>4. Whole = [j \in 1..m |-> IF j % 2 = 1 THEN ToolHead(q[(j + 1) \div 2])
                                            ELSE ToolArgs(q[(j + 1) \div 2])]
    BY DEF Whole, q
  <2>5. m \in Nat
    BY <1>1
  <2> HIDE DEF m
  <2>6. QED
    BY <2>3, <2>4, <2>5
<1>3. <<Text, Text, Finish>> \in Seq(Lines) /\ <<Text, Finish>> \in Seq(Lines)
      /\ <<Text>> \in Seq(Lines) /\ <<Finish>> \in Seq(Lines)
  BY DEF Lines
<1>4. <<Text>> \o Whole \o <<Finish>> \in Seq(Lines) /\ Whole \o <<Finish>> \in Seq(Lines)
  BY <1>2, <1>3, ConcatProperties
<1>5. QED
  BY <1>3, <1>4 DEF Cut

\* What a chunk that goes out leaves.
LEMMA ForwardedType ==
    ASSUME Typed, NEW line \in Chunks, line # Junk, Forwarded(line)
    PROVE  conv' \in Convs /\ sent' \in Seq(Events) /\ firstSent' = TRUE
<1>1. calls \in Nat /\ Len(lines) \in Nat /\ conv \in Convs /\ sent \in Seq(Events)
  BY RelayAssumption, LenProperties DEF Typed
<1>2. QED
  BY <1>1, SendType, Joins DEF Forwarded

LEMMA NextBudget ==
    ASSUME Typed, Budget, [Next]_vars
    PROVE  Typed' /\ Budget'
<1> USE RelayAssumption DEF Typed, Budget
<1>1. ASSUME NEW o \in Outcomes, Answer(o)
      PROVE  Typed' /\ Budget'
  <2>1. calls' = calls + 1 /\ calls <= Retries /\ counted' = calls /\ source' = o
        /\ UNCHANGED <<route, streamVars, beats>> /\ pc = "request" /\ source' # "raised"
    BY <1>1 DEF Answer, Outcomes
  <2>2. CASE Relay(1 + Retries - calls)
    BY <2>1, <2>2 DEF Relay, streamVars, PCs
  <2>3. CASE calls < Retries /\ UNCHANGED <<pc, attempts, ended>>
    BY <2>1, <2>3 DEF streamVars
  <2>4. CASE Forward
    BY <2>1, <2>4 DEF Forward, streamVars, PCs
  <2>5. QED
    BY <1>1, <2>2, <2>3, <2>4 DEF Answer
<1>2. ASSUME NEW o \in Outcomes, AnswerAgain(o)
      PROVE  Typed' /\ Budget'
  <2> USE DEF AnswerAgain
  <2>1. attempts.used < attempts.total /\ attempts.used + 1 \in 0..(1 + Retries)
        /\ attempts.used = calls - attempts.initial /\ attempts.total = 1 + Retries - attempts.initial
        /\ 1 <= attempts.used /\ ended = 0
    BY <1>2
  <2>2. attempts' \in [initial : 0..Retries, used : 0..(1 + Retries), total : 0..(1 + Retries)]
        /\ attempts'.used = attempts.used + 1 /\ attempts'.total = attempts.total
        /\ attempts'.initial = attempts.initial
    BY <1>2, <2>1
  <2>3. pc' = "relay" /\ calls' = calls + 1 /\ counted' = counted
    BY <1>2
  <2>4. calls' \in 0..(1 + Retries)
    BY <2>1, <2>3
  <2>5. Typed'
    BY <1>2, <2>2, <2>4, <2>3 DEF PCs
  <2>6. Budget'
    <3> HIDE DEF Typed, AnswerAgain
    <3>1. attempts'.used = calls' - attempts'.initial
      BY <2>1, <2>2, <2>3, <1>2 DEF Typed
    <3>2. attempts'.total = 1 + Retries - attempts'.initial
      BY <2>1, <2>2, <2>3
    <3>3. 1 <= attempts'.used /\ attempts'.used <= attempts'.total
      BY <2>1, <2>2 DEF Typed
    <3>4. ended' = 0 /\ source' # "raised"
      BY <1>2, <2>1 DEF AnswerAgain, Outcomes
    <3>5. QED
      BY <2>3, <3>1, <3>2, <3>3, <3>4
  <2>7. QED
    BY <2>5, <2>6
<1>3. CASE Begin
  BY <1>3 DEF Begin, callVars, streamVars, PCs
<1>4. CASE Beat
  BY <1>4 DEF Beat, callVars, streamVars
<1>5. CASE Convert
  <2>1. Head(wire) \in Chunks /\ Tail(wire) \in Seq(Chunks)
    BY <1>5, HeadTailProperties DEF Convert
  <2>2. conv' \in Convs /\ sent' \in Seq(Events) /\ firstSent' \in BOOLEAN
    BY <1>5, <2>1, ForwardedType DEF Convert
  <2>3. QED
    BY <1>5, <2>1, <2>2 DEF Convert, callVars
<1>6. CASE End
  BY <1>6 DEF End, Drain, PCs
<1>7. ASSUME GiveUp, pc \in {"relay", "again"},
             \/ pc = "relay" /\ UNCHANGED <<calls, source>>
             \/ pc = "again" /\ calls' = calls + 1 /\ source' = "raised"
      PROVE  Typed' /\ Budget'
  <2>1. ErrorChunks \in Seq(Chunks)
    <3>1. {Wrong, Text, Finish} \subseteq Chunks
      BY DEF Chunks, Lines
    <3>2. <<Wrong>> \in Seq(Chunks) /\ <<Text, Finish>> \in Seq(Chunks)
      BY <3>1
    <3>3. QED
      BY <3>2 DEF ErrorChunks
  <2>2. /\ pc' = "drain" /\ counted' = attempts.initial + attempts.used - 1
        /\ wire' = ErrorChunks /\ done' = TRUE
        /\ UNCHANGED <<route, attempts, lines, firstSent, conv, sent, beats, ended>>
    BY <1>7 DEF GiveUp, Drain
  <2>3. /\ attempts.used = calls - attempts.initial /\ attempts.total = 1 + Retries - attempts.initial
        /\ 1 <= attempts.used /\ attempts.used <= attempts.total
        /\ attempts.initial \in 0..Retries /\ calls \in Nat /\ Retries \in Nat
        /\ source # "raised" /\ ended = 0
    BY <1>7
  <2>4. counted' = calls - 1 /\ counted' \in 0..Retries
    BY <2>2, <2>3
  <2>5. calls' \in 0..(1 + Retries) /\ source' \in Outcomes \cup {"none", "raised"}
        /\ counted' = calls' - 1 - (IF source' = "raised" THEN 1 ELSE 0)
    <3>1. CASE pc = "relay" /\ UNCHANGED <<calls, source>>
      BY <2>3, <2>4, <3>1
    <3>2. CASE pc = "again" /\ calls' = calls + 1 /\ source' = "raised"
      <4>1. attempts.used < attempts.total
        BY <3>2
      <4>2. QED
        BY <2>3, <2>4, <3>2, <4>1
    <3>3. QED
      BY <1>7, <3>1, <3>2
  <2>6. Typed'
    BY <2>1, <2>2, <2>4, <2>5 DEF PCs
  <2>7. Budget'
    BY <2>2, <2>3, <2>5
  <2>8. QED
    BY <2>6, <2>7
<1>8. CASE Fail
  <2>1. CASE GiveUp /\ UNCHANGED <<calls, source>>
    BY <1>7, <1>8, <2>1 DEF Fail
  <2>2. CASE ~ firstSent /\ attempts.used < attempts.total
    <3>1. /\ pc = "relay" /\ pc' = "again" /\ counted' = attempts.initial + attempts.used
          /\ UNCHANGED <<route, calls, source, attempts, streamVars, beats, ended>>
      BY <1>8, <2>2 DEF Fail
    <3>2. counted' \in 0..Retries
      BY <2>2, <3>1
    <3>3. QED
      BY <2>2, <3>1, <3>2 DEF streamVars, PCs
  <2>3. QED
    BY <1>8, <2>1, <2>2 DEF Fail
<1>9. CASE RaiseAgain
  BY <1>7, <1>9 DEF RaiseAgain
<1>10. CASE Closed
  <2>1. conv' \in Convs /\ sent' \in Seq(Events)
    <3> DEFINE n == Len(lines)
               over == IF route = "openai"
                       THEN [events |-> IF done THEN <<Event("done", -1, n)>> ELSE <<>>, conv |-> conv]
                       ELSE DoneEvents(conv, n)
    <3>1. n \in Nat /\ Text \in Chunks /\ Text # Junk
      BY LenProperties DEF Chunks, Lines, Text, Junk
    <3>2. over.events \in Seq(Events) /\ over.conv \in Convs
      BY <3>1, SendType, Joins
    <3>3. sent' = sent \o over.events /\ conv' = over.conv
      BY <1>10 DEF Closed
    <3> HIDE DEF over
    <3>4. QED
      BY <3>2, <3>3, Joins
  <2>2. QED
    BY <1>10, <2>1 DEF Closed, callVars, PCs
<1>11. ASSUME NEW line \in Lines, Receive(line)
       PROVE  Typed' /\ Budget'
  <2>1. lines' \in Seq(Lines) /\ wire' \in Seq(Chunks)
    BY <1>11, AppendProperties DEF Receive, Chunks
  <2>2. QED
    BY <1>11, <2>1 DEF Receive, callVars
<1>12. CASE FakeBegin
  <2>1. Usage \in Chunks /\ Usage # Junk
    BY DEF Chunks, Lines, Usage, Junk
  <2>2. conv' \in Convs /\ sent' \in Seq(Events) /\ firstSent' = TRUE
    BY <1>12, <2>1, ForwardedType DEF FakeBegin
  <2>3. QED
    BY <1>12, <2>2 DEF FakeBegin, PCs
<1>13. CASE FakeBeat
  BY <1>13 DEF FakeBeat, callVars, streamVars
<1>14. ASSUME NEW a \in FakeAnswers, FakeAnswer(a)
       PROVE  Typed' /\ Budget'
  <2>1. Cut(a) \in Seq(Lines) /\ Cut(a) \in Seq(Chunks)
    BY Cutting DEF Chunks
  <2>2. QED
    BY <1>14, <2>1 DEF FakeAnswer, Drain, callVars, PCs
<1>15. CASE Disconnect
  BY <1>15 DEF Disconnect, callVars, streamVars, PCs
<1>16. CASE UNCHANGED vars
  BY <1>16 DEF vars, callVars, streamVars
<1>17. QED
  BY <1>1, <1>2, <1>3, <1>4, <1>5, <1>6, <1>8, <1>9, <1>10, <1>11, <1>12, <1>13, <1>14,
     <1>15, <1>16 DEF Next

\* The types of the variables hold in every state of a request.
THEOREM RelayTypeCorrect == Spec => []TypeOK
<1>1. Typed /\ Budget => TypeOK
  <2> SUFFICES ASSUME Typed, Budget PROVE TypeOK
    OBVIOUS
  <2>1. \A k \in DOMAIN sent : sent[k] \in Events
    BY LenProperties, ElementOfSeq DEF Typed
  <2>2. \A k \in DOMAIN sent : sent[k].type \in Kinds
    BY <2>1 DEF Events
  <2>3. QED
    BY <2>2 DEF Typed, Budget, TypeOK, Convs, Chunks
<1>2. QED
  BY <1>1, InitBudget, NextBudget, PTL DEF Spec

\* The calls on the status of a response and those within the generator use up
\* one budget, and the trace says how many retries there were, but for a last one
\* that raised.
THEOREM OneBudget == Spec => []BudgetShared
<1>1. Typed /\ Budget => BudgetShared
  BY RelayAssumption DEF Typed, Budget, BudgetShared
<1>2. QED
  BY <1>1, InitBudget, NextBudget, PTL DEF Spec

-----------------------------------------------------------------------------
(* Nested events                                                             *)

\* EventsNest for the k-th event of a sequence.
Num(s, k, type, block) == Cardinality({j \in 1..(k - 1) : s[j].type = type /\ s[j].block = block})
Well(s, k) ==
    LET before(type, block) == Num(s, k, type, block)
        b == s[k].block
        isOpen(c) == before("open", c) = before("close", c) + 1
        isClosed(c) == before("open", c) = before("close", c)
        finished == before("message_stop", -1) > 0
    IN  /\ (k = 1) <=> (s[k].type = "message_start")
        /\ ~ finished =>
              CASE s[k].type \in {"delta", "close"} -> isOpen(b)
                [] s[k].type = "open" -> isClosed(b) /\ isClosed(0)
                [] s[k].type = "message_delta" -> \A c \in Blocks : isClosed(c)
                [] OTHER -> TRUE

\* The state of the conversion says which blocks the events have left open.
InState(c, b) == IF b = 0 THEN c.textOpen ELSE \E i \in c.tools : b = Block(i)
All(s, type, block) == Num(s, Len(s) + 1, type, block)
Follows(s, c) ==
    /\ s \in Seq(Events) /\ c \in Convs
    /\ \A k \in 1..Len(s) : Well(s, k)
    /\ c.started <=> s # <<>>
    /\ c.textOpen => c.started
    /\ c.stopped <=> All(s, "message_stop", -1) > 0
    /\ ~ c.stopped => \A b \in Blocks :
          All(s, "open", b) = All(s, "close", b) + (IF InState(c, b) THEN 1 ELSE 0)

\* What the state says of an event that may come next, and of the next state.
MayFollow(c, e) ==
    /\ e.type = "message_start" <=> ~ c.started
    /\ ~ c.stopped =>
          CASE e.type \in {"delta", "close"} -> e.block \in Blocks /\ InState(c, e.block)
            [] e.type = "open" -> e.block \in Blocks /\ ~ InState(c, e.block) /\ ~ InState(c, 0)
            [] e.type = "message_delta" -> \A b \in Blocks : ~ InState(c, b)
            [] OTHER -> TRUE
Becomes(c, e, d) ==
    /\ d \in Convs /\ d.started
    /\ d.stopped <=> c.stopped \/ (e.type = "message_stop" /\ e.block = -1)
    /\ ~ d.stopped => \A b \in Blocks :
          InState(d, b) <=> CASE e.type = "open" /\ e.block = b -> TRUE
                              [] e.type = "close" /\ e.block = b -> FALSE
                              [] OTHER -> InState(c, b)

LEMMA NumType ==
    ASSUME NEW s, NEW k \in Nat, NEW type, NEW block
    PROVE  Num(s, k, type, block) \in Nat
<1>1. IsFiniteSet(1..(k - 1))
  BY FS_Interval
<1>2. QED
  BY <1>1, FS_Subset, FS_CardinalityType DEF Num

LEMMA NumOfMore ==
    ASSUME NEW s \in Seq(Events), NEW e \in Events, NEW type, NEW block
    PROVE  /\ \A k \in 1..(Len(s) + 1) :
                 Num(Append(s, e), k, type, block) = Num(s, k, type, block)
           /\ All(Append(s, e), type, block) =
                 All(s, type, block) + (IF e.type = type /\ e.block = block THEN 1 ELSE 0)
<1> DEFINE t == Append(s, e)
           n == Len(s)
           Was(k) == {j \in 1..(k - 1) : s[j].type = type /\ s[j].block = block}
           Is(k) == {j \in 1..(k - 1) : t[j].type = type /\ t[j].block = block}
<1>1. n \in Nat /\ Len(t) = n + 1 /\ t[n + 1] = e /\ \A j \in 1..n : t[j] = s[j]
  BY LenProperties, AppendProperties
<1> HIDE DEF t, n
<1>2. \A k \in 1..(n + 1) : Was(k) = Is(k)
  BY <1>1
<1>3. Is(n + 2) = Was(n + 1) \cup (IF e.type = type /\ e.block = block THEN {n + 1} ELSE {})
  BY <1>1
<1>4. IsFiniteSet(Was(n + 1)) /\ n + 1 \notin Was(n + 1)
  <2>1. IsFiniteSet(1..n)
    BY <1>1, FS_Interval
  <2>2. Was(n + 1) \subseteq 1..n
    BY <1>1
  <2>3. QED
    BY <1>1, <2>1, <2>2, FS_Subset
<1>5. Cardinality(Is(n + 2)) =
        Cardinality(Was(n + 1)) + (IF e.type = type /\ e.block = block THEN 1 ELSE 0)
  <2>0. ~ (e.type = type /\ e.block = block) => Is(n + 2) = Was(n + 1)
    BY <1>3
  <2> HIDE DEF Is, Was
  <2>1. Cardinality(Was(n + 1)) \in Nat
    BY <1>4, FS_CardinalityType
  <2>2. CASE e.type = type /\ e.block = block
    BY <1>3, <1>4, <2>2, FS_AddElement
  <2>3. CASE ~ (e.type = type /\ e.block = block)
    BY <2>0, <2>1, <2>3
  <2>4. QED
    BY <2>2, <2>3
<1>6. (n + 1) + 1 = n + 2
  BY <1>1
<1>7. QED
  BY <1>1, <1>2, <1>5, <1>6 DEF Num, All, t, n

\* One event more.
LEMMA OneEvent ==
    ASSUME NEW s, NEW c, Follows(s, c), NEW e \in Events, NEW d, MayFollow(c, e), Becomes(c, e, d)
    PROVE  Follows(Append(s, e), d)
<1> DEFINE t == Append(s, e)
           n == Len(s)
<1>1. /\ s \in Seq(Events) /\ t \in Seq(Events) /\ t # <<>> /\ n \in Nat /\ Len(t) = n + 1
      /\ t[n + 1] = e /\ \A j \in 1..n : t[j] = s[j]
  BY LenProperties, AppendProperties DEF Follows
<1>2. \A type, block : All(s, type, block) \in Nat /\ All(s, type, block) = Num(s, n + 1, type, block)
  BY <1>1, NumType DEF All
<1>3. \A type, block :
        /\ \A k \in 1..(n + 1) : Num(t, k, type, block) = Num(s, k, type, block)
        /\ All(t, type, block) = All(s, type, block)
                                 + (IF e.type = type /\ e.block = block THEN 1 ELSE 0)
  BY <1>1, NumOfMore
<1>4. c \in Convs /\ (c.started <=> n # 0)
  BY <1>1 DEF Follows
<1> HIDE DEF t, n
<1>5. \A k \in 1..n : Well(t, k)
  <2> TAKE k \in 1..n
  <2>1. Well(s, k)
    BY DEF Follows, n
  <2>2. k \in 1..(n + 1) /\ t[k] = s[k]
    BY <1>1
  <2>3. \A type, block : Num(t, k, type, block) = Num(s, k, type, block)
    BY <1>3, <2>2
  <2>4. QED
    BY <2>1, <2>2, <2>3 DEF Well
<1>6. Well(t, n + 1)
  <2>1. n + 1 \in 1..(n + 1) /\ (n + 1 = 1 <=> n = 0)
    BY <1>1
  <2>2. \A type, block : Num(t, n + 1, type, block) = All(s, type, block)
    BY <1>2, <1>3, <2>1
  <2>3. (n + 1 = 1) <=> (e.type = "message_start")
    BY <1>4, <2>1 DEF MayFollow
  <2>4. CASE c.stopped
    <3>1. All(s, "message_stop", -1) > 0
      BY <2>4 DEF Follows
    <3>2. QED
      BY <1>1, <2>2, <2>3, <3>1 DEF Well
  <2>5. CASE ~ c.stopped
    <3>1. \A b \in Blocks :
            All(s, "open", b) = All(s, "close", b) + (IF InState(c, b) THEN 1 ELSE 0)
      BY <2>5 DEF Follows
    <3>2. \A b \in Blocks : /\ InState(c, b) => All(s, "open", b) = All(s, "close", b) + 1
                            /\ ~ InState(c, b) => All(s, "open", b) = All(s, "close", b)
      BY <1>2, <3>1
    <3>3. CASE e.type \in {"delta", "close"}
      <4>1. All(s, "open", e.block) = All(s, "close", e.block) + 1
        BY <2>5, <3>2, <3>3 DEF MayFollow
      <4>2. QED
        BY <1>1, <2>2, <2>3, <3>3, <4>1 DEF Well
    <3>4. CASE e.type = "open"
      <4>1. 0 \in Blocks
        BY BlockType
      <4>2. All(s, "open", e.block) = All(s, "close", e.block) /\ All(s, "open", 0) = All(s, "close", 0)
        BY <2>5, <3>2, <3>4, <4>1 DEF MayFollow
      <4>3. QED
        BY <1>1, <2>2, <2>3, <3>4, <4>2 DEF Well
    <3>5. CASE e.type = "message_delta"
      <4>1. \A b \in Blocks : All(s, "open", b) = All(s, "close", b)
        BY <2>5, <3>2, <3>5 DEF MayFollow
      <4>2. QED
        BY <1>1, <2>2, <2>3, <3>5, <4>1 DEF Well
    <3>6. CASE e.type \notin {"delta", "close", "open", "message_delta"}
      BY <1>1, <2>3, <3>6 DEF Well
    <3>7. QED
      BY <3>3, <3>4, <3>5, <3>6
  <2>6. QED
    BY <2>4, <2>5
<1>7. \A k \in 1..Len(t) : Well(t, k)
  BY <1>1, <1>5, <1>6
<1>8. d.stopped <=> All(t, "message_stop", -1) > 0
  <2>1. c.stopped <=> All(s, "message_stop", -1) > 0
    BY DEF Follows
  <2>2. QED
    BY <1>2, <1>3, <2>1 DEF Becomes
<1>9. ASSUME ~ d.stopped, NEW b \in Blocks
      PROVE  All(t, "open", b) = All(t, "close", b) + (IF InState(d, b) THEN 1 ELSE 0)
  <2>1. ~ c.stopped
    BY <1>9 DEF Becomes
  <2>2. All(s, "open", b) = All(s, "close", b) + (IF InState(c, b) THEN 1 ELSE 0)
    BY <2>1 DEF Follows
  <2>3. /\ e.type = "open" /\ e.block = b => InState(d, b)
        /\ e.type = "close" /\ e.block = b => ~ InState(d, b)
        /\ ~ (e.type \in {"open", "close"} /\ e.block = b) => (InState(d, b) <=> InState(c, b))
    BY <1>9 DEF Becomes
  <2>4. All(t, "open", b) = All(s, "open", b) + (IF e.type = "open" /\ e.block = b THEN 1 ELSE 0)
        /\ All(t, "close", b) = All(s, "close", b) + (IF e.type = "close" /\ e.block = b THEN 1 ELSE 0)
    BY <1>3
  <2>5. All(s, "open", b) \in Nat /\ All(s, "close", b) \in Nat
    BY <1>2
  <2>6. CASE e.type = "open" /\ e.block = b
    <3>1. ~ InState(c, b)
      BY <2>1, <2>6 DEF MayFollow
    <3>2. QED
      BY <2>2, <2>3, <2>4, <2>5, <2>6, <3>1
  <2>7. CASE e.type = "close" /\ e.block = b
    <3>1. InState(c, b)
      BY <2>1, <2>7 DEF MayFollow
    <3>2. QED
      BY <2>2, <2>3, <2>4, <2>5, <2>7, <3>1
  <2>8. CASE ~ (e.type \in {"open", "close"} /\ e.block = b)
    BY <2>2, <2>3, <2>4, <2>5, <2>8
  <2>9. QED
    BY <2>6, <2>7, <2>8
<1>10. d \in Convs /\ d.started
  BY DEF Becomes
<1>11. Follows(t, d)
  BY <1>1, <1>7, <1>8, <1>9, <1>10 DEF Follows
<1>12. QED
  BY <1>11 DEF t

\* Two states that say the same of the blocks that are open.
LEMMA SaidOtherwise ==
    ASSUME NEW s, NEW c, Follows(s, c), NEW d \in Convs,
           d.started = c.started, d.stopped = c.stopped, d.textOpen => c.textOpen,
           ~ c.stopped => \A b \in Blocks : InState(d, b) <=> InState(c, b)
    PROVE  Follows(s, d)
BY DEF Follows

LEMMA StatesOf ==
    ASSUME NEW c \in Convs
    PROVE  /\ c.started \in BOOLEAN /\ c.textOpen \in BOOLEAN /\ c.stopped \in BOOLEAN
           /\ c.tools \subseteq ToolIndices
           /\ InState(c, 0) <=> c.textOpen
           /\ \A i \in ToolIndices : InState(c, Block(i)) <=> i \in c.tools
           /\ \A b \in Blocks : b \in {-1, 0} \/ \E i \in ToolIndices : b = Block(i)
           /\ ~ InState(c, -1)
<1>1. c.tools \subseteq ToolIndices
  BY DEF Convs
<1>2. \A i \in ToolIndices : Block(i) > 0 /\ Block(i) \in Int
  BY BlockType
<1>3. ~ InState(c, -1)
  BY <1>1, <1>2 DEF InState
<1>4. \A i \in ToolIndices : InState(c, Block(i)) <=> i \in c.tools
  BY <1>1, <1>2, BlockType DEF InState
<1>5. QED
  BY <1>1, <1>3, <1>4 DEF Convs, InState, Blocks

LEMMA FollowsOpening ==
    ASSUME calls \in Nat, NEW s, NEW c, Follows(s, c), NEW n \in Nat
    PROVE  Follows(s \o Opening(c, n), [c EXCEPT !.started = TRUE])
<1> DEFINE d == [c EXCEPT !.started = TRUE]
           e == Event("message_start", -1, n)
<1>1. s \in Seq(Events) /\ c \in Convs
  BY DEF Follows
<1>2. /\ d \in Convs /\ d.started /\ d.stopped = c.stopped /\ d.textOpen = c.textOpen
      /\ d.tools = c.tools
  BY <1>1 DEF Convs
<1>3. \A b : InState(d, b) <=> InState(c, b)
  BY <1>2 DEF InState
<1>4. CASE c.started
  <2>1. Follows(s, d)
    BY <1>1, <1>2, <1>3, <1>4, SaidOtherwise, StatesOf
  <2>2. s \o Opening(c, n) = s
    BY <1>1, <1>4, Joins DEF Opening
  <2>3. QED
    BY <2>1, <2>2
<1>5. CASE ~ c.started
  <2>1. e \in Events /\ e.type = "message_start" /\ e.block = -1
    BY EventType DEF Event, Kinds
  <2> HIDE DEF d, e
  <2>2. MayFollow(c, e)
    BY <1>5, <2>1 DEF MayFollow
  <2>3. Becomes(c, e, d)
    BY <1>2, <1>3, <2>1 DEF Becomes
  <2>4. Follows(Append(s, e), d)
    BY <2>1, <2>2, <2>3, OneEvent
  <2>5. s \o Opening(c, n) = Append(s, e)
    BY <1>1, <1>5, <2>1, Joins DEF Opening, e
  <2>6. QED
    BY <2>4, <2>5 DEF d
<1>6. QED
  BY <1>4, <1>5

LEMMA FollowsCloseText ==
    ASSUME calls \in Nat, NEW s, NEW c, Follows(s, c), NEW n \in Nat
    PROVE  Follows(s \o CloseText(c, n), [c EXCEPT !.textOpen = FALSE])
<1> DEFINE d == [c EXCEPT !.textOpen = FALSE]
           e == Event("close", 0, n)
<1>1. s \in Seq(Events) /\ c \in Convs
  BY DEF Follows
<1>2. /\ d \in Convs /\ d.started = c.started /\ d.stopped = c.stopped /\ ~ d.textOpen
      /\ d.tools = c.tools
  BY <1>1 DEF Convs
<1>3. ~ InState(d, 0) /\ \A b : b # 0 => (InState(d, b) <=> InState(c, b))
  BY <1>2 DEF InState
<1>4. CASE ~ c.textOpen
  <2>1. \A b : InState(d, b) <=> InState(c, b)
    BY <1>2, <1>4 DEF InState
  <2>2. Follows(s, d)
    BY <1>2, <2>1, SaidOtherwise
  <2>3. s \o CloseText(c, n) = s
    BY <1>1, <1>4, Joins DEF CloseText
  <2>4. QED
    BY <2>2, <2>3
<1>5. CASE c.textOpen
  <2>1. e \in Events /\ e.type = "close" /\ e.block = 0
    BY EventType DEF Event, Kinds
  <2>2. c.started /\ InState(c, 0) /\ 0 \in Blocks
    BY <1>5, BlockType DEF Follows, InState
  <2> HIDE DEF d, e
  <2>3. MayFollow(c, e)
    BY <2>1, <2>2 DEF MayFollow
  <2>4. Becomes(c, e, d)
    BY <1>2, <1>3, <2>1, <2>2 DEF Becomes
  <2>5. Follows(Append(s, e), d)
    BY <2>1, <2>3, <2>4, OneEvent
  <2>6. s \o CloseText(c, n) = Append(s, e)
    BY <1>1, <1>5, <2>1, Joins DEF CloseText, e
  <2>7. QED
    BY <2>5, <2>6 DEF d
<1>6. QED
  BY <1>4, <1>5

LEMMA FollowsText ==
    ASSUME calls \in Nat, NEW s, NEW c, Follows(s, c), c.started, NEW n \in Nat
    PROVE  Follows(s \o TextEvents(c, n).events, TextEvents(c, n).conv)
<1> DEFINE d == [c EXCEPT !.textOpen = TRUE]
           e == Event("open", 0, n)
           f == Event("delta", 0, n)
           u == IF c.textOpen THEN s ELSE Append(s, e)
<1>1. s \in Seq(Events) /\ c \in Convs /\ 0 \in Blocks
  BY BlockType DEF Follows
<1>2. /\ d \in Convs /\ d.started /\ d.stopped = c.stopped /\ d.textOpen
      /\ d.tools = c.tools
  BY <1>1 DEF Convs
<1>3. InState(d, 0) /\ \A b : b # 0 => (InState(d, b) <=> InState(c, b))
  BY <1>2 DEF InState
<1>4. /\ e \in Events /\ e.type = "open" /\ e.block = 0
      /\ f \in Events /\ f.type = "delta" /\ f.block = 0
  BY EventType DEF Event, Kinds
<1> HIDE DEF d, e, f
<1>5. Follows(u, d)
  <2>1. CASE c.textOpen
    <3>1. \A b : InState(d, b) <=> InState(c, b)
      BY <1>2, <2>1 DEF InState
    <3>2. c.started = d.started
      BY <1>1, <1>2, StatesOf
    <3>3. QED
      BY <1>2, <2>1, <3>1, <3>2, SaidOtherwise
  <2>2. CASE ~ c.textOpen
    <3>1. ~ InState(c, 0)
      BY <2>2 DEF InState
    <3>2. MayFollow(c, e)
      BY <1>1, <1>4, <3>1 DEF MayFollow
    <3>3. Becomes(c, e, d)
      BY <1>2, <1>3, <1>4 DEF Becomes
    <3>4. QED
      BY <1>4, <2>2, <3>2, <3>3, OneEvent
  <2>3. QED
    BY <2>1, <2>2
<1>6. Follows(Append(u, f), d)
  <2> HIDE DEF u
  <2>1. MayFollow(d, f)
    BY <1>1, <1>2, <1>3, <1>4 DEF MayFollow
  <2>2. Becomes(d, f, d)
    BY <1>2, <1>4 DEF Becomes
  <2>3. QED
    BY <1>4, <1>5, <2>1, <2>2, OneEvent
<1>7. s \o TextEvents(c, n).events = Append(u, f) /\ TextEvents(c, n).conv = d
  <2>1. <<e>> \in Seq(Events) /\ <<f>> \in Seq(Events) /\ <<>> \in Seq(Events)
    BY <1>4
  <2>2. s \o ((IF c.textOpen THEN <<>> ELSE <<e>>) \o <<f>>)
        = (s \o (IF c.textOpen THEN <<>> ELSE <<e>>)) \o <<f>>
    BY <1>1, <2>1, Joins
  <2>3. u = s \o (IF c.textOpen THEN <<>> ELSE <<e>>)
    BY <1>1, <1>4, Joins
  <2>4. u \in Seq(Events)
    BY <1>5 DEF Follows
  <2> HIDE DEF u
  <2>5. u \o <<f>> = Append(u, f)
    BY <1>4, <2>4, Joins
  <2>6. QED
    BY <2>2, <2>3, <2>5 DEF TextEvents, d, e, f
<1>8. QED
  BY <1>6, <1>7

LEMMA FollowsHead ==
    ASSUME calls \in Nat, NEW s, NEW c, Follows(s, c), c.started, NEW i \in ToolIndices, NEW n \in Nat
    PROVE  Follows(s \o HeadEvents(c, i, n).events, HeadEvents(c, i, n).conv)
<1> DEFINE m == [c EXCEPT !.textOpen = FALSE]
           d == [c EXCEPT !.textOpen = FALSE, !.tools = @ \cup {i}]
           e == Event("open", Block(i), n)
           u == s \o CloseText(c, n)
<1>1. s \in Seq(Events) /\ c \in Convs
  BY DEF Follows
<1>2. CASE i \in c.tools
  BY <1>1, <1>2, Joins DEF HeadEvents
<1>3. CASE i \notin c.tools
  <2>1. /\ m \in Convs /\ m.started /\ m.stopped = c.stopped /\ ~ m.textOpen /\ m.tools = c.tools
        /\ d \in Convs /\ d.started /\ d.stopped = c.stopped /\ ~ d.textOpen
        /\ d.tools = c.tools \cup {i}
    BY <1>1 DEF Convs
  <2>2. Follows(u, m)
    BY FollowsCloseText
  <2>3. Block(i) \in Blocks /\ Block(i) # 0
    BY BlockType
  <2>4. e \in Events /\ e.type = "open" /\ e.block = Block(i)
    BY EventType, BlockType DEF Event, Kinds
  <2>5. ~ InState(m, 0) /\ ~ InState(m, Block(i))
    BY <1>3, <2>1, StatesOf
  <2>6. \A b \in Blocks : InState(d, b) <=> b = Block(i) \/ InState(m, b)
    BY <2>1, <2>3 DEF InState
  <2> HIDE DEF d, e, m, u
  <2>7. MayFollow(m, e)
    BY <2>1, <2>3, <2>4, <2>5 DEF MayFollow
  <2>8. Becomes(m, e, d)
    BY <2>1, <2>4, <2>6 DEF Becomes
  <2>9. Follows(Append(u, e), d)
    BY <2>2, <2>4, <2>7, <2>8, OneEvent
  <2>10. CloseText(c, n) \in Seq(Events)
    BY EventType DEF CloseText, Kinds
  <2>11. s \o (CloseText(c, n) \o <<e>>) = u \o <<e>> /\ u \o <<e>> = Append(u, e)
    BY <1>1, <2>4, <2>10, Joins DEF u
  <2>12. HeadEvents(c, i, n) = [events |-> CloseText(c, n) \o <<e>>, conv |-> d]
    BY <1>3 DEF HeadEvents, e, d
  <2>13. s \o HeadEvents(c, i, n).events = Append(u, e) /\ HeadEvents(c, i, n).conv = d
    BY <2>11, <2>12
  <2>14. QED
    BY <2>9, <2>13
<1>4. QED
  BY <1>2, <1>3

LEMMA FollowsArgs ==
    ASSUME calls \in Nat, NEW s, NEW c, Follows(s, c), c.started, NEW i \in ToolIndices, NEW n \in Nat
    PROVE  Follows(s \o ArgsEvents(c, i, n).events, ArgsEvents(c, i, n).conv)
<1> DEFINE e == Event("delta", Block(i), n)
<1>1. s \in Seq(Events) /\ c \in Convs
  BY DEF Follows
<1>2. CASE i \notin c.tools
  BY <1>1, <1>2, Joins DEF ArgsEvents
<1>3. CASE i \in c.tools
  <2>1. e \in Events /\ e.type = "delta" /\ e.block = Block(i)
    BY EventType, BlockType DEF Event, Kinds
  <2>2. InState(c, Block(i)) /\ Block(i) \in Blocks
    BY <1>1, <1>3, StatesOf, BlockType
  <2> HIDE DEF e
  <2>3. MayFollow(c, e)
    BY <2>1, <2>2 DEF MayFollow
  <2>4. Becomes(c, e, c)
    BY <1>1, <2>1 DEF Becomes
  <2>5. Follows(Append(s, e), c)
    BY <2>1, <2>3, <2>4, OneEvent
  <2>6. s \o <<e>> = Append(s, e)
    BY <1>1, <2>1, Joins
  <2>7. QED
    BY <1>3, <2>5, <2>6 DEF ArgsEvents, e
<1>4. QED
  BY <1>2, <1>3

\* The tool calls are closed one by one; afterwards none is open.
LEMMA FollowsCloseTools ==
    ASSUME calls \in Nat, NEW s, NEW c, Follows(s, c), c.started, NEW n \in Nat
    PROVE  Follows(s \o CloseTools(c, n), [c EXCEPT !.tools = {}])
<1> DEFINE q == SetToSeq(c.tools)
           t == CloseTools(c, n)
           left(k) == c.tools \ {q[p] : p \in 1..k}
           d(k) == [c EXCEPT !.tools = left(k)]
           T == {k \in 0..Len(q) : Follows(s \o SubSeq(t, 1, k), d(k))}
<1>1. s \in Seq(Events) /\ c \in Convs /\ c.tools \in SUBSET ToolIndices
  BY DEF Follows, Convs
<1>2. /\ t \in Seq(Events) /\ Len(t) = Len(q) /\ Len(q) \in Nat
      /\ \A p \in 1..Len(q) : /\ q[p] \in c.tools
                              /\ t[p] = Event("close", Block(q[p]), n) /\ t[p] \in Events
  BY <1>1, CloseToolsType
<1>3. /\ \A i, j \in 1..Len(q) : q[i] = q[j] => i = j
      /\ \A i \in c.tools : \E p \in 1..Len(q) : q[p] = i
  BY <1>1, ListOfSet
<1> HIDE DEF q, t
<1>4. \A k : /\ d(k) \in Convs /\ d(k).started /\ d(k).stopped = c.stopped
             /\ d(k).textOpen = c.textOpen /\ d(k).tools = left(k)
  BY <1>1 DEF Convs
<1>5. 0 \in T
  <2>1. left(0) = c.tools
    OBVIOUS
  <2>2. d(0) = c
    BY <1>1, <2>1 DEF Convs
  <2>3. SubSeq(t, 1, 0) = <<>>
    BY SubSeqEmpty
  <2>4. s \o SubSeq(t, 1, 0) = s
    BY <1>1, <2>3, Joins
  <2>5. Follows(s \o SubSeq(t, 1, 0), d(0))
    <3> HIDE DEF d
    <3>1. QED
      BY <2>2, <2>4
  <2>6. 0 \in 0..Len(q)
    BY <1>2
  <2> HIDE DEF d
  <2>7. QED
    BY <2>5, <2>6
<1>6. ASSUME NEW k \in 1..Len(q), k - 1 \in T
      PROVE  k \in T
  <2> DEFINE u == s \o SubSeq(t, 1, k - 1)
             e == t[k]
             i == q[k]
  <2>1. Follows(u, d(k - 1)) /\ k \in 0..Len(q)
    BY <1>6
  <2>2. e \in Events /\ e.type = "close" /\ e.block = Block(i) /\ i \in c.tools /\ i \in ToolIndices
    <3>1. e \in Events /\ e = Event("close", Block(i), n) /\ i \in c.tools
      BY <1>2
    <3>2. QED
      BY <1>1, <3>1 DEF Event
  <2>3. left(k) = left(k - 1) \ {i} /\ i \in left(k - 1)
    <3>1. 1..k = (1..(k - 1)) \cup {k} /\ \A p \in 1..(k - 1) : p \in 1..Len(q) /\ p # k
      BY <1>2
    <3>2. \A p \in 1..(k - 1) : q[p] # i
      BY <1>3, <3>1
    <3>3. QED
      BY <2>2, <3>1, <3>2
  <2>4. u \in Seq(Events)
    BY <2>1 DEF Follows
  <2>5. s \o SubSeq(t, 1, k) = Append(u, e)
    <3>1. SubSeq(t, 1, k) = SubSeq(t, 1, k - 1) \o <<e>>
      <4>1. SubSeq(t, k, k) = <<e>>
        <5>1. /\ SubSeq(t, k, k) \in Seq(Events) /\ Len(SubSeq(t, k, k)) = 1
              /\ SubSeq(t, k, k)[1] = e
          BY <1>2, SubSeqProperties
        <5>2. SubSeq(t, k, k) = <<SubSeq(t, k, k)[1]>>
          BY <5>1, OnlyOne
        <5>3. QED
          BY <5>1, <5>2
      <4>2. k - 1 + 1 = k
        BY <1>2
      <4>3. SubSeq(t, 1, k - 1) \o SubSeq(t, k - 1 + 1, k) = SubSeq(t, 1, k)
        BY <1>2, ConcatAdjacentSubSeq
      <4>4. QED
        BY <4>1, <4>2, <4>3
    <3>2. SubSeq(t, 1, k - 1) \in Seq(Events)
      BY <1>2, SubSeqProperties
    <3>3. QED
      BY <1>1, <2>2, <2>4, <3>1, <3>2, Joins
  <2> HIDE DEF u, e, i, left
  <2> DEFINE x == d(k - 1)
             y == d(k)
  <2>7. /\ x \in Convs /\ x.started /\ x.stopped = c.stopped /\ x.textOpen = c.textOpen
        /\ x.tools = left(k - 1)
        /\ y \in Convs /\ y.started /\ y.stopped = c.stopped /\ y.textOpen = c.textOpen
        /\ y.tools = left(k - 1) \ {i}
    BY <1>4, <2>3
  <2>8. Follows(u, x)
    BY <2>1
  <2> HIDE DEF x, y
  <2>9. Block(i) \in Blocks /\ Block(i) # 0 /\ InState(x, Block(i))
    BY <2>2, <2>3, <2>7, StatesOf, BlockType
  <2>10. MayFollow(x, e)
    BY <2>2, <2>7, <2>9 DEF MayFollow
  <2>11. \A b \in Blocks : InState(y, b) <=> b # Block(i) /\ InState(x, b)
    <3> TAKE b \in Blocks
    <3>1. CASE b \in {-1, 0}
      <4>1. (InState(y, b) <=> b = 0 /\ y.textOpen) /\ (InState(x, b) <=> b = 0 /\ x.textOpen)
        BY <2>7, <3>1, StatesOf
      <4>2. Block(i) # b
        BY <2>2, <3>1, BlockType
      <4>3. QED
        BY <2>7, <4>1, <4>2
    <3>2. ASSUME NEW j \in ToolIndices, b = Block(j)
          PROVE  InState(y, b) <=> b # Block(i) /\ InState(x, b)
      <4>1. (InState(y, b) <=> j \in y.tools) /\ (InState(x, b) <=> j \in x.tools)
        BY <2>7, <3>2, StatesOf
      <4>2. b = Block(i) <=> i = j
        BY <2>2, <3>2, BlockType
      <4>3. QED
        BY <2>7, <4>1, <4>2
    <3>3. QED
      BY <2>7, <3>1, <3>2, StatesOf
  <2>12. Becomes(x, e, y)
    BY <2>2, <2>7, <2>11 DEF Becomes
  <2>13. Follows(Append(u, e), y)
    BY <2>2, <2>8, <2>10, <2>12, OneEvent
  <2>14. QED
    BY <2>1, <2>5, <2>13 DEF y
<1>7. Len(q) \in T
  <2> HIDE DEF T
  <2>1. 0..Len(q) \subseteq T
    BY <1>2, <1>5, <1>6, UpTo
  <2>2. QED
    BY <1>2, <2>1
<1>8. Follows(s \o SubSeq(t, 1, Len(q)), d(Len(q)))
  BY <1>7
<1>9. left(Len(q)) = {}
  BY <1>3
<1>10. SubSeq(t, 1, Len(q)) = t
  <2>1. /\ SubSeq(t, 1, Len(q)) \in Seq(Events) /\ Len(SubSeq(t, 1, Len(q))) = Len(q)
        /\ \A p \in 1..Len(q) : SubSeq(t, 1, Len(q))[p] = t[p]
    BY <1>2, SubSeqProperties
  <2>2. QED
    BY <1>2, <2>1
<1>11. QED
  BY <1>8, <1>9, <1>10 DEF t

\* After the stop nothing is said of the blocks.
LEMMA FollowsFinish ==
    ASSUME calls \in Nat, NEW s, NEW c, Follows(s, c), c.started, NEW n \in Nat
    PROVE  Follows(s \o FinishEvents(c, n).events, FinishEvents(c, n).conv)
<1> DEFINE c1 == [c EXCEPT !.textOpen = FALSE]
           c2 == [c1 EXCEPT !.tools = {}]
           c3 == [c2 EXCEPT !.stopped = TRUE]
           c4 == [c EXCEPT !.textOpen = FALSE, !.stopped = TRUE]
           s1 == s \o CloseText(c, n)
           s2 == s1 \o CloseTools(c, n)
           e == Event("message_delta", -1, n)
           f == Event("message_stop", -1, n)
<1>1. s \in Seq(Events) /\ c \in Convs
  BY DEF Follows
<1>2. /\ c1 \in Convs /\ c1.started /\ c1.stopped = c.stopped /\ ~ c1.textOpen /\ c1.tools = c.tools
      /\ c2 \in Convs /\ c2.started /\ c2.stopped = c.stopped /\ ~ c2.textOpen /\ c2.tools = {}
      /\ c3 \in Convs /\ c3.started /\ c3.stopped /\ ~ c3.textOpen
      /\ c4 \in Convs /\ c4.started /\ c4.stopped /\ ~ c4.textOpen
  BY <1>1 DEF Convs
<1>3. /\ e \in Events /\ e.type = "message_delta" /\ e.block = -1
      /\ f \in Events /\ f.type = "message_stop" /\ f.block = -1
  BY EventType DEF Event, Kinds
<1>4. CloseText(c, n) \in Seq(Events) /\ CloseTools(c, n) \in Seq(Events)
  BY <1>1, CloseToolsType, EventType DEF CloseText, Kinds
<1>5. Follows(s1, c1)
  BY FollowsCloseText
<1>6. CloseTools(c1, n) = CloseTools(c, n)
  BY <1>2 DEF CloseTools
<1> HIDE DEF c1
<1>7. Follows(s2, c2)
  <2>1. Follows(s1 \o CloseTools(c1, n), [c1 EXCEPT !.tools = {}])
    <3> HIDE DEF s1
    <3>1. QED
      BY <1>2, <1>5, FollowsCloseTools
  <2>2. QED
    BY <1>6, <2>1
<1> HIDE DEF c2, c3, c4, s1, s2, e, f
<1>8. Follows(Append(s2, e), c2)
  <2>1. \A b \in Blocks : ~ InState(c2, b)
    BY <1>2 DEF InState
  <2>2. MayFollow(c2, e)
    BY <1>2, <1>3, <2>1 DEF MayFollow
  <2>3. Becomes(c2, e, c2)
    BY <1>2, <1>3 DEF Becomes
  <2>4. QED
    BY <1>3, <1>7, <2>2, <2>3, OneEvent
<1>9. Follows(Append(Append(s2, e), f), c3)
  <2>1. MayFollow(c2, f)
    BY <1>2, <1>3 DEF MayFollow
  <2>2. Becomes(c2, f, c3)
    BY <1>2, <1>3 DEF Becomes
  <2>3. QED
    BY <1>3, <1>8, <2>1, <2>2, OneEvent
<1>10. Follows(Append(Append(s2, e), f), c4)
  <2>1. c3.started = c4.started /\ c3.stopped = c4.stopped
    BY <1>2 DEF Convs
  <2>2. QED
    BY <1>2, <1>9, <2>1, SaidOtherwise
<1>11. s \o FinishEvents(c, n).events = Append(Append(s2, e), f)
  <2>1. s1 \in Seq(Events) /\ s2 \in Seq(Events) /\ Append(s2, e) \in Seq(Events)
    BY <1>5, <1>7, <1>8 DEF Follows
  <2>2. <<e>> \in Seq(Events) /\ <<f>> \in Seq(Events) /\ <<e, f>> = <<e>> \o <<f>>
        /\ <<e, f>> \in Seq(Events)
    BY <1>3, Joins, TwoEvents
  <2>3. CloseText(c, n) \o CloseTools(c, n) \in Seq(Events)
        /\ s \o (CloseText(c, n) \o CloseTools(c, n)) = s2
    BY <1>1, <1>4, Joins DEF s1, s2
  <2>4. s2 \o <<e, f>> = (s2 \o <<e>>) \o <<f>>
    BY <2>1, <2>2, Joins
  <2>5. (s2 \o <<e>>) \o <<f>> = Append(Append(s2, e), f)
    BY <1>3, <2>1, Joins
  <2>6. FinishEvents(c, n).events = (CloseText(c, n) \o CloseTools(c, n)) \o <<e, f>>
    BY DEF FinishEvents, e, f
  <2>7. s \o ((CloseText(c, n) \o CloseTools(c, n)) \o <<e, f>>) = s2 \o <<e, f>>
    BY <1>1, <2>2, <2>3, Joins
  <2>8. QED
    BY <2>4, <2>5, <2>6, <2>7
<1>12. FinishEvents(c, n).conv = c4
  BY DEF FinishEvents, c4
<1>13. QED
  BY <1>10, <1>11, <1>12

LEMMA FollowsDone ==
    ASSUME calls \in Nat, NEW s, NEW c, Follows(s, c), NEW n \in Nat
    PROVE  Follows(s \o DoneEvents(c, n).events, DoneEvents(c, n).conv)
<1> DEFINE c1 == [c EXCEPT !.textOpen = FALSE]
           c2 == [c EXCEPT !.textOpen = FALSE, !.stopped = c.stopped \/ c.started]
           s1 == s \o CloseText(c, n)
           f == Event("message_stop", -1, n)
<1>1. s \in Seq(Events) /\ c \in Convs
  BY DEF Follows
<1>2. /\ c1 \in Convs /\ c1.started = c.started /\ c1.stopped = c.stopped /\ ~ c1.textOpen
      /\ c1.tools = c.tools
      /\ c2 \in Convs /\ c2.started = c.started /\ c2.stopped = (c.stopped \/ c.started)
      /\ ~ c2.textOpen /\ c2.tools = c.tools
  <2>1. (c.stopped \/ c.started) \in BOOLEAN
    OBVIOUS
  <2>2. QED
    BY <1>1, <2>1 DEF Convs
<1>3. f \in Events /\ f.type = "message_stop" /\ f.block = -1
  BY EventType DEF Event, Kinds
<1>4. Follows(s1, c1)
  BY FollowsCloseText
<1>5. CloseText(c, n) \in Seq(Events) /\ s1 \in Seq(Events)
  <2>1. CloseText(c, n) \in Seq(Events)
    BY EventType DEF CloseText, Kinds
  <2>2. QED
    BY <1>1, <2>1, Joins
<1>6. DoneEvents(c, n).conv = c2
      /\ DoneEvents(c, n).events = CloseText(c, n) \o (IF c.started /\ ~ c.stopped THEN <<f>> ELSE <<>>)
  BY DEF DoneEvents
<1> HIDE DEF c1, c2, f, s1
<1>7. CASE c.started /\ ~ c.stopped
  <2>1. MayFollow(c1, f)
    BY <1>2, <1>3, <1>7 DEF MayFollow
  <2>2. Becomes(c1, f, c2)
    BY <1>2, <1>3, <1>7 DEF Becomes
  <2>3. Follows(Append(s1, f), c2)
    BY <1>3, <1>4, <2>1, <2>2, OneEvent
  <2>4. s \o (CloseText(c, n) \o <<f>>) = Append(s1, f)
    BY <1>1, <1>3, <1>5, Joins DEF s1
  <2>5. QED
    BY <1>6, <1>7, <2>3, <2>4
<1>8. CASE ~ (c.started /\ ~ c.stopped)
  <2>1. c2.stopped = c1.stopped
    BY <1>1, <1>2, <1>8 DEF Convs
  <2>2. \A b : InState(c2, b) <=> InState(c1, b)
    BY <1>2 DEF InState
  <2>3. Follows(s1, c2)
    BY <1>2, <1>4, <2>1, <2>2, SaidOtherwise
  <2>4. s \o (CloseText(c, n) \o <<>>) = s1
    BY <1>1, <1>5, Joins DEF s1
  <2>5. QED
    BY <1>6, <1>8, <2>3, <2>4
<1>9. QED
  BY <1>7, <1>8

LEMMA FollowsChunk ==
    ASSUME calls \in Nat, NEW s, NEW c, Follows(s, c), NEW line \in Chunks, NEW n \in Nat
    PROVE  Follows(s \o ChunkEvents(c, line, n).events, ChunkEvents(c, line, n).conv)
<1> DEFINE begun == [c EXCEPT !.started = TRUE]
           s1 == s \o Opening(c, n)
           rest == CASE line.kind = "text" -> TextEvents(begun, n)
                     [] line.kind = "head" -> HeadEvents(begun, line.tool, n)
                     [] line.kind = "args" -> ArgsEvents(begun, line.tool, n)
                     [] line.kind = "finish" -> FinishEvents(begun, n)
                     [] OTHER -> [events |-> <<>>, conv |-> begun]
<1>1. s \in Seq(Events) /\ c \in Convs
  BY DEF Follows
<1>2. begun \in Convs /\ begun.started
  BY <1>1 DEF Convs
<1>3. Follows(s1, begun)
  BY FollowsOpening
<1>4. Opening(c, n) \in Seq(Events) /\ s1 \in Seq(Events)
  <2>1. Opening(c, n) \in Seq(Events)
    BY EventType DEF Opening, Kinds
  <2>2. QED
    BY <1>1, <2>1, Joins
<1>5. line.kind \in {"head", "args"} => line.tool \in ToolIndices
  BY ChunkType
<1>6. ChunkEvents(c, line, n) = [events |-> Opening(c, n) \o rest.events, conv |-> rest.conv]
  BY DEF ChunkEvents
<1> HIDE DEF begun, s1
<1>7. Follows(s1 \o rest.events, rest.conv)
  <2>1. CASE line.kind = "text"
    BY <1>2, <1>3, <2>1, FollowsText
  <2>2. CASE line.kind = "head"
    BY <1>2, <1>3, <1>5, <2>2, FollowsHead
  <2>3. CASE line.kind = "args"
    BY <1>2, <1>3, <1>5, <2>3, FollowsArgs
  <2>4. CASE line.kind = "finish"
    BY <1>2, <1>3, <2>4, FollowsFinish
  <2>5. CASE line.kind \notin {"text", "head", "args", "finish"}
    BY <1>3, <1>4, <2>5, Joins
  <2>6. QED
    BY <2>1, <2>2, <2>3, <2>4, <2>5
<1>8. rest.events \in Seq(Events)
  BY <1>2, <1>5, PartTypes, Joins
<1> HIDE DEF rest
<1>9. s1 \o rest.events = s \o (Opening(c, n) \o rest.events)
  <2>1. \A u \in Seq(Events) : s1 \o u = s \o (Opening(c, n) \o u)
    BY <1>1, <1>4, Joins DEF s1
  <2>2. QED
    BY <1>8, <2>1
<1>10. QED
  BY <1>6, <1>7, <1>9

\* The state of the conversion follows what has been sent.
Nested == route = "anthropic" => Follows(sent, conv)

LEMMA InitNested == Init => Nested
<1> SUFFICES ASSUME Init PROVE Follows(<<>>, NoConv)
  BY DEF Init, Nested
<1>1. NoConv \in Convs /\ ~ NoConv.started /\ ~ NoConv.textOpen /\ ~ NoConv.stopped /\ NoConv.tools = {}
  BY DEF NoConv, Convs
<1>2. \A type, block : All(<<>>, type, block) = 0
  BY FS_EmptySet DEF All, Num
<1>3. \A b : ~ InState(NoConv, b)
  BY <1>1 DEF InState
<1> HIDE DEF NoConv
<1>4. <<>> \in Seq(Events) /\ Len(<<>>) = 0
  OBVIOUS
<1>5. QED
  BY <1>1, <1>2, <1>3, <1>4 DEF Follows

\* A step sends nothing, one chunk, or the end.
LEMMA Sending ==
    ASSUME Typed, [Next]_vars
    PROVE  /\ route' = route
           /\ \/ UNCHANGED <<conv, sent>>
              \/ \E line \in Chunks \ {Junk} : Forwarded(line)
              \/ Closed
<1>1. ASSUME Convert
      PROVE  UNCHANGED <<conv, sent>> \/ \E line \in Chunks \ {Junk} : Forwarded(line)
  <2>1. Head(wire) \in Chunks
    BY <1>1, HeadTailProperties DEF Convert, Typed
  <2>2. QED
    BY <1>1, <2>1 DEF Convert
<1>2. ASSUME FakeBegin
      PROVE  \E line \in Chunks \ {Junk} : Forwarded(line)
  <2>1. Usage \in Chunks \ {Junk}
    BY DEF Chunks, Lines, Usage, Junk
  <2>2. QED
    BY <1>2, <2>1 DEF FakeBegin
<1>3. (\E o \in Outcomes : Answer(o) \/ AnswerAgain(o)) \/ Begin \/ Beat \/ Disconnect
      \/ (\E line \in Lines : Receive(line)) => UNCHANGED <<route, conv, sent>>
  BY DEF Answer, AnswerAgain, Begin, Beat, Disconnect, Receive, callVars, streamVars
<1>4. End \/ Fail \/ RaiseAgain \/ FakeBeat \/ (\E a \in FakeAnswers : FakeAnswer(a))
      => UNCHANGED <<route, conv, sent>>
  BY DEF End, Fail, RaiseAgain, GiveUp, FakeBeat, FakeAnswer, callVars, streamVars
<1>5. Convert \/ FakeBegin \/ Closed => route' = route
  BY DEF Convert, FakeBegin, Closed
<1>6. UNCHANGED vars => UNCHANGED <<route, conv, sent>>
  BY DEF vars, streamVars
<1>7. QED
  BY <1>1, <1>2, <1>3, <1>4, <1>5, <1>6 DEF Next

LEMMA NextNested ==
    ASSUME Typed, Nested, [Next]_vars
    PROVE  Nested'
<1> SUFFICES ASSUME route = "anthropic" PROVE Follows(sent', conv')
  BY Sending DEF Nested
<1>1. calls \in Nat /\ Len(lines) \in Nat /\ Follows(sent, conv)
  BY RelayAssumption, LenProperties DEF Typed, Nested
<1>2. ASSUME NEW line \in Chunks \ {Junk}, Forwarded(line)
      PROVE  Follows(sent', conv')
  <2>1. Follows(sent \o ChunkEvents(conv, line, Len(lines)).events, ChunkEvents(conv, line, Len(lines)).conv)
    BY <1>1, FollowsChunk
  <2>2. QED
    BY <1>2, <2>1 DEF Forwarded, Send
<1>3. CASE Closed
  <2>1. Follows(sent \o DoneEvents(conv, Len(lines)).events, DoneEvents(conv, Len(lines)).conv)
    BY <1>1, FollowsDone
  <2>2. QED
    BY <1>3, <2>1 DEF Closed
<1>4. CASE UNCHANGED <<conv, sent>>
  BY <1>1, <1>4
<1>5. QED
  BY <1>2, <1>3, <1>4, Sending

\* Whatever comes in, and in whatever order, the events a client of the
\* Anthropic protocol gets are nested.
THEOREM TheEventsNest == Spec => []EventsNest
<1>1. Typed /\ Nested => EventsNest
  <2> SUFFICES ASSUME Typed, Nested, route = "anthropic", NEW k \in DOMAIN sent
               PROVE  Well(sent, k)
    BY DEF EventsNest, Well, Num
  <2>1. k \in 1..Len(sent)
    BY LenProperties DEF Typed
  <2>2. QED
    BY <2>1 DEF Nested, Follows
<1>2. QED
  BY <1>1, InitBudget, NextBudget, InitNested, NextNested, PTL DEF Spec

-----------------------------------------------------------------------------
(* One response, once and in order                                           *)

\* Parts of RelaysOneResponse, for any sequences.
Deltas(s) == {k \in 1..Len(s) : IsDelta(s[k])}
UsefulIn(r, ls, k) ==
    \/ ls[k].kind = "text"
    \/ ls[k].kind = "args"
       /\ (r = "anthropic" => \E j \in 1..(k - 1) : ls[j] = ToolHead(ls[k].tool))
AllUseful(r, ls, m) == {j \in 1..m : UsefulIn(r, ls, j)}
Matches(s, useful, call) ==
    /\ Cardinality(Deltas(s)) = Cardinality(useful)
    /\ \A k \in Deltas(s) :
          /\ s[k].call = call /\ s[k].line \in useful
          /\ Cardinality({j \in Deltas(s) : j < k}) = Cardinality({j \in useful : j < s[k].line})

Plain(t) == t \in Seq(Events) /\ Deltas(t) = {}

LEMMA PlainJoins ==
    /\ Plain(<<>>)
    /\ \A t, u : Plain(t) /\ Plain(u) => Plain(t \o u)
    /\ \A e \in Events : ~ IsDelta(e) => Plain(<<e>>)
<1>1. Plain(<<>>)
  BY DEF Plain, Deltas
<1>2. ASSUME NEW t, NEW u, Plain(t), Plain(u)
      PROVE  Plain(t \o u)
  <2>1. t \in Seq(Events) /\ u \in Seq(Events) /\ Len(t) \in Nat /\ Len(u) \in Nat
        /\ (\A k \in 1..Len(t) : ~ IsDelta(t[k])) /\ (\A k \in 1..Len(u) : ~ IsDelta(u[k]))
    BY <1>2, LenProperties DEF Plain, Deltas
  <2>2. /\ t \o u \in Seq(Events) /\ Len(t \o u) = Len(t) + Len(u)
        /\ \A k \in 1..(Len(t) + Len(u)) : (t \o u)[k] = IF k <= Len(t) THEN t[k] ELSE u[k - Len(t)]
    BY <2>1, ConcatProperties
  <2>3. \A k \in 1..(Len(t) + Len(u)) : ~ IsDelta((t \o u)[k])
    <3> TAKE k \in 1..(Len(t) + Len(u))
    <3>1. CASE k <= Len(t)
      BY <2>1, <2>2, <3>1
    <3>2. CASE ~ (k <= Len(t))
      <4>1. k - Len(t) \in 1..Len(u)
        BY <2>1, <3>2
      <4>2. QED
        BY <2>1, <2>2, <3>2, <4>1
    <3>3. QED
      BY <3>1, <3>2
  <2>4. QED
    BY <2>2, <2>3 DEF Plain, Deltas
<1>3. ASSUME NEW e \in Events, ~ IsDelta(e)
      PROVE  Plain(<<e>>)
  <2>1. <<e>> \in Seq(Events) /\ Len(<<e>>) = 1 /\ <<e>>[1] = e
    OBVIOUS
  <2>2. \A k \in 1..1 : k = 1
    OBVIOUS
  <2>3. QED
    BY <1>3, <2>1, <2>2 DEF Plain, Deltas
<1>4. QED
  BY <1>1, <1>2, <1>3

LEMMA PlainParts ==
    ASSUME calls \in Nat, NEW n \in Nat, NEW c \in Convs
    PROVE  /\ Plain(Opening(c, n)) /\ Plain(CloseText(c, n)) /\ Plain(CloseTools(c, n))
           /\ Plain(FinishEvents(c, n).events)
           /\ \A i \in ToolIndices : Plain(HeadEvents(c, i, n).events)
<1>1. \A type \in {"message_start", "open", "close", "message_delta", "message_stop"}, b \in Int :
        Plain(<<Event(type, b, n)>>)
  <2> TAKE type \in {"message_start", "open", "close", "message_delta", "message_stop"}, b \in Int
  <2>1. Event(type, b, n) \in Events
    BY EventType DEF Kinds
  <2>2. ~ IsDelta(Event(type, b, n))
    BY DEF IsDelta, Event
  <2>3. QED
    BY <2>1, <2>2, PlainJoins
<1>2. Plain(Opening(c, n)) /\ Plain(CloseText(c, n))
  BY <1>1, PlainJoins DEF Opening, CloseText
<1>3. Plain(CloseTools(c, n))
  <2> DEFINE t == CloseTools(c, n)
             q == SetToSeq(c.tools)
  <2>1. t \in Seq(Events) /\ Len(t) = Len(q)
        /\ \A p \in 1..Len(q) : t[p] = Event("close", Block(q[p]), n)
    BY CloseToolsType
  <2> HIDE DEF t, q
  <2>2. \A b : ~ IsDelta(Event("close", b, n))
    BY DEF IsDelta, Event
  <2>3. \A p \in 1..Len(q) : ~ IsDelta(t[p])
    BY <2>1, <2>2
  <2>4. Plain(t)
    BY <2>1, <2>3 DEF Plain, Deltas
  <2>5. QED
    BY <2>4 DEF t
<1>4. Plain(<<Event("message_delta", -1, n), Event("message_stop", -1, n)>>)
  <2>1. Event("message_delta", -1, n) \in Events /\ Event("message_stop", -1, n) \in Events
    BY EventType DEF Kinds
  <2>2. Plain(<<Event("message_delta", -1, n)>>) /\ Plain(<<Event("message_stop", -1, n)>>)
    BY <1>1
  <2>3. QED
    BY <2>1, <2>2, PlainJoins, TwoEvents
<1>5. Plain(FinishEvents(c, n).events)
  BY <1>2, <1>3, <1>4, PlainJoins DEF FinishEvents
<1>6. ASSUME NEW i \in ToolIndices
      PROVE  Plain(HeadEvents(c, i, n).events)
  <2>1. Plain(<<Event("open", Block(i), n)>>)
    BY <1>1, BlockType
  <2>2. QED
    BY <1>2, <2>1, PlainJoins DEF HeadEvents
<1>7. QED
  BY <1>2, <1>3, <1>5, <1>6

LEMMA PartTools ==
    ASSUME NEW n, NEW d \in Convs
    PROVE  /\ TextEvents(d, n).conv.tools = d.tools
           /\ \A i : /\ HeadEvents(d, i, n).conv.tools = d.tools \cup {i}
                    /\ ArgsEvents(d, i, n).conv.tools = d.tools
           /\ FinishEvents(d, n).conv.tools = d.tools
<1>1. TextEvents(d, n).conv.tools = d.tools
  BY DEF TextEvents, Convs
<1>2. ASSUME NEW i
      PROVE  HeadEvents(d, i, n).conv.tools = d.tools \cup {i}
  <2>1. CASE i \in d.tools
    BY <2>1 DEF HeadEvents
  <2>2. CASE i \notin d.tools
    <3>1. HeadEvents(d, i, n).conv = [d EXCEPT !.textOpen = FALSE, !.tools = d.tools \cup {i}]
      BY <2>2 DEF HeadEvents
    <3>2. QED
      BY <3>1 DEF Convs
  <2>3. QED
    BY <2>1, <2>2
<1>3. FinishEvents(d, n).conv.tools = d.tools
  BY DEF FinishEvents, Convs
<1>4. QED
  BY <1>1, <1>2, <1>3 DEF ArgsEvents

\* A useful line is sent as one delta, at the end of what is sent for it;
\* other lines are sent without one.
Carried(c, line) ==
    \/ line.kind = "text"
    \/ line.kind = "args" /\ (route = "anthropic" => line.tool \in c.tools)

EndsInDelta(events, n) ==
    \E t, e : /\ Plain(t) /\ e \in Events
             /\ IsDelta(e) /\ e.call = calls /\ e.line = n
             /\ events = t \o <<e>>

LEMMA OneDelta ==
    ASSUME calls \in Nat, route \in Routes, NEW n \in Nat, NEW c \in Convs,
           NEW line \in Lines, line # Junk
    PROVE  /\ ~ Carried(c, line) => Plain(Send(c, line, n).events)
           /\ Carried(c, line) => EndsInDelta(Send(c, line, n).events, n)
           /\ route = "anthropic" =>
                 Send(c, line, n).conv.tools =
                    c.tools \cup (IF line.kind = "head" THEN {line.tool} ELSE {})
<1>1. /\ line.kind \in {"text", "finish", "usage", "head", "args", "error"}
      /\ line.kind \in {"head", "args"} <=> line.tool \in ToolIndices
      /\ line.tool \in Int
  BY ChunkType DEF Chunks
<1>2. CASE route # "anthropic"
  <2> DEFINE e == Event(line.kind, line.tool, n)
  <2>1. e \in Events
    BY <1>1, EventType DEF Kinds
  <2>2. e.call = calls /\ e.line = n /\ e.type = line.kind
    BY DEF Event
  <2>3. Send(c, line, n).events = <<e>>
    BY <1>2, RelayAssumption DEF Send
  <2> HIDE DEF e
  <2>4. CASE Carried(c, line)
    <3>1. IsDelta(e)
      BY <2>2, <2>4 DEF Carried, IsDelta
    <3>2. <<>> \o <<e>> = <<e>>
      BY <2>1, Joins
    <3>3. QED
      BY <1>2, <2>1, <2>2, <2>3, <2>4, <3>1, <3>2, PlainJoins DEF EndsInDelta
  <2>5. CASE ~ Carried(c, line)
    <3>1. ~ IsDelta(e)
      BY <1>1, <1>2, <2>2, <2>5 DEF Carried, IsDelta
    <3>2. QED
      BY <1>2, <2>1, <2>3, <2>5, <3>1, PlainJoins
  <2>6. QED
    BY <2>4, <2>5
<1>3. CASE route = "anthropic"
  <2> DEFINE begun == [c EXCEPT !.started = TRUE]
             o == Opening(c, n)
             rest == CASE line.kind = "text" -> TextEvents(begun, n)
                       [] line.kind = "head" -> HeadEvents(begun, line.tool, n)
                       [] line.kind = "args" -> ArgsEvents(begun, line.tool, n)
                       [] line.kind = "finish" -> FinishEvents(begun, n)
                       [] OTHER -> [events |-> <<>>, conv |-> begun]
  <2>1. begun \in Convs /\ begun.textOpen = c.textOpen /\ begun.tools = c.tools
    BY DEF Convs
  <2>2. Send(c, line, n) = [events |-> o \o rest.events, conv |-> rest.conv]
    BY <1>3 DEF Send, ChunkEvents
  <2>3. Plain(o)
    BY PlainParts
  <2> HIDE DEF begun, o
  <2>4. CASE line.kind = "text"
    <3> DEFINE p == IF begun.textOpen THEN <<>> ELSE <<Event("open", 0, n)>>
               e == Event("delta", 0, n)
    <3>0. rest = TextEvents(begun, n)
      BY <2>4
    <3>1. Send(c, line, n).events = o \o (p \o <<e>>)
      <4>1. rest.events = p \o <<e>>
        BY <3>0 DEF TextEvents
      <4> HIDE DEF rest, p, e
      <4>2. QED
        BY <2>2, <4>1
    <3>2. e \in Events /\ Event("open", 0, n) \in Events
      BY EventType DEF Kinds
    <3>3. IsDelta(e) /\ e.call = calls /\ e.line = n /\ ~ IsDelta(Event("open", 0, n))
      BY DEF IsDelta, Event
    <3>4. Plain(p)
      BY <3>2, <3>3, PlainJoins
    <3> HIDE DEF p, e
    <3>5. Plain(o \o p)
      BY <2>3, <3>4, PlainJoins
    <3>6. o \o (p \o <<e>>) = (o \o p) \o <<e>>
      BY <2>3, <3>2, <3>4, Joins DEF Plain
    <3>7. rest.conv.tools = c.tools
      BY <2>1, <3>0, PartTools
    <3> HIDE DEF rest
    <3>8. Send(c, line, n).conv.tools = c.tools
      BY <2>2, <3>7
    <3>9. Carried(c, line)
      BY <2>4 DEF Carried
    <3>10. Send(c, line, n).events = (o \o p) \o <<e>>
      BY <3>1, <3>6
    <3>11. QED
      BY <2>4, <3>2, <3>3, <3>5, <3>8, <3>9, <3>10 DEF EndsInDelta
  <2>5. CASE line.kind = "head"
    <3>1. rest = HeadEvents(begun, line.tool, n) /\ line.tool \in ToolIndices
      BY <1>1, <2>5
    <3>2. rest.conv.tools = c.tools \cup {line.tool}
      BY <2>1, <3>1, PartTools
    <3>3. Plain(rest.events)
      BY <2>1, <3>1, PlainParts
    <3> HIDE DEF rest
    <3>4. Plain(Send(c, line, n).events) /\ Send(c, line, n).conv.tools = c.tools \cup {line.tool}
      BY <2>2, <2>3, <3>2, <3>3, PlainJoins
    <3>5. ~ Carried(c, line)
      BY <2>5 DEF Carried
    <3>6. QED
      BY <2>5, <3>4, <3>5
  <2>6. CASE line.kind = "args"
    <3> DEFINE e == Event("delta", Block(line.tool), n)
    <3>1. rest = ArgsEvents(begun, line.tool, n) /\ line.tool \in ToolIndices
      BY <1>1, <2>6
    <3>2. rest.conv.tools = c.tools
      BY <2>1, <3>1 DEF ArgsEvents
    <3>3. rest.events = IF line.tool \in c.tools THEN <<e>> ELSE <<>>
      BY <2>1, <3>1 DEF ArgsEvents
    <3>4. e \in Events
      BY <3>1, EventType, BlockType DEF Kinds
    <3>5. IsDelta(e) /\ e.call = calls /\ e.line = n
      BY DEF IsDelta, Event
    <3> HIDE DEF rest, e
    <3>6. Send(c, line, n).conv.tools = c.tools
      BY <2>2, <3>2
    <3>7. Carried(c, line) <=> line.tool \in c.tools
      BY <1>3, <2>6 DEF Carried
    <3>8. CASE line.tool \in c.tools
      <4>1. Send(c, line, n).events = o \o <<e>>
        BY <2>2, <3>3, <3>8
      <4>2. QED
        BY <2>3, <2>6, <3>4, <3>5, <3>6, <3>7, <3>8, <4>1 DEF EndsInDelta
    <3>9. CASE line.tool \notin c.tools
      <4>1. Send(c, line, n).events = o \o <<>>
        BY <2>2, <3>3, <3>9
      <4>2. Plain(Send(c, line, n).events)
        BY <2>3, <4>1, PlainJoins
      <4>3. QED
        BY <2>6, <3>6, <3>7, <3>9, <4>2
    <3>10. QED
      BY <3>8, <3>9
  <2>7. CASE line.kind \notin {"text", "head", "args"}
    <3>1. Plain(rest.events) /\ rest.conv.tools = c.tools
      <4>1. CASE line.kind = "finish"
        <5>1. rest = FinishEvents(begun, n)
          BY <4>1
        <5>2. rest.conv.tools = c.tools
          BY <2>1, <5>1, PartTools
        <5>3. QED
          BY <2>1, <5>1, <5>2, PlainParts
      <4>2. CASE line.kind # "finish"
        BY <2>1, <2>7, <4>2, PlainJoins
      <4>3. QED
        BY <4>1, <4>2
    <3> HIDE DEF rest
    <3>2. Plain(Send(c, line, n).events) /\ Send(c, line, n).conv.tools = c.tools
      BY <2>2, <2>3, <3>1, PlainJoins
    <3>3. ~ Carried(c, line)
      BY <2>7 DEF Carried
    <3>4. QED
      BY <2>7, <3>2, <3>3
  <2>8. QED
    BY <2>4, <2>5, <2>6, <2>7
<1>4. QED
  BY <1>2, <1>3

LEMMA MatchesPlain ==
    ASSUME NEW s \in Seq(Events), NEW t, Plain(t), NEW U, NEW call, Matches(s, U, call)
    PROVE  Matches(s \o t, U, call)
<1> DEFINE w == s \o t
<1>1. /\ t \in Seq(Events) /\ Len(s) \in Nat /\ Len(t) \in Nat /\ Len(w) = Len(s) + Len(t)
      /\ \A k \in 1..(Len(s) + Len(t)) : w[k] = IF k <= Len(s) THEN s[k] ELSE t[k - Len(s)]
  BY LenProperties, ConcatProperties DEF Plain
<1>2. \A k \in 1..Len(t) : ~ IsDelta(t[k])
  BY DEF Plain, Deltas
<1> HIDE DEF w
<1>3. \A k \in 1..Len(s) : k \in 1..Len(w) /\ w[k] = s[k]
  BY <1>1
<1>4. ASSUME NEW k \in 1..Len(w), k \notin 1..Len(s)
      PROVE  ~ IsDelta(w[k])
  <2>1. k - Len(s) \in 1..Len(t) /\ w[k] = t[k - Len(s)]
    BY <1>1, <1>4
  <2>2. QED
    BY <1>2, <2>1
<1>5. Deltas(w) = Deltas(s)
  BY <1>3, <1>4 DEF Deltas
<1>6. \A k \in Deltas(s) : w[k] = s[k]
  BY <1>3 DEF Deltas
<1>7. Matches(w, U, call)
  BY <1>5, <1>6 DEF Matches
<1>8. QED
  BY <1>7 DEF w

LEMMA MatchesOne ==
    ASSUME NEW s \in Seq(Events), NEW e \in Events, IsDelta(e), NEW call, e.call = call,
           NEW m \in Nat, e.line = m, NEW U, U \subseteq 1..(m - 1), Matches(s, U, call)
    PROVE  Matches(Append(s, e), U \cup {m}, call)
<1> DEFINE w == Append(s, e)
           n == Len(s)
           D == Deltas(s)
           V == U \cup {m}
           E == D \cup {n + 1}
<1>1. n \in Nat /\ Len(w) = n + 1 /\ w[n + 1] = e /\ \A k \in 1..n : w[k] = s[k]
  BY LenProperties, AppendProperties
<1>2. D = {k \in 1..n : IsDelta(s[k])} /\ D \subseteq 1..n /\ \A k \in D : w[k] = s[k]
  BY <1>1 DEF Deltas
<1> HIDE DEF w, n, D
<1>3. Deltas(w) = E
  <2>1. Deltas(w) = {k \in 1..(n + 1) : IsDelta(w[k])}
    BY <1>1 DEF Deltas
  <2>2. 1..(n + 1) = (1..n) \cup {n + 1}
    BY <1>1
  <2>3. QED
    BY <1>1, <1>2, <2>1, <2>2
<1>4. IsFiniteSet(D) /\ IsFiniteSet(U) /\ n + 1 \notin D /\ m \notin U
  <2>1. IsFiniteSet(1..n) /\ IsFiniteSet(1..(m - 1))
    BY <1>1, FS_Interval
  <2>2. n + 1 \notin D
    BY <1>1, <1>2
  <2>3. m \notin U
    <3>1. m \notin 1..(m - 1)
      OBVIOUS
    <3>2. QED
      BY <3>1
  <2>4. QED
    BY <1>2, <2>1, <2>2, <2>3, FS_Subset
<1>5. /\ Cardinality(D) = Cardinality(U)
      /\ \A k \in D : /\ s[k].call = call /\ s[k].line \in U
                      /\ Cardinality({j \in D : j < k}) = Cardinality({j \in U : j < s[k].line})
  BY DEF Matches, D
<1>6. Cardinality(E) = Cardinality(V)
  <2>1. Cardinality(E) = Cardinality(D) + 1 /\ Cardinality(V) = Cardinality(U) + 1
    BY <1>4, FS_AddElement
  <2>2. QED
    BY <1>5, <2>1
<1>7. ASSUME NEW k \in E
      PROVE  /\ w[k].call = call /\ w[k].line \in V
             /\ Cardinality({j \in E : j < k}) = Cardinality({j \in V : j < w[k].line})
  <2>1. CASE k \in D
    <3>1. w[k] = s[k] /\ s[k].line \in U /\ s[k].call = call
      BY <1>2, <1>5, <2>1
    <3>2. {j \in E : j < k} = {j \in D : j < k}
      <4>1. k \in 1..n
        BY <1>2, <2>1
      <4>2. ~ (n + 1 < k)
        BY <1>1, <4>1
      <4>3. QED
        BY <4>2
    <3>3. {j \in V : j < w[k].line} = {j \in U : j < s[k].line}
      <4>1. s[k].line \in 1..(m - 1)
        BY <3>1
      <4>2. ~ (m < s[k].line)
        BY <4>1
      <4>3. QED
        BY <3>1, <4>2
    <3>4. QED
      BY <1>5, <2>1, <3>1, <3>2, <3>3
  <2>2. CASE k = n + 1
    <3>1. w[k] = e
      BY <1>1, <2>2
    <3>2. {j \in E : j < k} = D
      <4>1. ~ (n + 1 < n + 1) /\ \A j \in D : j < n + 1
        BY <1>1, <1>2
      <4>2. QED
        BY <2>2, <4>1
    <3>3. {j \in V : j < m} = U
      <4>1. ~ (m < m) /\ \A j \in U : j < m
        OBVIOUS
      <4>2. QED
        BY <4>1
    <3>4. QED
      BY <1>5, <3>1, <3>2, <3>3
  <2>3. QED
    BY <2>1, <2>2
<1>8. Matches(w, V, call)
  BY <1>3, <1>6, <1>7 DEF Matches
<1>9. QED
  BY <1>8 DEF w

\* What the generator has relayed, and what it knows of it.
Relayed ==
    /\ pc \in {"request", "start", "fake"} =>
          ~ firstSent /\ lines = <<>> /\ wire = <<>> /\ sent = <<>> /\ conv = NoConv
    /\ pc \in {"relay", "again"} =>
          /\ Len(wire) <= 1
          /\ wire # <<>> => Len(lines) >= 1 /\ wire[1] = lines[Len(lines)]
          /\ pc = "again" => ~ firstSent /\ wire = <<>>
          /\ ~ firstSent => sent = <<>> /\ conv = NoConv
          /\ route = "anthropic" =>
                conv.tools = {i \in ToolIndices : \E j \in 1..Consumed : lines[j] = ToolHead(i)}
          /\ Matches(sent, AllUseful(route, lines, Consumed), calls)

LEMMA NothingYet ==
    ASSUME NEW r, NEW ls, NEW m, m = 0, NEW call
    PROVE  /\ Matches(<<>>, AllUseful(r, ls, m), call)
           /\ NoConv.tools = {i \in ToolIndices : \E j \in 1..m : ls[j] = ToolHead(i)}
<1>1. AllUseful(r, ls, m) = {} /\ Deltas(<<>>) = {}
  BY DEF AllUseful, Deltas
<1>2. QED
  BY <1>1, FS_EmptySet DEF Matches, NoConv

LEMMA InitRelayed == Init => Relayed
BY DEF Init, Relayed

\* The next line of the response goes out.
LEMMA RelayLine ==
    ASSUME Typed, Relayed, pc = "relay", wire # <<>>, NEW m \in Nat, m = Len(lines), wire[1] # Junk,
           sent' = sent \o Send(conv, wire[1], m).events,
           conv' = Send(conv, wire[1], m).conv
    PROVE  /\ Matches(sent', AllUseful(route, lines, m), calls)
           /\ route = "anthropic" =>
                 conv'.tools = {i \in ToolIndices : \E j \in 1..m : lines[j] = ToolHead(i)}
<1> DEFINE line == lines[m]
           U == AllUseful(route, lines, m - 1)
<1>1. Len(wire) = 1 /\ m \in Nat /\ m >= 1 /\ wire[1] = line /\ line \in Lines /\ Consumed = m - 1
  <2>1. Len(lines) \in Nat /\ Len(wire) \in Nat \ {0}
    BY LenProperties, EmptySeq DEF Typed
  <2>2. Len(wire) = 1 /\ m >= 1 /\ wire[1] = line
    <3>1. Len(wire) <= 1 /\ Len(lines) >= 1 /\ wire[1] = lines[Len(lines)]
      BY DEF Relayed
    <3>2. m >= 1
      BY <3>1
    <3>3. wire[1] = line
      BY <3>1
    <3>4. Len(wire) = 1
      <4>1. \A x \in Nat \ {0} : x <= 1 => x = 1
        OBVIOUS
      <4>2. QED
        BY <2>1, <3>1, <4>1
    <3>5. QED
      BY <3>2, <3>3, <3>4
  <2>3. line \in Lines
    BY <2>1, <2>2, ElementOfSeq DEF Typed
  <2>4. QED
    BY <2>1, <2>2, <2>3 DEF Consumed
<1>2. /\ calls \in Nat /\ route \in Routes /\ conv \in Convs /\ sent \in Seq(Events)
      /\ line # Junk
      /\ Matches(sent, U, calls)
      /\ route = "anthropic" =>
            conv.tools = {i \in ToolIndices : \E j \in 1..(m - 1) : lines[j] = ToolHead(i)}
  BY <1>1, RelayAssumption DEF Typed, Relayed
<1>3. line \in Chunks
  BY <1>1 DEF Chunks
<1>4. Carried(conv, line) <=> UsefulIn(route, lines, m)
  <2>1. ASSUME line.kind = "args", route = "anthropic"
        PROVE  line.tool \in conv.tools <=> \E j \in 1..(m - 1) : lines[j] = ToolHead(line.tool)
    <3>1. line.tool \in ToolIndices
      BY <1>3, <2>1, ChunkType
    <3>2. QED
      BY <1>2, <2>1, <3>1
  <2>2. QED
    BY <2>1 DEF Carried, UsefulIn
<1>5. AllUseful(route, lines, m) = IF UsefulIn(route, lines, m) THEN U \cup {m} ELSE U
  <2>1. 1..m = (1..(m - 1)) \cup {m} /\ m \notin 1..(m - 1)
    BY <1>1
  <2>2. QED
    BY <2>1 DEF AllUseful
<1>6. U \subseteq 1..(m - 1)
  BY DEF AllUseful
<1> HIDE DEF line, U
<1>7. Matches(sent', AllUseful(route, lines, m), calls)
  <2>1. CASE ~ Carried(conv, line)
    <3>1. Plain(Send(conv, line, m).events)
      BY <1>1, <1>2, <2>1, OneDelta
    <3>2. Matches(sent \o Send(conv, line, m).events, U, calls)
      BY <1>2, <3>1, MatchesPlain
    <3>3. QED
      BY <1>1, <1>4, <1>5, <2>1, <3>2
  <2>2. CASE Carried(conv, line)
    <3>1. PICK t, e : /\ Plain(t) /\ e \in Events
                      /\ IsDelta(e) /\ e.call = calls /\ e.line = m
                      /\ Send(conv, line, m).events = t \o <<e>>
      <4>1. EndsInDelta(Send(conv, line, m).events, m)
        BY <1>1, <1>2, <2>2, OneDelta
      <4>2. QED
        BY <4>1 DEF EndsInDelta
    <3>2. Matches(sent \o t, U, calls)
      BY <1>2, <3>1, MatchesPlain
    <3>3. t \in Seq(Events) /\ sent \o t \in Seq(Events)
      BY <1>2, <3>1, Joins DEF Plain
    <3>4. Matches(Append(sent \o t, e), U \cup {m}, calls)
      BY <1>1, <1>6, <3>1, <3>2, <3>3, MatchesOne
    <3>5. sent \o (t \o <<e>>) = Append(sent \o t, e)
      BY <1>2, <3>1, <3>3, Joins
    <3>6. QED
      BY <1>1, <1>4, <1>5, <2>2, <3>1, <3>4, <3>5
  <2>3. QED
    BY <2>1, <2>2
<1>8. ASSUME route = "anthropic"
      PROVE  conv'.tools = {i \in ToolIndices : \E j \in 1..m : lines[j] = ToolHead(i)}
  <2>1. conv'.tools = conv.tools \cup (IF line.kind = "head" THEN {line.tool} ELSE {})
    BY <1>1, <1>2, <1>8, OneDelta
  <2>2. \A i \in ToolIndices : line = ToolHead(i) <=> line.kind = "head" /\ line.tool = i
    BY <1>3, ChunkType
  <2>3. line.kind = "head" => line.tool \in ToolIndices
    BY <1>3, ChunkType
  <2>4. 1..m = (1..(m - 1)) \cup {m}
    BY <1>1
  <2>5. \A i \in ToolIndices : (\E j \in 1..m : lines[j] = ToolHead(i))
                              <=> (\E j \in 1..(m - 1) : lines[j] = ToolHead(i)) \/ line = ToolHead(i)
    BY <2>4 DEF line
  <2>6. QED
    BY <1>2, <1>8, <2>1, <2>2, <2>3, <2>5
<1>9. QED
  BY <1>7, <1>8

\* A line that is passed over is of no use.
LEMMA SkipLine ==
    ASSUME Typed, Relayed, pc = "relay", wire # <<>>, NEW m \in Nat, m = Len(lines), wire[1] = Junk
    PROVE  /\ Matches(sent, AllUseful(route, lines, m), calls)
           /\ route = "anthropic" =>
                 conv.tools = {i \in ToolIndices : \E j \in 1..m : lines[j] = ToolHead(i)}
<1>1. m \in Nat /\ m >= 1 /\ lines[m] = Junk /\ Consumed = m - 1
  <2>1. Len(lines) \in Nat /\ Len(wire) \in Nat \ {0}
    BY LenProperties, EmptySeq DEF Typed
  <2>2. QED
    BY <2>1 DEF Relayed, Consumed
<1>2. 1..m = (1..(m - 1)) \cup {m} /\ m \notin 1..(m - 1)
  BY <1>1
<1>3. ~ UsefulIn(route, lines, m)
  BY <1>1 DEF UsefulIn, Junk
<1>4. \A i \in ToolIndices : lines[m] # ToolHead(i)
  BY <1>1 DEF Junk, ToolHead
<1>5. AllUseful(route, lines, m) = AllUseful(route, lines, m - 1)
  BY <1>2, <1>3 DEF AllUseful
<1>6. \A i \in ToolIndices : (\E j \in 1..m : lines[j] = ToolHead(i))
                            <=> (\E j \in 1..(m - 1) : lines[j] = ToolHead(i))
  BY <1>2, <1>4
<1>7. QED
  BY <1>1, <1>5, <1>6 DEF Relayed

LEMMA NextRelayed ==
    ASSUME Typed, Budget, Relayed, [Next]_vars
    PROVE  Relayed'
<1> DEFINE Same == UNCHANGED <<route, calls, lines, wire, firstSent, conv, sent>>
<1>1. ASSUME Same,
             \/ pc' = pc
             \/ pc = "start" /\ pc' = "relay"
             \/ pc' \notin {"request", "start", "fake", "relay", "again"}
             \/ pc = "relay" /\ pc' = "again" /\ ~ firstSent /\ wire = <<>>
      PROVE  Relayed'
  <2>1. Consumed' = Consumed
    BY <1>1 DEF Consumed
  <2>2. CASE pc = "start" /\ pc' = "relay"
    <3>1. ~ firstSent /\ lines = <<>> /\ wire = <<>> /\ sent = <<>> /\ conv = NoConv
      BY <2>2 DEF Relayed
    <3>2. Consumed = 0 /\ Len(wire) = 0
      BY <3>1 DEF Consumed
    <3>3. Matches(sent, AllUseful(route, lines, Consumed), calls)
          /\ conv.tools = {i \in ToolIndices : \E j \in 1..Consumed : lines[j] = ToolHead(i)}
      BY <3>1, <3>2, NothingYet
    <3>4. QED
      BY <1>1, <2>1, <2>2, <3>1, <3>2, <3>3 DEF Relayed
  <2>3. CASE pc' \notin {"request", "start", "fake", "relay", "again"}
    BY <2>3 DEF Relayed
  <2>4. CASE pc' = pc \/ (pc = "relay" /\ pc' = "again" /\ ~ firstSent /\ wire = <<>>)
    BY <1>1, <2>1, <2>4 DEF Relayed
  <2>5. QED
    BY <1>1, <2>2, <2>3, <2>4
<1>2. ASSUME pc' \notin {"request", "start", "fake", "relay", "again"}
      PROVE  Relayed'
  BY <1>2 DEF Relayed
<1>3. ASSUME NEW o \in Outcomes, Answer(o)
      PROVE  Relayed'
  <2>1. pc = "request" /\ pc' \in {"request", "start", "closed"}
        /\ UNCHANGED <<lines, wire, firstSent, conv, sent>>
    BY <1>3 DEF Answer, Relay, Forward, streamVars
  <2>2. QED
    BY <2>1 DEF Relayed
<1>4. ASSUME NEW o \in Outcomes, AnswerAgain(o)
      PROVE  Relayed'
  <2>1. /\ pc = "again" /\ pc' = "relay" /\ lines' = <<>> /\ ~ firstSent /\ wire = <<>>
        /\ sent = <<>> /\ conv = NoConv /\ UNCHANGED <<route, wire, firstSent, conv, sent>>
    BY <1>4 DEF AnswerAgain, Relayed
  <2>2. Consumed' = 0 /\ Len(wire') = 0
    BY <2>1 DEF Consumed
  <2>3. Matches(sent', AllUseful(route', lines', Consumed'), calls')
        /\ conv'.tools = {i \in ToolIndices : \E j \in 1..Consumed' : lines'[j] = ToolHead(i)}
    BY <2>1, <2>2, NothingYet
  <2>4. QED
    BY <2>1, <2>2, <2>3 DEF Relayed
<1>5. CASE Begin
  <2>1. Same /\ pc = "start" /\ pc' = "relay"
    BY <1>5 DEF Begin, callVars, streamVars
  <2>2. QED
    BY <1>1, <2>1
<1>6. CASE Beat
  <2>1. Same /\ pc' = pc
    BY <1>6 DEF Beat, callVars, streamVars
  <2>2. QED
    BY <1>1, <2>1
<1>7. CASE Convert
  <2> DEFINE m == Len(lines)
  <2>1. CASE pc = "drain"
    BY <1>2, <1>7, <2>1 DEF Convert
  <2>2. CASE pc = "relay"
    <3>1. m \in Nat /\ wire \in Seq(Chunks) /\ wire # <<>> /\ Len(wire) \in Nat \ {0}
      BY <1>7, LenProperties, EmptySeq DEF Typed, Convert
    <3>2. Len(wire) = 1 /\ Head(wire) = wire[1]
      <4>1. Len(wire) <= 1 /\ \A x \in Nat \ {0} : x <= 1 => x = 1
        BY <2>2 DEF Relayed
      <4>2. Len(wire) = 1
        BY <3>1, <4>1
      <4>3. Head(wire) = wire[1]
        BY <3>1, HeadTailProperties
      <4>4. QED
        BY <4>2, <4>3
    <3>3. wire' = <<>> /\ pc' = pc /\ UNCHANGED <<route, calls, lines>>
      <4>1. wire' = Tail(wire) /\ pc' = pc /\ UNCHANGED <<route, calls, lines>>
        BY <1>7 DEF Convert, callVars
      <4>2. Tail(wire) \in Seq(Chunks) /\ Len(Tail(wire)) = 0
        BY <3>1, <3>2, HeadTailProperties
      <4>3. QED
        BY <4>1, <4>2, EmptySeq
    <3>4. Consumed' = m /\ Len(wire') = 0
      BY <3>1, <3>3 DEF Consumed
    <3>5. CASE wire[1] = Junk
      <4>1. UNCHANGED <<firstSent, conv, sent>>
        BY <1>7, <3>2, <3>5 DEF Convert
      <4>2. Matches(sent, AllUseful(route, lines, m), calls)
            /\ (route = "anthropic" =>
                   conv.tools = {i \in ToolIndices : \E j \in 1..m : lines[j] = ToolHead(i)})
        BY <2>2, <3>1, <3>5, SkipLine
      <4> HIDE DEF m
      <4>3. QED
        BY <2>2, <3>3, <3>4, <4>1, <4>2 DEF Relayed
    <3>6. CASE wire[1] # Junk
      <4>1. sent' = sent \o Send(conv, wire[1], m).events /\ conv' = Send(conv, wire[1], m).conv
            /\ firstSent' = TRUE
        BY <1>7, <3>2, <3>6 DEF Convert, Forwarded
      <4>2. Matches(sent', AllUseful(route, lines, m), calls)
            /\ (route = "anthropic" =>
                   conv'.tools = {i \in ToolIndices : \E j \in 1..m : lines[j] = ToolHead(i)})
        BY <2>2, <3>1, <3>6, <4>1, RelayLine
      <4> HIDE DEF m
      <4>3. QED
        BY <2>2, <3>3, <3>4, <4>1, <4>2 DEF Relayed
    <3>7. QED
      BY <3>5, <3>6
  <2>3. QED
    BY <1>7, <2>1, <2>2 DEF Convert
<1>8. CASE End \/ RaiseAgain \/ Closed \/ Disconnect \/ FakeBegin \/ \E a \in FakeAnswers : FakeAnswer(a)
  <2>1. pc' \notin {"request", "start", "fake", "relay", "again"}
    BY <1>8 DEF End, RaiseAgain, GiveUp, Drain, Closed, Disconnect, FakeBegin, FakeAnswer
  <2>2. QED
    BY <1>2, <2>1
<1>9. CASE Fail
  <2>1. CASE GiveUp
    BY <1>2, <2>1 DEF GiveUp, Drain
  <2>2. CASE ~ GiveUp
    BY <1>1, <1>9, <2>2 DEF Fail, callVars, streamVars
  <2>3. QED
    BY <2>1, <2>2
<1>10. ASSUME NEW line \in Lines, Receive(line)
       PROVE  Relayed'
  <2> DEFINE n == Len(lines)
  <2>1. /\ pc = "relay" /\ pc' = "relay" /\ wire = <<>> /\ wire' = <<line>> /\ lines' = Append(lines, line)
        /\ UNCHANGED <<route, calls, firstSent, conv, sent>>
    BY <1>10 DEF Receive, callVars
  <2>2. /\ n \in Nat /\ Len(lines') = n + 1 /\ lines'[n + 1] = line
        /\ \A j \in 1..n : lines'[j] = lines[j]
    BY <2>1, LenProperties, AppendProperties DEF Typed
  <2>3. Len(wire') = 1 /\ wire'[1] = line /\ Len(wire) = 0
    BY <2>1
  <2>4. Consumed = n /\ Consumed' = n
    BY <2>2, <2>3 DEF Consumed
  <2>5. Matches(sent, AllUseful(route, lines, n), calls)
        /\ (route = "anthropic" =>
               conv.tools = {i \in ToolIndices : \E j \in 1..n : lines[j] = ToolHead(i)})
        /\ (~ firstSent => sent = <<>> /\ conv = NoConv)
    BY <2>1, <2>4 DEF Relayed
  <2> HIDE DEF n
  <2>6. AllUseful(route, lines', n) = AllUseful(route, lines, n)
    <3>1. ASSUME NEW k \in 1..n
          PROVE  UsefulIn(route, lines', k) <=> UsefulIn(route, lines, k)
      <4>1. lines'[k] = lines[k] /\ \A j \in 1..(k - 1) : lines'[j] = lines[j]
        BY <2>2
      <4>2. QED
        BY <4>1 DEF UsefulIn
    <3>2. QED
      BY <3>1 DEF AllUseful
  <2>7. {i \in ToolIndices : \E j \in 1..n : lines'[j] = ToolHead(i)}
        = {i \in ToolIndices : \E j \in 1..n : lines[j] = ToolHead(i)}
    BY <2>2
  <2>8. QED
    BY <2>1, <2>2, <2>3, <2>4, <2>5, <2>6, <2>7 DEF Relayed
<1>11. CASE FakeBeat
  <2>1. Same /\ pc' = pc
    BY <1>11 DEF FakeBeat, callVars, streamVars
  <2>2. QED
    BY <1>1, <2>1
<1>12. CASE UNCHANGED vars
  <2>1. Same /\ pc' = pc
    BY <1>12 DEF vars, callVars, streamVars
  <2>2. QED
    BY <1>1, <2>1
<1>13. QED
  BY <1>3, <1>4, <1>5, <1>6, <1>7, <1>8, <1>9, <1>10, <1>11, <1>12 DEF Next

\* However often the request is retried before its first byte, and however the
\* keepalives fall, the client gets the useful lines of one response, each
\* once and in their order.
THEOREM OneResponse == Spec => []RelaysOneResponse
<1>1. Typed /\ Relayed => RelaysOneResponse
  <2> SUFFICES ASSUME Typed, Relayed, pc \in {"relay", "again"}
               PROVE  Matches(sent, AllUseful(route, lines, Consumed), calls)
    <3>1. Typed => {k \in DOMAIN sent : IsDelta(sent[k])} = Deltas(sent)
      BY LenProperties DEF Typed, Deltas
    <3>2. {j \in 1..Consumed : Useful(j)} = AllUseful(route, lines, Consumed)
      BY DEF AllUseful, Useful, UsefulIn
    <3>3. QED
      BY <3>1, <3>2 DEF RelaysOneResponse, Matches
  <2>1. QED
    BY DEF Relayed
<1>2. QED
  BY <1>1, InitBudget, NextBudget, InitRelayed, NextRelayed, PTL DEF Spec


\* A message that began has been stopped.
StopFollowsStart == pc = "closed" /\ route = "anthropic" => sent = <<>> \/ Count("message_stop", -1) > 0

\* When a stream is closed the conversion knows of the stop.
Over == pc = "closed" /\ route = "anthropic" => (conv.started => conv.stopped)

LEMMA NextOver ==
    ASSUME Typed, Nested, Over, [Next]_vars
    PROVE  Over'
<1> SUFFICES ASSUME pc' = "closed", route = "anthropic", conv'.started
             PROVE  conv'.stopped
  BY Sending DEF Over
<1>1. CASE Closed
  <2>1. conv' = [conv EXCEPT !.textOpen = FALSE, !.stopped = conv.stopped \/ conv.started]
    BY <1>1 DEF Closed, DoneEvents
  <2>2. conv \in Convs
    BY DEF Nested, Follows
  <2>3. conv'.started = conv.started /\ conv'.stopped = (conv.stopped \/ conv.started)
    BY <2>1, <2>2 DEF Convs
  <2>4. QED
    BY <2>3
<1>2. ASSUME ~ Closed
      PROVE  pc = "closed" /\ conv' = conv
  <2>1. ~ (\E o \in Outcomes : Answer(o) \/ AnswerAgain(o))
    BY DEF Answer, AnswerAgain, Relay, Forward
  <2>2. ~ (Begin \/ End \/ Fail \/ RaiseAgain \/ FakeBegin \/ Disconnect)
    BY DEF Begin, End, Fail, RaiseAgain, FakeBegin, Disconnect, GiveUp, Drain
  <2>3. ~ (Beat \/ Convert \/ FakeBeat)
    BY DEF Beat, Convert, FakeBeat
  <2>4. ~ (\E line \in Lines : Receive(line)) /\ ~ (\E a \in FakeAnswers : FakeAnswer(a))
    BY DEF Receive, FakeAnswer, Drain
  <2>5. UNCHANGED vars
    BY <1>2, <2>1, <2>2, <2>3, <2>4 DEF Next
  <2>6. QED
    BY <2>5 DEF vars, streamVars
<1>3. QED
  BY <1>1, <1>2 DEF Over

\* Every Anthropic stream that was closed after a message had begun has got a
\* message_stop: after an error, a broken connection or a response without a
\* finish_reason as well.  Only a stream that sent nothing at all has none
\* (anthropic_messages, "Ensure message_stop exists").
THEOREM BegunMessagesStop == Spec => []StopFollowsStart
<1>1. Init => Over
  BY DEF Init, Over
<1>2. Typed /\ Nested /\ Over => StopFollowsStart
  <2> SUFFICES ASSUME Typed, Nested, Over, pc = "closed", route = "anthropic", sent # <<>>
               PROVE  Count("message_stop", -1) > 0
    BY DEF StopFollowsStart
  <2>1. Follows(sent, conv)
    BY DEF Nested
  <2>2. All(sent, "message_stop", -1) > 0
    BY <2>1 DEF Over, Follows
  <2>3. Len(sent) \in Nat /\ DOMAIN sent = 1..Len(sent) /\ (Len(sent) + 1) - 1 = Len(sent)
    BY LenProperties DEF Typed
  <2>4. All(sent, "message_stop", -1) = Count("message_stop", -1)
    BY <2>3 DEF All, Num, Count
  <2>5. QED
    BY <2>2, <2>4
<1>3. QED
  BY <1>1, <1>2, InitBudget, NextBudget, InitNested, NextNested, NextOver, PTL DEF Spec
=============================================================================

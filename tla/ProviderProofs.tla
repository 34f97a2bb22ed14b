--------------------------- MODULE ProviderProofs ---------------------------
(***************************************************************************)
(* Proofs about Provider, for answers of any number of events, tokens and  *)
(* lines, and any caller.  ProviderInv is inductive.  Its core is Framed:  *)
(* what the lines still to come and what the scanner holds say together,   *)
(* so that the blank line which ends an event always finds that event, all *)
(* of it and nothing else, in the scanner.  Counted and RelayedInOrder     *)
(* then follow the events the upstream sent whole.                         *)
(***************************************************************************)
EXTENDS Provider, SequenceTheorems, WellFoundedInduction, TLAPS

\* The name of a keepalive event that is never filled in.
Unfilled == [id |-> 1, type |-> "block", tokens |-> 0]

Lines(w) == [field: {"blank", "other", "comment"}]
            \cup [field: {"data", "event"}, value: Event(w) \cup {Unfilled}]

Scanner(w) == [name: Event(w) \cup {NoEvent, Unfilled}, data: Event(w) \cup {NoEvent}, left: 0..MaxLines]

Open(s) == s.name = NoEvent /\ s.data = NoEvent

\* What is left of the lines of event e, or of lines that are no event, once the
\* scanner s has read the others.
Framed(e, rest, s) ==
    /\ s.data \in {NoEvent, e}
    /\ s.name \in {NoEvent, IF e = NoEvent THEN Unfilled ELSE e}
    /\ rest = <<>> => Open(s) /\ e = NoEvent
    /\ \A i \in 1..Len(rest) :
          /\ rest[i].field = "data" => e # NoEvent /\ rest[i].value = e
          /\ rest[i].field = "event" => rest[i].value = IF e = NoEvent THEN Unfilled ELSE e
          /\ rest[i].field \in {"data", "event", "other"} => i < Len(rest)
          /\ rest[i].field = "blank" =>
                IF i < Len(rest) THEN i = 1 /\ Open(s)
                ELSE e # NoEvent => s.data = e \/ \E j \in 1..(i - 1) : rest[j].field = "data"
          /\ rest[i].field = "comment" =>
                IF i < Len(rest)
                THEN s.data # NoEvent \/ \E j \in 1..(i - 1) : rest[j].field = "data"
                ELSE i = 1 /\ e = NoEvent /\ Open(s)

\* The rows a caller has are the events sent whole that carry something.
InOrder(w, sent, rows) ==
    /\ \A i \in 1..Len(rows) :
          /\ rows[i].id \in 1..Len(sent) /\ Shown(w, sent[rows[i].id])
          /\ rows[i].tokens = Report(w, sent, rows[i].id)
    /\ \A i, j \in 1..Len(rows) : i < j => rows[i].id < rows[j].id
    /\ \A k \in 1..Len(sent) : Shown(w, sent[k]) => \E i \in 1..Len(rows) : rows[i].id = k

-----------------------------------------------------------------------------
(* Lines *)

\* No event is the absence of one.
LEMMA EventFacts ==
  ASSUME NEW w \in Wires, NEW e \in Event(w)
  PROVE  /\ e # NoEvent /\ e.id \in 1..MaxEvents /\ e.tokens \in 0..MaxTokens /\ e.type \in Types(w)
         /\ e.tokens > 0 => e.type \in Reporting
<1>1. e \in [id: 1..MaxEvents, type: Types(w), tokens: 0..MaxTokens]
  BY DEF Event
<1>2. e.id # NoEvent.id
  BY <1>1, ProviderAssumption DEF NoEvent
<1> QED BY <1>1, <1>2 DEF Event

\* A sequence with elements is not empty.
LEMMA NotEmpty ==
  ASSUME NEW s, Len(s) # 0
  PROVE  s # <<>>
<1>1. Len(<<>>) = 0
  OBVIOUS
<1> QED BY <1>1

\* An event, however framed, is all in its lines.
LEMMA EventFramed ==
  ASSUME NEW w \in Wires, NEW e \in Event(w), NEW lines \in Framings(e), NEW s, Open(s)
  PROVE  lines \in Seq(Lines(w)) /\ Len(lines) >= 1 /\ Framed(e, lines, s)
<1>1. e # NoEvent
  BY EventFacts
<1>2. /\ Data(e) \in Lines(w) /\ Name(e) \in Lines(w)
      /\ Line("blank") \in Lines(w) /\ Line("other") \in Lines(w) /\ Line("comment") \in Lines(w)
  BY DEF Data, Name, Line, Lines
<1>3. /\ Data(e).field = "data" /\ Data(e).value = e /\ Name(e).field = "event" /\ Name(e).value = e
      /\ Line("blank").field = "blank" /\ Line("other").field = "other" /\ Line("comment").field = "comment"
  BY DEF Data, Name, Line
<1>4. CASE lines = <<Data(e), Line("blank")>>
  <2>1. lines \in Seq(Lines(w)) /\ Len(lines) = 2
        /\ \A i \in 1..2 : lines[i] = IF i = 1 THEN Data(e) ELSE Line("blank")
    BY <1>2, <1>4
  <2>2. Len(lines) # 0
    BY <2>1
  <2>3. lines # <<>>
    BY <2>2, NotEmpty
  <2> QED BY <1>1, <1>3, <2>1, <2>3 DEF Framed, Open
<1>5. CASE lines = <<Name(e), Data(e), Line("blank")>>
  <2>1. lines \in Seq(Lines(w)) /\ Len(lines) = 3
        /\ \A i \in 1..3 : lines[i] = IF i = 1 THEN Name(e) ELSE IF i = 2 THEN Data(e) ELSE Line("blank")
    BY <1>2, <1>5
  <2>2. Len(lines) # 0
    BY <2>1
  <2>3. lines # <<>>
    BY <2>2, NotEmpty
  <2> QED BY <1>1, <1>3, <2>1, <2>3 DEF Framed, Open
<1>6. CASE lines = <<Line("blank"), Line("other"), Data(e), Line("comment"), Line("blank")>>
  <2>1. lines \in Seq(Lines(w)) /\ Len(lines) = 5
        /\ \A i \in 1..5 : lines[i] = IF i \in {1, 5} THEN Line("blank") ELSE IF i = 2 THEN Line("other")
                                      ELSE IF i = 3 THEN Data(e) ELSE Line("comment")
    BY <1>2, <1>6
  <2>2. Len(lines) # 0
    BY <2>1
  <2>3. lines # <<>>
    BY <2>2, NotEmpty
  <2> QED BY <1>1, <1>3, <2>1, <2>3 DEF Framed, Open
<1>7. CASE lines = <<Data(e)>> \o [i \in 1..MaxLines |-> Line("other")] \o <<Line("blank")>>
  <2> DEFINE mid == [i \in 1..MaxLines |-> Line("other")]
  <2>1. mid \in Seq(Lines(w)) /\ Len(mid) = MaxLines /\ MaxLines \in Nat
        /\ <<Data(e)>> \in Seq(Lines(w)) /\ <<Line("blank")>> \in Seq(Lines(w))
    BY <1>2, ProviderAssumption
  <2> HIDE DEF mid
  <2>2. /\ <<Data(e)>> \o mid \in Seq(Lines(w)) /\ Len(<<Data(e)>> \o mid) = MaxLines + 1
        /\ \A i \in 1..(MaxLines + 1) : (<<Data(e)>> \o mid)[i] = IF i = 1 THEN Data(e) ELSE mid[i - 1]
    BY <2>1, ConcatProperties
  <2>3. /\ lines \in Seq(Lines(w)) /\ Len(lines) = MaxLines + 2
        /\ \A i \in 1..(MaxLines + 2) :
              lines[i] = IF i <= MaxLines + 1 THEN (<<Data(e)>> \o mid)[i] ELSE Line("blank")
    BY <1>7, <2>1, <2>2, ConcatProperties DEF mid
  <2>4. \A i \in 1..MaxLines : mid[i] = Line("other")
    BY DEF mid
  <2>5. \A i \in 1..(MaxLines + 2) :
           lines[i] = IF i = 1 THEN Data(e) ELSE IF i <= MaxLines + 1 THEN Line("other") ELSE Line("blank")
    BY <2>1, <2>2, <2>3, <2>4
  <2> QED BY <1>1, <1>3, <2>1, <2>3, <2>5 DEF Framed, Open
<1> QED BY <1>4, <1>5, <1>6, <1>7 DEF Framings

\* Lines that are no event hold none.
LEMMA NoiseFramed ==
  ASSUME NEW w \in Wires, NEW lines \in Noise, NEW s, Open(s)
  PROVE  lines \in Seq(Lines(w)) /\ Len(lines) >= 1 /\ Framed(NoEvent, lines, s)
<1>1. /\ Line("blank") \in Lines(w) /\ Name(Unfilled) \in Lines(w) /\ Line("comment") \in Lines(w)
  BY DEF Name, Line, Lines
<1>2. /\ Name(Unfilled).field = "event" /\ Name(Unfilled).value = Unfilled
      /\ Line("blank").field = "blank" /\ Line("comment").field = "comment"
  BY DEF Name, Line
<1>3. CASE lines = <<Line("comment")>>
  <2>1. lines \in Seq(Lines(w)) /\ Len(lines) = 1 /\ lines[1] = Line("comment")
    BY <1>1, <1>3
  <2> QED BY <1>2, <2>1 DEF Framed, Open
<1>4. CASE lines = <<Name(Unfilled), Line("blank")>>
  <2>1. lines \in Seq(Lines(w)) /\ Len(lines) = 2 /\ lines[1] = Name(Unfilled) /\ lines[2] = Line("blank")
    BY <1>1, <1>4
  <2> QED BY <1>2, <2>1 DEF Framed, Open
<1> QED BY <1>3, <1>4 DEF Noise, Unfilled

\* What a line says, first and last.
LEMMA LineFacts ==
  ASSUME NEW w \in Wires, NEW e \in Event(w) \cup {NoEvent}, NEW rest \in Seq(Lines(w)), rest # <<>>,
         NEW s \in Scanner(w), Framed(e, rest, s)
  PROVE  LET line == Head(rest)
         IN  /\ line = rest[1] /\ Len(rest) \in Nat \ {0} /\ Tail(rest) \in Seq(Lines(w))
             /\ Len(Tail(rest)) = Len(rest) - 1
             /\ \A i \in 1..Len(Tail(rest)) : Tail(rest)[i] = rest[i + 1]
             /\ line.field \in {"blank", "other", "comment", "data", "event"}
             /\ line.field = "data" => line.value = e /\ e # NoEvent
             /\ line.field = "event" => line.value \in Event(w) \cup {NoEvent, Unfilled}
             /\ line.field \in {"data", "event", "other"} => Len(rest) > 1
             /\ line.field = "comment" =>
                   IF Open(s) THEN Len(rest) = 1 /\ e = NoEvent ELSE Len(rest) > 1
             /\ line.field = "blank" =>
                   IF Open(s) THEN Len(rest) = 1 => e = NoEvent
                   ELSE /\ Len(rest) = 1 /\ s.data = e
                        /\ s.name \in {NoEvent, IF e = NoEvent THEN Unfilled ELSE e}
                        /\ e = NoEvent => s.name = Unfilled
<1>1. /\ Head(rest) = rest[1] /\ Len(rest) \in Nat \ {0} /\ Tail(rest) \in Seq(Lines(w))
      /\ Len(Tail(rest)) = Len(rest) - 1 /\ rest[1] \in Lines(w) /\ 1 \in 1..Len(rest)
      /\ \A i \in 1..Len(Tail(rest)) : Tail(rest)[i] = rest[i + 1]
  BY HeadTailProperties, EmptySeq, LenProperties, ElementOfSeq
<1>2. rest[1].field \in {"blank", "other", "comment", "data", "event"}
  BY <1>1 DEF Lines
<1>3. \A j \in 1..(1 - 1) : FALSE
  OBVIOUS
<1>4. /\ rest[1].field = "data" => rest[1].value = e /\ e # NoEvent
      /\ rest[1].field = "event" => rest[1].value \in Event(w) \cup {NoEvent, Unfilled}
      /\ rest[1].field \in {"data", "event", "other"} => Len(rest) > 1
  BY <1>1 DEF Framed
<1>5. rest[1].field = "comment" =>
         IF Open(s) THEN Len(rest) = 1 /\ e = NoEvent ELSE Len(rest) > 1
  BY <1>1, <1>3 DEF Framed, Open
<1>6. rest[1].field = "blank" =>
         IF Open(s) THEN Len(rest) = 1 => e = NoEvent
         ELSE /\ Len(rest) = 1 /\ s.data = e
              /\ s.name \in {NoEvent, IF e = NoEvent THEN Unfilled ELSE e}
              /\ e = NoEvent => s.name = Unfilled
  BY <1>1, <1>3 DEF Framed, Open
<1> QED BY <1>1, <1>2, <1>4, <1>5, <1>6

\* The blank line that ends an event of which something was kept.
LEMMA BlankFacts ==
  ASSUME NEW w \in Wires, NEW e \in Event(w) \cup {NoEvent}, NEW rest \in Seq(Lines(w)), rest # <<>>,
         NEW s \in Scanner(w), Framed(e, rest, s), Head(rest).field = "blank", ~Open(s)
  PROVE  /\ Len(rest) = 1 /\ s.data = e
         /\ s.name \in {NoEvent, IF e = NoEvent THEN Unfilled ELSE e}
         /\ e = NoEvent => s.name = Unfilled
<1>1. Head(rest) = rest[1] /\ Len(rest) \in Nat \ {0} /\ 1 \in 1..Len(rest)
  BY HeadTailProperties, EmptySeq, LenProperties
<1>2. \A j \in 1..(1 - 1) : FALSE
  OBVIOUS
<1>3. ~(1 < Len(rest)) /\ (e # NoEvent => s.data = e)
  BY <1>1, <1>2 DEF Framed
<1>4. s.data \in {NoEvent, e} /\ s.name \in {NoEvent, IF e = NoEvent THEN Unfilled ELSE e}
  BY DEF Framed
<1>5. Len(rest) = 1
  <2>1. \A n \in Nat \ {0} : ~(1 < n) => n = 1
    OBVIOUS
  <2> QED BY <1>1, <1>3, <2>1
<1> QED BY <1>3, <1>4, <1>5 DEF Open

\* A line that is not the last leaves the others framed.
LEMMA TailFramed ==
  ASSUME NEW w \in Wires, NEW e \in Event(w) \cup {NoEvent}, NEW rest \in Seq(Lines(w)), Len(rest) > 1,
         NEW s \in Scanner(w), NEW t, Framed(e, rest, s),
         t.data = IF Head(rest).field = "data" THEN Head(rest).value ELSE s.data,
         t.name = IF Head(rest).field = "event" THEN Head(rest).value ELSE s.name
  PROVE  Framed(e, Tail(rest), t)
<1>1. /\ Head(rest) = rest[1] /\ Len(rest) \in Nat \ {0} /\ Tail(rest) \in Seq(Lines(w))
      /\ Len(Tail(rest)) = Len(rest) - 1 /\ 1 \in 1..Len(rest)
      /\ \A i \in 1..Len(Tail(rest)) : Tail(rest)[i] = rest[i + 1]
  BY HeadTailProperties, EmptySeq, LenProperties
<1>2. Tail(rest) # <<>>
  <2>1. Len(Tail(rest)) # 0
    BY <1>1
  <2> QED BY <2>1, NotEmpty
<1>3. /\ t.data \in {NoEvent, e} /\ t.name \in {NoEvent, IF e = NoEvent THEN Unfilled ELSE e}
      /\ s.data # NoEvent \/ rest[1].field = "data" => t.data # NoEvent /\ t.data = e
  BY <1>1 DEF Framed
<1>4. ASSUME NEW i \in 1..Len(Tail(rest)), s.data # NoEvent \/ \E j \in 1..i : rest[j].field = "data"
      PROVE  (t.data # NoEvent /\ t.data = e) \/ \E j \in 1..(i - 1) : Tail(rest)[j].field = "data"
  <2>1. CASE s.data # NoEvent \/ rest[1].field = "data"
    BY <1>3, <2>1
  <2>2. CASE \E j \in 2..i : rest[j].field = "data"
    <3>1. PICK j \in 2..i : rest[j].field = "data"
      BY <2>2
    <3>2. j - 1 \in 1..(i - 1) /\ j - 1 \in 1..Len(Tail(rest)) /\ (j - 1) + 1 = j
      BY <1>1
    <3> QED BY <1>1, <3>1, <3>2
  <2> QED BY <1>4, <2>1, <2>2
<1>5. ASSUME NEW i \in 1..Len(Tail(rest))
      PROVE  LET l == Tail(rest)[i]
             IN  /\ l.field = "data" => e # NoEvent /\ l.value = e
                 /\ l.field = "event" => l.value = IF e = NoEvent THEN Unfilled ELSE e
                 /\ l.field \in {"data", "event", "other"} => i < Len(Tail(rest))
                 /\ l.field = "blank" =>
                       IF i < Len(Tail(rest)) THEN i = 1 /\ Open(t)
                       ELSE e # NoEvent => t.data = e \/ \E j \in 1..(i - 1) : Tail(rest)[j].field = "data"
                 /\ l.field = "comment" =>
                       IF i < Len(Tail(rest))
                       THEN t.data # NoEvent \/ \E j \in 1..(i - 1) : Tail(rest)[j].field = "data"
                       ELSE i = 1 /\ e = NoEvent /\ Open(t)
  <2>1. i + 1 \in 1..Len(rest) /\ i + 1 # 1 /\ Tail(rest)[i] = rest[i + 1] /\ (i + 1) - 1 = i
        /\ (i + 1 < Len(rest) <=> i < Len(Tail(rest)))
    BY <1>1
  <2>2. /\ rest[i + 1].field = "data" => e # NoEvent /\ rest[i + 1].value = e
        /\ rest[i + 1].field = "event" => rest[i + 1].value = IF e = NoEvent THEN Unfilled ELSE e
        /\ rest[i + 1].field \in {"data", "event", "other"} => i + 1 < Len(rest)
        /\ rest[i + 1].field = "blank" =>
              IF i + 1 < Len(rest) THEN FALSE
              ELSE e # NoEvent => s.data = e \/ \E j \in 1..i : rest[j].field = "data"
        /\ rest[i + 1].field = "comment" =>
              IF i + 1 < Len(rest)
              THEN s.data # NoEvent \/ \E j \in 1..i : rest[j].field = "data"
              ELSE FALSE
    BY <2>1 DEF Framed
  <2> QED BY <1>4, <2>1, <2>2
<1> QED BY <1>2, <1>3, <1>5 DEF Framed

-----------------------------------------------------------------------------
(* Events sent whole *)

\* A set of positions that is not empty has a last one.
LEMMA LastOfMany ==
  ASSUME NEW m \in Nat, NEW T \in SUBSET (1..m), T # {}
  PROVE  \E i \in T : \A j \in T : j <= i
<1> DEFINE U == {m - i : i \in T}
<1>1. U \subseteq Nat /\ U # {} /\ \A j \in T : j \in 1..m /\ m - j \in U
  <2>1. \A j \in T : j \in 1..m /\ m - j \in U
    OBVIOUS
  <2>2. \A j \in T : m - j \in Nat
    BY <2>1
  <2>3. PICK j \in T : TRUE
    OBVIOUS
  <2> QED BY <2>1, <2>2, <2>3
<1>2. PICK x \in U : \A y \in U : ~(<<y, x>> \in OpToRel(<, Nat))
  <2> HIDE DEF U
  <2> QED BY <1>1, WFMin, NatLessThanWellFounded
<1>3. PICK i \in T : x = m - i
  BY <1>2
<1>4. \A y \in U : ~(y < x)
  BY <1>1, <1>2 DEF OpToRel
<1>5. ASSUME NEW j \in T PROVE j <= i
  <2>1. m - j \in U /\ j \in 1..m /\ i \in 1..m
    BY <1>1
  <2> HIDE DEF U
  <2>2. ~(m - j < m - i)
    BY <1>3, <1>4, <2>1
  <2> QED BY <2>1, <2>2
<1> QED BY <1>5

\* One more event: the totals of the others stand, and its own counts last.
LEMMA LatestAppend ==
  ASSUME NEW S, NEW sent \in Seq(S), NEW e \in S, NEW type
  PROVE  LET more == Append(sent, e) n == Len(sent)
         IN  /\ \A m \in 0..n : Latest(more, type, m) = Latest(sent, type, m)
             /\ Latest(more, type, n + 1) =
                   IF e.type = type /\ e.tokens > 0 THEN e.tokens ELSE Latest(sent, type, n)
<1> DEFINE more == Append(sent, e)
           n == Len(sent)
           At(m) == {i \in 1..m : sent[i].type = type /\ sent[i].tokens > 0}
<1>1. n \in Nat /\ more[n + 1] = e /\ \A i \in 1..n : more[i] = sent[i]
  BY AppendProperties, LenProperties
<1> HIDE DEF more, n
<1>2. ASSUME NEW m \in 0..n PROVE Latest(more, type, m) = Latest(sent, type, m)
  <2>1. {i \in 1..m : more[i].type = type /\ more[i].tokens > 0} = At(m)
    BY <1>1
  <2>2. \A i \in At(m) : more[i] = sent[i]
    BY <1>1
  <2>3. CASE At(m) = {}
    BY <2>1, <2>3 DEF Latest
  <2>4. CASE At(m) # {}
    <3> DEFINE c == CHOOSE i \in At(m) : \A j \in At(m) : j <= i
    <3>1. Latest(more, type, m) = more[c].tokens /\ Latest(sent, type, m) = sent[c].tokens
      BY <2>1, <2>4 DEF Latest
    <3>2. more[c] = sent[c]
      <4>1. At(m) \subseteq 1..m /\ m \in Nat
        BY <1>1
      <4> HIDE DEF At
      <4>2. \E i \in At(m) : \A j \in At(m) : j <= i
        BY <2>4, <4>1, LastOfMany
      <4>3. c \in At(m)
        BY <4>2
      <4> QED BY <2>2, <4>3
    <3> QED BY <3>1, <3>2
  <2> QED BY <2>3, <2>4
<1>3. Latest(more, type, n + 1) =
         IF e.type = type /\ e.tokens > 0 THEN e.tokens ELSE Latest(sent, type, n)
  <2> DEFINE all == {i \in 1..(n + 1) : more[i].type = type /\ more[i].tokens > 0}
  <2>1. CASE e.type = type /\ e.tokens > 0
    <3>1. n + 1 \in all /\ \A j \in all : j <= n + 1 /\ j \in Nat
      BY <1>1, <2>1
    <3>2. (CHOOSE i \in all : \A j \in all : j <= i) = n + 1
      <4> HIDE DEF all
      <4> QED BY <1>1, <3>1
    <3> QED BY <1>1, <2>1, <3>1, <3>2 DEF Latest
  <2>2. CASE ~(e.type = type /\ e.tokens > 0)
    <3>1. all = {i \in 1..n : more[i].type = type /\ more[i].tokens > 0}
      BY <1>1, <2>2
    <3> DEFINE old == {i \in 1..n : more[i].type = type /\ more[i].tokens > 0}
               Last(at) == IF at = {} THEN 0 ELSE more[CHOOSE i \in at : \A j \in at : j <= i].tokens
    <3>2. Latest(more, type, n + 1) = Latest(more, type, n)
      <4>1. Latest(more, type, n + 1) = Last(all) /\ Latest(more, type, n) = Last(old)
        BY DEF Latest
      <4>2. all = old
        BY <3>1
      <4> HIDE DEF all, old, Last
      <4> QED BY <4>1, <4>2
    <3> QED BY <1>1, <1>2, <2>2, <3>2
  <2> QED BY <2>1, <2>2
<1> QED BY <1>1, <1>2, <1>3 DEF more, n

\* What was reported of the others stands too.
LEMMA ReportAppend ==
  ASSUME NEW w \in Wires, NEW sent \in Seq(Event(w)), NEW e \in Event(w)
  PROVE  LET more == Append(sent, e)
         IN  /\ more \in Seq(Event(w)) /\ Len(more) = Len(sent) + 1 /\ Len(sent) \in Nat
             /\ more[Len(sent) + 1] = e
             /\ \A k \in 1..Len(sent) : more[k] = sent[k] /\ Report(w, more, k) = Report(w, sent, k)
<1> DEFINE more == Append(sent, e)
<1>1. /\ more \in Seq(Event(w)) /\ Len(more) = Len(sent) + 1 /\ Len(sent) \in Nat
      /\ more[Len(sent) + 1] = e /\ \A k \in 1..Len(sent) : more[k] = sent[k]
  BY AppendProperties, LenProperties
<1>2. ASSUME NEW k \in 1..Len(sent) PROVE Report(w, more, k) = Report(w, sent, k)
  <2>1. k \in 0..Len(sent) /\ more[k] = sent[k]
    BY <1>1
  <2>2. Latest(more, "start", k) = Latest(sent, "start", k)
    BY <2>1, LatestAppend
  <2>3. Latest(more, "delta", k) = Latest(sent, "delta", k)
    BY <2>1, LatestAppend
  <2> HIDE DEF more
  <2> QED BY <2>1, <2>2, <2>3 DEF Report
<1> QED BY <1>1, <1>2

\* An event that carries nothing leaves the rows as they are ...
LEMMA NothingRelayed ==
  ASSUME NEW w \in Wires, NEW sent \in Seq(Event(w)), NEW e \in Event(w), NEW R, NEW rows \in Seq(R),
         InOrder(w, sent, rows), ~Shown(w, e)
  PROVE  InOrder(w, Append(sent, e), rows)
<1> DEFINE more == Append(sent, e)
<1>1. /\ Len(more) = Len(sent) + 1 /\ Len(sent) \in Nat /\ more[Len(sent) + 1] = e
      /\ \A k \in 1..Len(sent) : more[k] = sent[k] /\ Report(w, more, k) = Report(w, sent, k)
  BY ReportAppend
<1> HIDE DEF more
<1>2. \A i \in 1..Len(rows) :
         /\ rows[i].id \in 1..Len(more) /\ Shown(w, more[rows[i].id])
         /\ rows[i].tokens = Report(w, more, rows[i].id)
  BY <1>1 DEF InOrder
<1>3. \A k \in 1..Len(more) : Shown(w, more[k]) => \E i \in 1..Len(rows) : rows[i].id = k
  BY <1>1 DEF InOrder
<1> QED BY <1>2, <1>3 DEF InOrder, more

\* ... and one that does adds its own.
LEMMA OneRelayed ==
  ASSUME NEW w \in Wires, NEW sent \in Seq(Event(w)), NEW e \in Event(w), NEW R, NEW rows \in Seq(R),
         NEW row \in R, InOrder(w, sent, rows), Shown(w, e), row.id = Len(sent) + 1,
         row.tokens = Report(w, Append(sent, e), Len(sent) + 1)
  PROVE  InOrder(w, Append(sent, e), Append(rows, row))
<1> DEFINE more == Append(sent, e)
           all  == Append(rows, row)
<1>1. /\ Len(more) = Len(sent) + 1 /\ Len(sent) \in Nat /\ more[Len(sent) + 1] = e
      /\ \A k \in 1..Len(sent) : more[k] = sent[k] /\ Report(w, more, k) = Report(w, sent, k)
  BY ReportAppend
<1>2. /\ Len(all) = Len(rows) + 1 /\ Len(rows) \in Nat /\ all[Len(rows) + 1] = row
      /\ \A i \in 1..Len(rows) : all[i] = rows[i]
  BY AppendProperties, LenProperties
<1>3. row.tokens = Report(w, more, Len(sent) + 1)
  OBVIOUS
<1> HIDE DEF more, all
<1>4. ASSUME NEW i \in 1..Len(all)
      PROVE  /\ all[i].id \in 1..Len(more) /\ Shown(w, more[all[i].id])
             /\ all[i].tokens = Report(w, more, all[i].id)
  <2>1. CASE i = Len(rows) + 1
    BY <1>1, <1>2, <1>3, <2>1
  <2>2. CASE i \in 1..Len(rows)
    BY <1>1, <1>2, <2>2 DEF InOrder
  <2> QED BY <1>2, <2>1, <2>2
<1>5. ASSUME NEW i \in 1..Len(all), NEW j \in 1..Len(all), i < j PROVE all[i].id < all[j].id
  <2>1. i \in 1..Len(rows) /\ all[i] = rows[i] /\ rows[i].id \in 1..Len(sent)
    BY <1>2, <1>5 DEF InOrder
  <2>2. CASE j = Len(rows) + 1
    BY <1>1, <1>2, <2>1, <2>2
  <2>3. CASE j \in 1..Len(rows)
    BY <1>2, <1>5, <2>1, <2>3 DEF InOrder
  <2> QED BY <1>2, <2>2, <2>3
<1>6. ASSUME NEW k \in 1..Len(more), Shown(w, more[k]) PROVE \E i \in 1..Len(all) : all[i].id = k
  <2>1. CASE k = Len(sent) + 1
    BY <1>2, <2>1
  <2>2. CASE k \in 1..Len(sent)
    BY <1>1, <1>2, <1>6, <2>2 DEF InOrder
  <2> QED BY <1>1, <2>1, <2>2
<1> QED BY <1>4, <1>5, <1>6 DEF InOrder, more, all

-----------------------------------------------------------------------------
(* The invariant *)

\* The events sent are numbered as they came.
Upstream ==
    /\ up \in [sent: Seq(Event(wire)), event: Event(wire) \cup {NoEvent}, rest: Seq(Lines(wire))]
    /\ Len(up.sent) <= MaxEvents /\ \A i \in 1..Len(up.sent) : up.sent[i].id = i
    /\ up.event # NoEvent => up.event.id = Len(up.sent) + 1

Typed == TypeOK /\ sc \in Scanner(wire) /\ Upstream

\* Where the call is, and what that says of the upstream, the body and the result.
Placed ==
    /\ pc \in {"returned", "sending", "whole"} => up = Silent /\ got = <<>> /\ reader = newStreamReader
    /\ pc \in {"sending", "whole", "reading"} \/ (pc = "ready" /\ ~reader.done) => result = "none"
    /\ pc = "sending" => body = "none"
    /\ pc = "returned" => body # "open"
    /\ pc = "reading" => ~reader.done /\ Framed(up.event, up.rest, sc)
    /\ pc = "ready" /\ ~reader.done => up.event = NoEvent /\ up.rest = <<>>
    /\ pc \in {"ready", "reading"} /\ ~reader.closed => body = "open"
    /\ reader.closed /\ ~reader.closing => body = "closed"
    /\ reader.done \/ reader.closing => reader.closed

\* What the reader remembers of the events it has translated.
Counted(w, r, sent) ==
    /\ w = "anthropic" => /\ r.input = Latest(sent, "start", Len(sent))
                          /\ r.output = Latest(sent, "delta", Len(sent))
    /\ r.sawEnd => w = "gemini" /\ \E i \in 1..Len(sent) : sent[i].type = "final"

Faults == {"none", "caller", "gateway", "upstream"}

ProviderInv ==
    /\ Typed /\ Placed /\ Counted(wire, reader, up.sent) /\ InOrder(wire, up.sent, got)
    /\ EofMeansWhole /\ BlameIsEarned

-----------------------------------------------------------------------------
(* The call *)

\* What the invariant says of an end, for a fault that may be found with it.
Earned(class, found) ==
    /\ countsAgainstHealth(class) =>
          found \in {"upstream", "gateway"} \/ (class = "timeout" /\ ctx = "expired")
    /\ class = "canceled" => ctx = "canceled"
    /\ class = "timeout" => ctx = "expired" \/ found = "upstream"

\* An end for which the upstream is to blame, and one that blames nobody.
LEMMA EarnedFacts ==
  /\ \A class \in (Classes \ {"canceled"}) \cup {"ok", "eof", "truncated"} : Earned(class, "upstream")
  /\ \A class \in {"ok", "eof", "truncated", "none"} : \A found : Earned(class, found)
  /\ Earned("invalid_request", "caller") /\ Earned("internal", "gateway")
BY DEF Earned, countsAgainstHealth, Classes

\* The classes a status or an envelope lead to.
LEMMA ClassFacts ==
  /\ \A code \in Statuses, envelope \in Envelopes :
        statusError(code, envelope) \in Classes \ {"timeout", "canceled"}
  /\ \A envelope \in {"RESOURCE_EXHAUSTED", "INTERNAL"} :
        classify(500, envelope) \in Classes \ {"timeout", "canceled"}
<1>1. \A envelope : \A code \in Statuses \cup {500} :
        ClassFromStatusAndBody(code, envelope) \in Classes \ {"timeout", "canceled"}
  BY DEF ClassFromStatusAndBody, ClassFromStatus, Statuses, Classes
<1>2. \A envelope : \A code \in Statuses \cup {500} : classify(code, envelope) \in Classes \ {"timeout", "canceled"}
  BY <1>1 DEF classify, Classes
<1> QED BY <1>1, <1>2 DEF statusError

\* A step after which the same events have been sent and received.
LEMMA NothingSent ==
  ASSUME ProviderInv, UNCHANGED <<wire, got>>, sc' \in Scanner(wire), up'.sent = up.sent,
         up' \in [sent: Seq(Event(wire)), event: Event(wire) \cup {NoEvent}, rest: Seq(Lines(wire))],
         up'.event # NoEvent => up'.event.id = Len(up.sent) + 1,
         reader'.input = reader.input, reader'.output = reader.output, reader'.sawEnd = reader.sawEnd
  PROVE  /\ TypeOK' => Typed'
         /\ Counted(wire, reader, up.sent)' /\ InOrder(wire, up.sent, got)'
         /\ result' = result \/ result' # "eof" => EofMeansWhole'
<1>1. TypeOK' => Typed'
  BY DEF ProviderInv, Typed, Upstream
<1>2. Counted(wire, reader, up.sent)' /\ InOrder(wire, up.sent, got)'
  BY DEF ProviderInv, Counted, InOrder
<1>3. result' = result \/ result' # "eof" => EofMeansWhole'
  BY DEF ProviderInv, EofMeansWhole
<1> QED BY <1>1, <1>2, <1>3

\* Nothing has been sent, received or counted.
LEMMA Afresh ==
  ASSUME NEW w \in Wires
  PROVE  /\ Fresh \in Scanner(w) /\ Open(Fresh)
         /\ Silent \in [sent: Seq(Event(w)), event: Event(w) \cup {NoEvent}, rest: Seq(Lines(w))]
         /\ Silent.sent = <<>> /\ Silent.event = NoEvent /\ Silent.rest = <<>>
         /\ Counted(w, newStreamReader, <<>>) /\ InOrder(w, <<>>, <<>>)
         /\ newStreamReader \in [done: BOOLEAN, closed: BOOLEAN, closing: BOOLEAN, sawEnd: BOOLEAN,
                                 input: 0..MaxTokens, output: 0..MaxTokens]
<1>1. Fresh \in Scanner(w) /\ Open(Fresh)
  BY ProviderAssumption DEF Fresh, Scanner, Open
<1>2. /\ Silent \in [sent: Seq(Event(w)), event: Event(w) \cup {NoEvent}, rest: Seq(Lines(w))]
      /\ Silent.sent = <<>> /\ Silent.event = NoEvent /\ Silent.rest = <<>>
  BY DEF Silent
<1>3. Counted(w, newStreamReader, <<>>)
  <2>1. \A type : Latest(<<>>, type, 0) = 0
    BY DEF Latest
  <2> QED BY <2>1 DEF Counted, newStreamReader
<1>4. InOrder(w, <<>>, <<>>)
  BY DEF InOrder
<1>5. newStreamReader \in [done: BOOLEAN, closed: BOOLEAN, closing: BOOLEAN, sawEnd: BOOLEAN,
                           input: 0..MaxTokens, output: 0..MaxTokens]
  BY ProviderAssumption DEF newStreamReader
<1> QED BY <1>1, <1>2, <1>3, <1>4, <1>5

\* A call begins where the last one left nothing behind.
LEMMA CallStarts ==
  ASSUME NEW w \in Wires, Call(w)
  PROVE  ProviderInv'
<1>1. /\ wire' = w /\ pc' = "sending" /\ ctx' = "live" /\ body' = "none" /\ sc' = Fresh
      /\ reader' = newStreamReader /\ result' = "none" /\ got' = <<>> /\ up' = Silent /\ fault' = "none"
  BY DEF Call
<1>2. ~reader'.done /\ ~reader'.closed /\ ~reader'.closing
  BY <1>1 DEF newStreamReader
<1>3. TypeOK'
  <2>1. sc'.left \in 0..MaxLines
    BY <1>1, ProviderAssumption DEF Fresh
  <2>2. got' \in Seq([id: 1..MaxEvents, tokens: 0..(2 * MaxTokens)])
    BY <1>1
  <2> QED BY <1>1, <2>1, <2>2, Afresh DEF TypeOK
<1>4. Typed'
  <2>1. Len(up'.sent) = 0
    BY <1>1, Afresh
  <2> QED BY <1>1, <1>3, <2>1, Afresh, ProviderAssumption DEF Typed, Upstream
<1>5. Placed'
  BY <1>1, <1>2 DEF Placed
<1>6. Counted(wire, reader, up.sent)' /\ InOrder(wire, up.sent, got)'
  BY <1>1, Afresh
<1> QED BY <1>1, <1>4, <1>5, <1>6 DEF ProviderInv, EofMeansWhole, BlameIsEarned, countsAgainstHealth, Classes

\* What the class of a failed transport says of its error and of the context.
FailsWith(err, class) ==
    /\ class \in {"upstream", "canceled", "timeout"}
    /\ class = "upstream" => ctx = "live"
    /\ class = "canceled" => ctx = "canceled"
    /\ class = "timeout" => ctx = "expired" \/ err \notin ContextErrors

\* A class other than the context's own is that of the dial's timeout.
LEMMA FailureFacts ==
  ASSUME ctx \in {"live", "canceled", "expired"}, NEW err \in SendErrors
  PROVE  FailsWith(err, transportClass(err, ctx))
<1>1. err \in {"failed", "deadline"} \/ (err = "canceled" /\ ctx = "canceled")
  BY DEF SendErrors, ContextErrors
<1>2. CASE err = "failed"
  BY <1>2 DEF FailsWith, transportClass
<1>3. CASE err = "deadline"
  BY <1>3 DEF FailsWith, transportClass, ContextErrors
<1>4. CASE err = "canceled" /\ ctx = "canceled"
  BY <1>4 DEF FailsWith, transportClass
<1> QED BY <1>1, <1>2, <1>3, <1>4

\* A call that is not a stream, or never became one, ends.
LEMMA CallReturns ==
  ASSUME ProviderInv, pc \in {"sending", "whole"}, NEW class, Returns(class),
         class \in Classes \cup {"ok"}, body' \in {"none", "closed"},
         fault' \in Faults, Earned(class, fault')
  PROVE  ProviderInv'
<1>1. pc' = "returned" /\ result' = class /\ UNCHANGED <<wire, ctx, sc, reader, got, up>>
  BY DEF Returns
<1>2. TypeOK'
  BY <1>1 DEF ProviderInv, Typed, TypeOK, Faults
<1>3. Typed' /\ Counted(wire, reader, up.sent)' /\ InOrder(wire, up.sent, got)' /\ EofMeansWhole'
  <2>1. result' # "eof"
    BY <1>1 DEF Classes
  <2> QED BY <1>1, <1>2, <2>1, NothingSent DEF ProviderInv, Typed, Upstream
<1>4. Placed'
  <2>1. ~reader'.done /\ ~reader'.closed /\ ~reader'.closing /\ reader' = newStreamReader
    BY <1>1 DEF ProviderInv, Placed, newStreamReader
  <2>2. up' = Silent /\ got' = <<>>
    BY <1>1 DEF ProviderInv, Placed
  <2> QED BY <1>1, <2>1, <2>2 DEF Placed
<1> QED BY <1>1, <1>3, <1>4 DEF ProviderInv, BlameIsEarned, Earned

\* Every step of a call that is not a stream.
LEMMA CallSteps ==
  ASSUME ProviderInv
  PROVE  /\ Rejected \/ SendFails \/ Answers \/ ChatReads \/ ChatReadFails \/ ChatUnusable => ProviderInv'
         /\ \A code \in Statuses, envelope \in Envelopes : Refused(code, envelope) => ProviderInv'
<1>1. ctx \in {"live", "canceled", "expired"} /\ fault \in Faults
      /\ body \in {"none", "open", "closed"} /\ (pc = "sending" => body = "none")
  BY DEF ProviderInv, Typed, TypeOK, Placed, Faults
<1>2. ASSUME Rejected PROVE ProviderInv'
  BY <1>1, <1>2, EarnedFacts, CallReturns DEF Rejected, Classes, Faults
<1>3. ASSUME NEW code \in Statuses, NEW envelope \in Envelopes, Refused(code, envelope) PROVE ProviderInv'
  <2>1. statusError(code, envelope) \in Classes \ {"timeout", "canceled"}
    BY ClassFacts
  <2> QED BY <1>3, <2>1, EarnedFacts, CallReturns DEF Refused, Faults
<1>4. ASSUME NEW err \in SendErrors, pc \in {"sending", "whole"}, Returns(transportClass(err, ctx)),
             body' \in {"none", "closed"},
             fault' = IF ctx = "live" \/ err \notin ContextErrors THEN "upstream" ELSE fault
      PROVE  ProviderInv'
  <2>1. FailsWith(err, transportClass(err, ctx))
    BY <1>1, FailureFacts
  <2>2. Earned(transportClass(err, ctx), fault') /\ fault' \in Faults
    BY <1>1, <1>4, <2>1, EarnedFacts DEF FailsWith, Faults, Classes, Earned, countsAgainstHealth
  <2> QED BY <1>1, <1>4, <2>1, <2>2, CallReturns DEF FailsWith, Classes
<1>5. ASSUME SendFails \/ ChatReadFails PROVE ProviderInv'
  <2>1. ContextErrors \subseteq SendErrors
    BY DEF SendErrors
  <2> QED BY <1>1, <1>4, <1>5, <2>1 DEF SendFails, ChatReadFails
<1>6. ASSUME ChatReads PROVE ProviderInv'
  BY <1>1, <1>6, EarnedFacts, CallReturns DEF ChatReads, Classes
<1>7. ASSUME ChatUnusable PROVE ProviderInv'
  BY <1>7, EarnedFacts, CallReturns DEF ChatUnusable, Classes, Faults
<1>8. ASSUME Answers PROVE ProviderInv'
  <2>1. /\ pc = "sending" /\ body' = "open" /\ pc' \in {"whole", "ready"}
        /\ UNCHANGED <<wire, ctx, sc, reader, result, got, up, fault>>
    BY <1>8 DEF Answers
  <2>2. TypeOK'
    BY <2>1 DEF ProviderInv, Typed, TypeOK
  <2>3. Typed' /\ Counted(wire, reader, up.sent)' /\ InOrder(wire, up.sent, got)' /\ EofMeansWhole'
    BY <2>1, <2>2, NothingSent DEF ProviderInv, Typed, Upstream
  <2>4. up = Silent /\ got = <<>> /\ reader = newStreamReader /\ result = "none"
    BY <2>1 DEF ProviderInv, Placed
  <2>5. ~reader.done /\ ~reader.closed /\ ~reader.closing /\ up.event = NoEvent /\ up.rest = <<>>
    BY <2>4 DEF newStreamReader, Silent
  <2>6. Placed'
    BY <2>1, <2>4, <2>5 DEF Placed
  <2> QED BY <2>1, <2>3, <2>6 DEF ProviderInv, BlameIsEarned
<1> QED BY <1>2, <1>3, <1>5, <1>6, <1>7, <1>8

-----------------------------------------------------------------------------
(* The caller, and a read that ends the stream *)

Reader == [done: BOOLEAN, closed: BOOLEAN, closing: BOOLEAN, sawEnd: BOOLEAN,
           input: 0..MaxTokens, output: 0..MaxTokens]

\* Close, the caller's context, and Recv before it reads.
LEMMA CallerSteps ==
  ASSUME ProviderInv, Recv \/ Close \/ CloseBody \/ CtxEnds
  PROVE  ProviderInv'
<1>1. /\ reader \in Reader /\ wire \in Wires /\ sc \in Scanner(wire) /\ result \in Classes \cup {"none", "ok", "eof", "truncated"}
      /\ up \in [sent: Seq(Event(wire)), event: Event(wire) \cup {NoEvent}, rest: Seq(Lines(wire))]
      /\ up.event # NoEvent => up.event.id = Len(up.sent) + 1
  BY DEF ProviderInv, Typed, Upstream, TypeOK, Reader
<1>2. CASE RecvAgain
  <2>1. UNCHANGED <<wire, pc, ctx, body, sc, reader, result, got, up, fault>>
    BY <1>2 DEF RecvAgain, vars
  <2>2. Typed' /\ Placed'
    BY <2>1 DEF ProviderInv, Typed, Upstream, TypeOK, Placed
  <2> QED BY <2>1, <2>2 DEF ProviderInv, EofMeansWhole, BlameIsEarned, countsAgainstHealth, Classes
<1>3. CASE RecvClosed
  <2> DEFINE r == [reader EXCEPT !.done = TRUE]
  <2>1. /\ pc = "ready" /\ reader.closed /\ reader' = r /\ result' = "truncated"
        /\ UNCHANGED <<wire, pc, ctx, body, sc, got, up, fault>>
    BY <1>3 DEF RecvClosed
  <2>2. /\ r \in Reader /\ r.done /\ r.closed = reader.closed /\ r.closing = reader.closing
        /\ r.input = reader.input /\ r.output = reader.output /\ r.sawEnd = reader.sawEnd
    BY <1>1 DEF Reader
  <2> HIDE DEF r
  <2>3. TypeOK'
    BY <2>1, <2>2 DEF ProviderInv, Typed, TypeOK, Reader
  <2>4. Typed' /\ Counted(wire, reader, up.sent)' /\ InOrder(wire, up.sent, got)' /\ EofMeansWhole'
    BY <1>1, <2>1, <2>2, <2>3, NothingSent
  <2>5. Placed'
    BY <2>1, <2>2 DEF ProviderInv, Placed
  <2> QED BY <2>1, <2>4, <2>5 DEF ProviderInv, BlameIsEarned, countsAgainstHealth, Classes
<1>4. CASE RecvStarts
  <2>1. /\ pc = "ready" /\ ~reader.done /\ ~reader.closed /\ pc' = "reading" /\ sc' = Fresh
        /\ UNCHANGED <<wire, ctx, body, reader, result, got, up, fault>>
    BY <1>4 DEF RecvStarts
  <2>2. Fresh \in Scanner(wire) /\ Open(Fresh) /\ Fresh.left \in 0..MaxLines
    BY <1>1, Afresh DEF Scanner
  <2>3. TypeOK'
    BY <2>1, <2>2 DEF ProviderInv, Typed, TypeOK
  <2>4. Typed' /\ Counted(wire, reader, up.sent)' /\ InOrder(wire, up.sent, got)' /\ EofMeansWhole'
    BY <1>1, <2>1, <2>2, <2>3, NothingSent
  <2>5. up.event = NoEvent /\ up.rest = <<>> /\ result = "none" /\ body = "open"
    BY <2>1 DEF ProviderInv, Placed
  <2>6. Framed(NoEvent, <<>>, Fresh)
    BY <2>2 DEF Framed, Open
  <2>7. Placed'
    BY <2>1, <2>5, <2>6 DEF ProviderInv, Placed
  <2> QED BY <2>1, <2>4, <2>7 DEF ProviderInv, BlameIsEarned
<1>5. CASE Close
  <2> DEFINE r == [reader EXCEPT !.closed = TRUE, !.closing = TRUE]
  <2>1. /\ pc \in {"ready", "reading"} /\ ~reader.closed /\ reader' = r
        /\ UNCHANGED <<wire, pc, ctx, body, sc, result, got, up, fault>>
    BY <1>5 DEF Close
  <2>2. /\ r \in Reader /\ r.done = reader.done /\ r.closed /\ r.closing
        /\ r.input = reader.input /\ r.output = reader.output /\ r.sawEnd = reader.sawEnd
    BY <1>1 DEF Reader
  <2> HIDE DEF r
  <2>3. TypeOK'
    BY <2>1, <2>2 DEF ProviderInv, Typed, TypeOK, Reader
  <2>4. Typed' /\ Counted(wire, reader, up.sent)' /\ InOrder(wire, up.sent, got)' /\ EofMeansWhole'
    BY <1>1, <2>1, <2>2, <2>3, NothingSent
  <2>5. Placed'
    BY <2>1, <2>2 DEF ProviderInv, Placed
  <2> QED BY <2>1, <2>4, <2>5 DEF ProviderInv, BlameIsEarned
<1>6. CASE CloseBody
  <2> DEFINE r == [reader EXCEPT !.closing = FALSE]
  <2>1. /\ reader.closing /\ reader' = r /\ body' = "closed"
        /\ UNCHANGED <<wire, pc, ctx, sc, result, got, up, fault>>
    BY <1>6 DEF CloseBody, Released
  <2>2. /\ r \in Reader /\ r.done = reader.done /\ r.closed = reader.closed /\ ~r.closing
        /\ r.input = reader.input /\ r.output = reader.output /\ r.sawEnd = reader.sawEnd
    BY <1>1 DEF Reader
  <2> HIDE DEF r
  <2>3. TypeOK'
    BY <2>1, <2>2 DEF ProviderInv, Typed, TypeOK, Reader
  <2>4. Typed' /\ Counted(wire, reader, up.sent)' /\ InOrder(wire, up.sent, got)' /\ EofMeansWhole'
    BY <1>1, <2>1, <2>2, <2>3, NothingSent
  <2>5. pc \in {"ready", "reading"} /\ reader.closed
    <3>1. reader # newStreamReader
      BY <2>1 DEF newStreamReader
    <3> QED BY <2>1, <3>1 DEF ProviderInv, Typed, TypeOK, Placed
  <2>6. Placed'
    BY <2>1, <2>2, <2>5 DEF ProviderInv, Placed
  <2> QED BY <2>1, <2>4, <2>6 DEF ProviderInv, BlameIsEarned
<1>7. CASE CtxEnds
  <2>1. /\ ctx = "live" /\ ctx' \in {"canceled", "expired"}
        /\ UNCHANGED <<wire, pc, body, sc, reader, result, got, up, fault>>
    BY <1>7 DEF CtxEnds
  <2>2. TypeOK'
    BY <2>1 DEF ProviderInv, Typed, TypeOK
  <2>3. Typed' /\ Counted(wire, reader, up.sent)' /\ InOrder(wire, up.sent, got)' /\ EofMeansWhole'
    BY <1>1, <2>1, <2>2, NothingSent
  <2>4. Placed'
    BY <2>1 DEF ProviderInv, Placed
  <2>5. BlameIsEarned'
    BY <2>1 DEF ProviderInv, BlameIsEarned
  <2> QED BY <2>3, <2>4, <2>5 DEF ProviderInv
<1> QED BY <1>2, <1>3, <1>4, <1>5, <1>6, <1>7 DEF Recv

\* Recv ends the stream: the body is closed, and what was sent and counted stands.
LEMMA Finishes ==
  ASSUME ProviderInv, pc = "reading", NEW end, finish(end), UNCHANGED <<wire, ctx, sc, got>>,
         Upstream', Counted(wire, reader, up'.sent), InOrder(wire, up'.sent, got),
         end \in Classes \cup {"eof", "truncated"}, fault' \in Faults, Earned(end, fault'),
         end = "eof" => \E i \in 1..Len(up'.sent) : up'.sent[i].type = Marker(wire)
  PROVE  ProviderInv'
<1> DEFINE r == [reader EXCEPT !.done = TRUE, !.closed = TRUE]
<1>1. ~reader.closing /\ pc' = "ready" /\ result' = end /\ reader' = r /\ body' = "closed"
  BY DEF finish
<1>2. reader \in Reader
  BY DEF ProviderInv, Typed, TypeOK, Reader
<1>3. /\ r \in Reader /\ r.done /\ r.closed /\ r.closing = reader.closing
      /\ r.input = reader.input /\ r.output = reader.output /\ r.sawEnd = reader.sawEnd
  BY <1>2 DEF Reader
<1> HIDE DEF r
<1>4. Typed'
  BY <1>1, <1>3 DEF ProviderInv, Typed, TypeOK, Reader, Faults
<1>5. Placed'
  BY <1>1, <1>3 DEF Placed
<1>6. Counted(wire, reader, up.sent)' /\ InOrder(wire, up.sent, got)'
  BY <1>1, <1>3 DEF Counted
<1>7. EofMeansWhole' /\ BlameIsEarned'
  BY <1>1 DEF EofMeansWhole, BlameIsEarned, Earned
<1> QED BY <1>4, <1>5, <1>6, <1>7 DEF ProviderInv

\* The read fails, finds too much, or comes to the end of the body.
LEMMA ReadStops ==
  ASSUME ProviderInv, ReadTooLarge \/ ReadEnds \/ ReadFails
  PROVE  ProviderInv'
<1>1. /\ ctx \in {"live", "canceled", "expired"} /\ fault \in Faults
      /\ wire \in Wires /\ Upstream /\ Counted(wire, reader, up.sent) /\ InOrder(wire, up.sent, got)
  BY DEF ProviderInv, Typed, TypeOK, Faults
<1>2. CASE ReadTooLarge
  <2>1. recvError("too_large", reader.closed) = "upstream"
    BY DEF recvError
  <2>2. pc = "reading" /\ finish("upstream") /\ fault' = "upstream" /\ UNCHANGED <<wire, ctx, sc, got, up>>
    BY <1>2, <2>1 DEF ReadTooLarge, Fails
  <2>3. Upstream'
    BY <1>1, <2>2 DEF Upstream
  <2> QED BY <1>1, <2>2, <2>3, EarnedFacts, Finishes DEF Classes, Faults
<1>3. CASE ReadEnds
  <2> DEFINE end == IF reader.sawEnd THEN "eof" ELSE "truncated"
  <2>1. recvError("EOF", reader.closed) = end
    BY DEF recvError
  <2>2. /\ pc = "reading" /\ finish(end) /\ UNCHANGED <<wire, ctx, sc, got, up>>
        /\ fault' = IF reader.sawEnd THEN fault ELSE "upstream"
    BY <1>3, <2>1 DEF ReadEnds
  <2>3. Upstream' /\ up' = up
    BY <1>1, <2>2 DEF Upstream
  <2>4. end = "eof" => \E i \in 1..Len(up'.sent) : up'.sent[i].type = Marker(wire)
    BY <1>1, <2>3 DEF Counted, Marker
  <2>5. end \in {"eof", "truncated"}
    OBVIOUS
  <2> HIDE DEF end
  <2> QED BY <1>1, <2>2, <2>3, <2>4, <2>5, EarnedFacts, Finishes DEF Faults
<1>4. CASE ReadFails
  <2>0. PICK err \in ContextErrors : finish(recvError(err, reader.closed))
    BY <1>4 DEF ReadFails
  <2> DEFINE class == transportClass(err, ctx)
             end == recvError(err, reader.closed)
  <2>1. /\ pc = "reading" /\ finish(end) /\ UNCHANGED <<wire, ctx, sc, got, up>>
        /\ fault' = IF ctx = "live" /\ body = "open" THEN "upstream" ELSE fault
    BY <1>4, <2>0 DEF ReadFails
  <2>2. FailsWith(err, class) /\ err \in SendErrors
    BY <1>1, FailureFacts DEF SendErrors
  <2>3. end = IF class = "upstream" /\ reader.closed THEN "truncated" ELSE class
    BY <1>1 DEF recvError, ContextErrors
  <2>4. Upstream' /\ up' = up
    BY <1>1, <2>1 DEF Upstream
  <2>5. body = "open" \/ reader.closed
    BY <2>1 DEF ProviderInv, Placed
  <2> HIDE DEF class, end
  <2>6. /\ end \in {"upstream", "canceled", "timeout", "truncated"} /\ fault' \in Faults
        /\ end = "upstream" => fault' = "upstream"
        /\ end = "canceled" => ctx = "canceled"
        /\ end = "timeout" => ctx = "expired"
    BY <1>1, <2>1, <2>2, <2>3, <2>5 DEF FailsWith, Faults
  <2>7. Earned(end, fault')
    BY <2>6 DEF Earned, countsAgainstHealth, Classes
  <2> QED BY <1>1, <2>1, <2>4, <2>6, <2>7, Finishes DEF Classes
<1> QED BY <1>2, <1>3, <1>4

-----------------------------------------------------------------------------
(* Reading an event *)

\* The upstream sends the first line of something.
LEMMA SendsFramed ==
  ASSUME ProviderInv, Sends
  PROVE  ProviderInv'
<1>1. /\ pc = "reading" /\ up.rest = <<>> /\ Len(up.sent) < MaxEvents
      /\ UNCHANGED <<wire, pc, ctx, body, sc, reader, result, got, fault>>
  BY DEF Sends
<1>2. /\ wire \in Wires /\ sc \in Scanner(wire) /\ Open(sc)
      /\ up \in [sent: Seq(Event(wire)), event: Event(wire) \cup {NoEvent}, rest: Seq(Lines(wire))]
  BY <1>1 DEF ProviderInv, Typed, Upstream, TypeOK, Placed, Framed
<1>3. PICK e, lines :
         /\ \/ e \in Event(wire) /\ e.id = Len(up.sent) + 1 /\ lines \in Framings(e)
            \/ e = NoEvent /\ lines \in Noise
         /\ up' = [up EXCEPT !.event = e, !.rest = lines]
  BY DEF Sends
<1>4. lines \in Seq(Lines(wire)) /\ Framed(e, lines, sc)
  BY <1>2, <1>3, EventFramed, NoiseFramed
<1>5. /\ up' \in [sent: Seq(Event(wire)), event: Event(wire) \cup {NoEvent}, rest: Seq(Lines(wire))]
      /\ up'.sent = up.sent /\ up'.event = e /\ up'.rest = lines
  BY <1>2, <1>3, <1>4
<1>6. TypeOK'
  BY <1>1 DEF ProviderInv, Typed, TypeOK
<1>7. Typed' /\ Counted(wire, reader, up.sent)' /\ InOrder(wire, up.sent, got)' /\ EofMeansWhole'
  <2>1. e # NoEvent => e.id = Len(up.sent) + 1
    BY <1>3
  <2> QED BY <1>1, <1>2, <1>5, <1>6, <2>1, NothingSent
<1>8. Placed'
  BY <1>1, <1>4, <1>5 DEF ProviderInv, Placed
<1> QED BY <1>1, <1>7, <1>8 DEF ProviderInv, BlameIsEarned

\* A line that is not the last of its lines is read.
LEMMA GoesOn ==
  ASSUME ProviderInv, pc = "reading", NEW t \in Scanner(wire), Continue(t),
         NEW rest \in Seq(Lines(wire)), NEW e, up' = [sent |-> up.sent, event |-> e, rest |-> rest],
         e = up.event \/ e = NoEvent, Framed(e, rest, t)
  PROVE  ProviderInv'
<1>1. sc' = t /\ UNCHANGED <<wire, pc, ctx, body, reader, result, got, fault>>
  BY DEF Continue
<1>2. /\ up' \in [sent: Seq(Event(wire)), event: Event(wire) \cup {NoEvent}, rest: Seq(Lines(wire))]
      /\ up'.sent = up.sent /\ up'.event = e /\ up'.rest = rest
      /\ up'.event # NoEvent => up'.event.id = Len(up.sent) + 1
  BY DEF ProviderInv, Typed, Upstream
<1>3. TypeOK'
  BY <1>1 DEF ProviderInv, Typed, TypeOK, Scanner
<1>4. Typed' /\ Counted(wire, reader, up.sent)' /\ InOrder(wire, up.sent, got)' /\ EofMeansWhole'
  BY <1>1, <1>2, <1>3, NothingSent
<1>5. Placed'
  BY <1>1, <1>2 DEF ProviderInv, Placed
<1> QED BY <1>1, <1>4, <1>5 DEF ProviderInv, BlameIsEarned

\* The last of lines that are no event is read, and Recv returns a keepalive.
LEMMA KeptAlive ==
  ASSUME ProviderInv, pc = "reading", Keepalive,
         up' = [sent |-> up.sent, event |-> NoEvent, rest |-> <<>>]
  PROVE  ProviderInv'
<1>1. pc' = "ready" /\ UNCHANGED <<wire, ctx, body, sc, reader, result, got, fault>>
  BY DEF Keepalive
<1>2. /\ up' \in [sent: Seq(Event(wire)), event: Event(wire) \cup {NoEvent}, rest: Seq(Lines(wire))]
      /\ up'.sent = up.sent /\ up'.event = NoEvent /\ up'.rest = <<>>
  BY DEF ProviderInv, Typed, Upstream
<1>3. TypeOK'
  BY <1>1 DEF ProviderInv, Typed, TypeOK
<1>4. Typed' /\ Counted(wire, reader, up.sent)' /\ InOrder(wire, up.sent, got)' /\ EofMeansWhole'
  BY <1>1, <1>2, <1>3, NothingSent DEF ProviderInv, Typed
<1>5. Placed'
  BY <1>1, <1>2 DEF ProviderInv, Placed
<1> QED BY <1>1, <1>4, <1>5 DEF ProviderInv, BlameIsEarned

\* The reader counts one more event.
LEMMA CountedAppend ==
  ASSUME NEW w \in Wires, NEW sent \in Seq(Event(w)), NEW e \in Event(w), NEW r, NEW q,
         Counted(w, r, sent),
         w = "anthropic" => /\ q.input = IF e.type = "start" /\ e.tokens > 0 THEN e.tokens ELSE r.input
                            /\ q.output = IF e.type = "delta" /\ e.tokens > 0 THEN e.tokens ELSE r.output,
         q.sawEnd => r.sawEnd \/ (w = "gemini" /\ e.type = "final")
  PROVE  Counted(w, q, Append(sent, e))
<1> DEFINE more == Append(sent, e)
<1>1. /\ Len(more) = Len(sent) + 1 /\ Len(sent) \in Nat /\ more[Len(sent) + 1] = e
      /\ \A k \in 1..Len(sent) : more[k] = sent[k]
  BY ReportAppend
<1>2. Latest(more, "start", Len(sent) + 1) =
         IF e.type = "start" /\ e.tokens > 0 THEN e.tokens ELSE Latest(sent, "start", Len(sent))
  BY LatestAppend
<1>3. Latest(more, "delta", Len(sent) + 1) =
         IF e.type = "delta" /\ e.tokens > 0 THEN e.tokens ELSE Latest(sent, "delta", Len(sent))
  BY LatestAppend
<1> HIDE DEF more
<1>4. w = "anthropic" => /\ q.input = Latest(more, "start", Len(more))
                         /\ q.output = Latest(more, "delta", Len(more))
  BY <1>1, <1>2, <1>3 DEF Counted
<1>5. q.sawEnd => w = "gemini" /\ \E i \in 1..Len(more) : more[i].type = "final"
  <2>1. CASE r.sawEnd
    BY <1>1, <2>1 DEF Counted
  <2>2. CASE w = "gemini" /\ e.type = "final"
    <3>1. Len(sent) + 1 \in 1..Len(more)
      BY <1>1
    <3> QED BY <1>1, <2>2, <3>1
  <2> QED BY <2>1, <2>2
<1> QED BY <1>4, <1>5 DEF Counted, more

\* An event is sent whole.
LEMMA SentWhole ==
  ASSUME ProviderInv, NEW e, e = up.event, e # NoEvent, wire' = wire,
         up' = [sent |-> Append(up.sent, e), event |-> NoEvent, rest |-> <<>>]
  PROVE  /\ Upstream' /\ e \in Event(wire) /\ e.id = Len(up.sent) + 1
         /\ up.sent \in Seq(Event(wire)) /\ wire \in Wires /\ up'.sent = Append(up.sent, e)
         /\ Len(up.sent) + 1 \in 1..Len(up'.sent) /\ up'.sent[Len(up.sent) + 1] = e
<1>1. e \in Event(wire) /\ e.id = Len(up.sent) + 1 /\ up.sent \in Seq(Event(wire)) /\ wire \in Wires
      /\ \A i \in 1..Len(up.sent) : up.sent[i].id = i
  BY DEF ProviderInv, Typed, Upstream, TypeOK
<1> DEFINE more == Append(up.sent, e)
<1>2. /\ more \in Seq(Event(wire)) /\ Len(more) = Len(up.sent) + 1 /\ Len(up.sent) \in Nat
      /\ more[Len(up.sent) + 1] = e /\ \A k \in 1..Len(up.sent) : more[k] = up.sent[k]
  BY <1>1, ReportAppend
<1>3. e.id \in 1..MaxEvents
  BY <1>1, EventFacts
<1>4. up'.sent = more /\ up'.event = NoEvent /\ up'.rest = <<>>
  OBVIOUS
<1>5. up' \in [sent: Seq(Event(wire)), event: Event(wire) \cup {NoEvent}, rest: Seq(Lines(wire))]
  BY <1>2
<1> HIDE DEF more
<1>6. Len(more) <= MaxEvents /\ \A i \in 1..Len(more) : more[i].id = i
  <2>1. Len(more) <= MaxEvents
    BY <1>1, <1>2, <1>3
  <2>2. ASSUME NEW i \in 1..Len(more) PROVE more[i].id = i
    <3>1. i \in 1..Len(up.sent) \/ i = Len(up.sent) + 1
      BY <1>2
    <3> QED BY <1>1, <1>2, <3>1
  <2> QED BY <2>1, <2>2
<1>7. Upstream'
  BY <1>4, <1>5, <1>6 DEF Upstream
<1> QED BY <1>1, <1>2, <1>4, <1>7 DEF more

\* An event that was sent whole is passed on.
LEMMA Chunked ==
  ASSUME ProviderInv, pc = "reading", NEW e, e = up.event, e # NoEvent,
         up' = [sent |-> Append(up.sent, e), event |-> NoEvent, rest |-> <<>>],
         NEW r \in Reader, r.done = reader.done, r.closed = reader.closed, r.closing = reader.closing,
         NEW tokens \in 0..(2 * MaxTokens), Chunk(r, e, tokens), Shown(wire, e),
         Counted(wire, r, Append(up.sent, e)),
         tokens = Report(wire, Append(up.sent, e), Len(up.sent) + 1)
  PROVE  ProviderInv'
<1> DEFINE row == [id |-> e.id, tokens |-> tokens]
           R   == [id: 1..MaxEvents, tokens: 0..(2 * MaxTokens)]
<1>1. /\ pc' = "ready" /\ reader' = r /\ got' = Append(got, row)
      /\ UNCHANGED <<wire, ctx, body, sc, result, fault>>
  BY DEF Chunk
<1>2. /\ Upstream' /\ e \in Event(wire) /\ e.id = Len(up.sent) + 1
      /\ up.sent \in Seq(Event(wire)) /\ wire \in Wires /\ up'.sent = Append(up.sent, e)
  BY <1>1, SentWhole
<1>3. row \in R /\ row.id = Len(up.sent) + 1 /\ row.tokens = tokens /\ got \in Seq(R)
  BY <1>2, EventFacts DEF ProviderInv, Typed, TypeOK
<1> HIDE DEF row, R
<1>4. got' \in Seq(R)
  BY <1>1, <1>3, AppendProperties
<1>5. Typed'
  BY <1>1, <1>2, <1>4 DEF ProviderInv, Typed, TypeOK, Reader, R
<1>6. InOrder(wire, up.sent, got)'
  BY <1>1, <1>2, <1>3, OneRelayed DEF ProviderInv
<1>7. Counted(wire, reader, up.sent)'
  BY <1>1, <1>2
<1>8. result = "none" /\ result' = "none"
  BY <1>1 DEF ProviderInv, Placed
<1>9. Placed'
  <2>1. up'.event = NoEvent /\ up'.rest = <<>>
    OBVIOUS
  <2> QED BY <1>1, <1>8, <2>1 DEF ProviderInv, Placed
<1> QED BY <1>5, <1>6, <1>7, <1>8, <1>9 DEF ProviderInv, EofMeansWhole, BlameIsEarned, countsAgainstHealth, Classes

\* One that carries nothing is passed over.
LEMMA PassedOver ==
  ASSUME ProviderInv, pc = "reading", NEW e, e = up.event, e # NoEvent,
         up' = [sent |-> Append(up.sent, e), event |-> NoEvent, rest |-> <<>>],
         ~Shown(wire, e), Continue(Fresh) \/ Keepalive
  PROVE  ProviderInv'
<1>1. /\ UNCHANGED <<wire, ctx, body, reader, result, got, fault>>
      /\ \/ pc' = "reading" /\ sc' = Fresh
         \/ pc' = "ready" /\ sc' = sc
  BY DEF Continue, Keepalive
<1>2. /\ Upstream' /\ e \in Event(wire) /\ wire \in Wires /\ up.sent \in Seq(Event(wire))
      /\ up'.sent = Append(up.sent, e)
  BY <1>1, SentWhole
<1>3. Fresh \in Scanner(wire) /\ Open(Fresh)
  BY <1>2, Afresh
<1>4. Typed'
  BY <1>1, <1>2, <1>3 DEF ProviderInv, Typed, TypeOK, Scanner
<1>5. InOrder(wire, up.sent, got)'
  BY <1>1, <1>2, NothingRelayed DEF ProviderInv, Typed, TypeOK
<1>6. Counted(wire, reader, up.sent)'
  <2>1. Counted(wire, reader, up.sent) /\ e.type \notin {"start", "delta"}
    BY DEF ProviderInv, Shown
  <2>2. Counted(wire, reader, Append(up.sent, e))
    BY <1>2, <2>1, CountedAppend
  <2> QED BY <1>1, <1>2, <2>2
<1>7. result = "none" /\ result' = "none" /\ up'.event = NoEvent /\ up'.rest = <<>>
  BY <1>1 DEF ProviderInv, Placed
<1>8. Placed'
  <2>1. Framed(NoEvent, <<>>, Fresh)
    BY <1>3 DEF Framed, Open
  <2> QED BY <1>1, <1>7, <2>1 DEF ProviderInv, Placed
<1> QED BY <1>4, <1>5, <1>6, <1>7, <1>8 DEF ProviderInv, EofMeansWhole, BlameIsEarned, countsAgainstHealth, Classes

\* One that ends the stream is its last.
LEMMA LastEvent ==
  ASSUME ProviderInv, pc = "reading", NEW e, e = up.event, e # NoEvent,
         up' = [sent |-> Append(up.sent, e), event |-> NoEvent, rest |-> <<>>],
         ~Shown(wire, e), NEW end,
         \/ end = "eof" /\ Ends(end) /\ e.type = Marker(wire)
         \/ end \in Classes \ {"timeout", "canceled"} /\ Fails(end)
  PROVE  ProviderInv'
<1>1. /\ finish(end) /\ UNCHANGED <<wire, ctx, sc, got>>
      /\ fault' \in {fault, "upstream"}
  BY DEF Ends, Fails
<1>2. /\ Upstream' /\ e \in Event(wire) /\ wire \in Wires /\ up.sent \in Seq(Event(wire))
      /\ up'.sent = Append(up.sent, e)
      /\ Len(up.sent) + 1 \in 1..Len(up'.sent) /\ up'.sent[Len(up.sent) + 1] = e
  BY <1>1, SentWhole
<1>3. InOrder(wire, up'.sent, got)
  BY <1>2, NothingRelayed DEF ProviderInv, Typed, TypeOK
<1>4. Counted(wire, reader, up'.sent)
  <2>1. Counted(wire, reader, up.sent) /\ e.type \notin {"start", "delta"}
    BY DEF ProviderInv, Shown
  <2> QED BY <1>2, <2>1, CountedAppend
<1>5. fault' \in Faults /\ (end # "eof" => fault' = "upstream") /\ Earned(end, fault')
  <2>1. fault' \in Faults /\ (end # "eof" => fault' = "upstream")
    BY <1>1 DEF ProviderInv, Typed, TypeOK, Ends, Fails, Classes, Faults
  <2> QED BY <2>1, EarnedFacts
<1>6. end = "eof" => \E i \in 1..Len(up'.sent) : up'.sent[i].type = Marker(wire)
  BY <1>2 DEF Classes
<1>7. end \in Classes \cup {"eof", "truncated"} /\ end \notin {"timeout", "canceled"}
  OBVIOUS
<1> QED BY <1>1, <1>2, <1>3, <1>4, <1>5, <1>6, <1>7, Finishes

\* What an event of the anthropic wire adds to the totals, and is reported as.
LEMMA AnthropicReport ==
  ASSUME NEW sent \in Seq(Event("anthropic")), NEW e \in Event("anthropic"), NEW q \in Reader,
         Counted("anthropic", q, Append(sent, e))
  PROVE  Report("anthropic", Append(sent, e), Len(sent) + 1) = IF e.type = "delta" THEN usage(q) ELSE 0
<1> DEFINE more == Append(sent, e)
<1>1. "anthropic" \in Wires
  BY DEF Wires
<1>2. Len(more) = Len(sent) + 1 /\ more[Len(sent) + 1] = e
  BY <1>1, ReportAppend
<1>3. q.input = Latest(more, "start", Len(sent) + 1) /\ q.output = Latest(more, "delta", Len(sent) + 1)
      /\ q.input \in Nat /\ q.output \in Nat
  BY <1>2 DEF Counted, Reader
<1> HIDE DEF more
<1>4. Report("anthropic", more, Len(sent) + 1) = IF e.type = "delta" THEN usage(q) ELSE 0
  BY <1>2, <1>3 DEF Report, usage
<1> QED BY <1>4 DEF more

\* Whatever the adapter makes of an event that was sent whole, and of a name that was
\* never filled in.
LEMMA Dispatched ==
  ASSUME ProviderInv, pc = "reading", NEW e, e = up.event, e # NoEvent, Dispatch,
         up' = [sent |-> Append(up.sent, e), event |-> NoEvent, rest |-> <<>>],
         sc.data = e, sc.name \in {NoEvent, e}
  PROVE  ProviderInv'
<1> DEFINE more == Append(up.sent, e)
<1>1. /\ e \in Event(wire) /\ up.sent \in Seq(Event(wire)) /\ wire \in Wires /\ reader \in Reader
      /\ Counted(wire, reader, up.sent)
  BY DEF ProviderInv, Typed, Upstream, TypeOK, Reader
<1>2. e.tokens \in 0..MaxTokens /\ e.type \in Types(wire) /\ (e.tokens > 0 => e.type \in Reporting)
      /\ e.tokens \in 0..(2 * MaxTokens) /\ 0 \in 0..(2 * MaxTokens)
  <2>1. e.tokens \in 0..MaxTokens /\ e.type \in Types(wire) /\ (e.tokens > 0 => e.type \in Reporting)
    BY <1>1, EventFacts
  <2> QED BY <2>1, ProviderAssumption
<1>3. Len(more) = Len(up.sent) + 1 /\ more[Len(up.sent) + 1] = e
  BY <1>1, ReportAppend
<1>4. wire # "anthropic" => e.tokens = Report(wire, more, Len(up.sent) + 1)
  BY <1>3 DEF Report
<1> HIDE DEF more
<1>5. CASE wire = "openai"
  <2>1. e.type \in {"chunk", "bad", "done"} /\ openaiRecv(e)
    BY <1>2, <1>5 DEF Types, Dispatch
  <2>2. CASE e.type = "done"
    <3>1. Ends("eof") /\ ~Shown(wire, e) /\ e.type = Marker(wire)
      BY <1>5, <2>1, <2>2 DEF openaiRecv, Shown, Marker
    <3> QED BY <3>1, LastEvent
  <2>3. CASE e.type # "done"
    <3>1. Chunk(reader, e, e.tokens) /\ Shown(wire, e)
      BY <1>5, <2>1, <2>3 DEF openaiRecv, Shown
    <3>2. Counted(wire, reader, more)
      BY <1>1, <1>5, CountedAppend DEF more
    <3> QED BY <1>1, <1>2, <1>4, <1>5, <3>1, <3>2, Chunked DEF more
  <2> QED BY <2>2, <2>3
<1>6. CASE wire = "gemini"
  <2>1. e.type \in {"chunk", "final", "error", "bad"} /\ translateEvent(e)
    BY <1>2, <1>6 DEF Types, Dispatch
  <2>2. CASE e.type = "bad"
    <3>1. Fails("upstream") /\ ~Shown(wire, e) /\ "upstream" \in Classes \ {"timeout", "canceled"}
      BY <1>6, <2>1, <2>2 DEF translateEvent, Shown, Classes
    <3> QED BY <3>1, LastEvent
  <2>3. CASE e.type = "error"
    <3>1. PICK envelope \in {"RESOURCE_EXHAUSTED", "INTERNAL"} : Fails(classify(500, envelope))
      BY <2>1, <2>3 DEF translateEvent
    <3>2. classify(500, envelope) \in Classes \ {"timeout", "canceled"} /\ ~Shown(wire, e)
      BY <2>3, ClassFacts DEF Shown
    <3> QED BY <3>1, <3>2, LastEvent
  <2>4. CASE e.type \in {"chunk", "final"}
    <3> DEFINE q == [reader EXCEPT !.sawEnd = @ \/ e.type = "final"]
    <3>1. Chunk(q, e, e.tokens) /\ Shown(wire, e)
      BY <2>1, <2>4 DEF translateEvent, Shown
    <3>2. /\ q \in Reader /\ q.done = reader.done /\ q.closed = reader.closed /\ q.closing = reader.closing
          /\ q.sawEnd => reader.sawEnd \/ e.type = "final"
      <4>1. CASE e.type = "final"
        BY <1>1, <4>1 DEF Reader
      <4>2. CASE e.type # "final"
        BY <1>1, <4>2 DEF Reader
      <4> QED BY <4>1, <4>2
    <3> HIDE DEF q
    <3>3. Counted(wire, q, more)
      BY <1>1, <1>6, <3>2, CountedAppend DEF more
    <3> QED BY <1>1, <1>2, <1>4, <1>6, <3>1, <3>2, <3>3, Chunked DEF more
  <2> QED BY <2>1, <2>2, <2>3, <2>4
<1>7. CASE wire = "anthropic"
  <2>1. e.type \in {"start", "text", "tool", "block", "ping", "delta", "bad", "stop"}
        /\ translate(sc.name, e)
    BY <1>2, <1>7 DEF Types, Dispatch
  <2> DEFINE started == IF e.tokens = 0 THEN reader ELSE [reader EXCEPT !.input = e.tokens]
             counted == IF e.tokens = 0 THEN reader ELSE [reader EXCEPT !.output = e.tokens]
  <2>2. /\ e.type = "bad" => Fails("upstream")
        /\ e.type = "ping" => Keepalive
        /\ e.type = "start" => Chunk(started, e, 0)
        /\ e.type = "text" => Chunk(reader, e, 0)
        /\ e.type = "delta" => Chunk(counted, e, usage(counted))
        /\ e.type = "stop" => Ends("eof")
        /\ e.type \in {"tool", "block"} => Continue(Fresh)
    <3>1. (IF sc.name # NoEvent THEN sc.name.type ELSE e.type) = e.type
          /\ (IF e = NoEvent THEN 0 ELSE e.tokens) = e.tokens
      OBVIOUS
    <3> QED BY <2>1, <3>1 DEF translate
  <2>3. CASE e.type = "bad"
    <3>1. ~Shown(wire, e) /\ "upstream" \in Classes \ {"timeout", "canceled"}
      BY <1>7, <2>3 DEF Shown, Classes
    <3> QED BY <2>2, <2>3, <3>1, LastEvent
  <2>4. CASE e.type = "stop"
    <3>1. ~Shown(wire, e) /\ e.type = Marker(wire)
      BY <1>7, <2>4 DEF Shown, Marker
    <3> QED BY <2>2, <2>4, <3>1, LastEvent
  <2>5. CASE e.type \in {"ping", "tool", "block"}
    <3>1. ~Shown(wire, e)
      BY <2>5 DEF Shown
    <3> QED BY <2>2, <2>5, <3>1, PassedOver
  <2>6. ASSUME NEW q \in Reader, q.done = reader.done, q.closed = reader.closed, q.closing = reader.closing,
               q.sawEnd = reader.sawEnd,
               q.input = IF e.type = "start" /\ e.tokens > 0 THEN e.tokens ELSE reader.input,
               q.output = IF e.type = "delta" /\ e.tokens > 0 THEN e.tokens ELSE reader.output,
               e.type \in {"start", "text", "delta"},
               Chunk(q, e, IF e.type = "delta" THEN usage(q) ELSE 0)
        PROVE  ProviderInv'
    <3>1. Counted(wire, q, more)
      BY <1>1, <2>6, CountedAppend DEF more
    <3> DEFINE t == IF e.type = "delta" THEN usage(q) ELSE 0
    <3>2. t = Report(wire, more, Len(up.sent) + 1)
      BY <1>1, <1>7, <2>6, <3>1, AnthropicReport DEF more
    <3>3. t \in 0..(2 * MaxTokens)
      <4>1. q.input \in 0..MaxTokens /\ q.output \in 0..MaxTokens /\ MaxTokens \in Nat
        BY <2>6, ProviderAssumption DEF Reader
      <4> QED BY <4>1 DEF usage
    <3>4. Shown(wire, e)
      BY <2>6 DEF Shown
    <3> HIDE DEF t
    <3> QED BY <2>6, <3>1, <3>2, <3>3, <3>4, Chunked DEF more, t
  <2>7. CASE e.type = "text"
    BY <1>1, <2>2, <2>6, <2>7
  <2>8. CASE e.type = "start"
    <3>1. /\ started \in Reader /\ started.done = reader.done /\ started.closed = reader.closed
          /\ started.closing = reader.closing /\ started.sawEnd = reader.sawEnd
          /\ started.input = IF e.tokens > 0 THEN e.tokens ELSE reader.input
          /\ started.output = reader.output
      BY <1>1, <1>2 DEF Reader
    <3> HIDE DEF started
    <3> QED BY <2>2, <2>6, <2>8, <3>1
  <2>9. CASE e.type = "delta"
    <3>1. /\ counted \in Reader /\ counted.done = reader.done /\ counted.closed = reader.closed
          /\ counted.closing = reader.closing /\ counted.sawEnd = reader.sawEnd
          /\ counted.output = IF e.tokens > 0 THEN e.tokens ELSE reader.output
          /\ counted.input = reader.input
      BY <1>1, <1>2, SMTT(30) DEF Reader
    <3> HIDE DEF counted
    <3> QED BY <2>2, <2>6, <2>9, <3>1
  <2> QED BY <2>1, <2>3, <2>4, <2>5, <2>7, <2>8, <2>9
<1> QED BY <1>1, <1>5, <1>6, <1>7 DEF Wires

\* One line of Next's loop.
LEMMA ReadsLine ==
  ASSUME ProviderInv, ReadLine
  PROVE  ProviderInv'
<1> DEFINE e == up.event
           rest == up.rest
           line == Head(rest)
           s == [sc EXCEPT !.left = @ - 1]
<1>1. pc = "reading" /\ rest # <<>> /\ sc.left # 0 /\ LineRead
  BY DEF ReadLine, TooLarge
<1>2. /\ wire \in Wires /\ e \in Event(wire) \cup {NoEvent} /\ rest \in Seq(Lines(wire))
      /\ sc \in Scanner(wire) /\ Framed(e, rest, sc)
  BY <1>1 DEF ProviderInv, Typed, Upstream, TypeOK, Placed
<1>3. /\ line.field = "blank" => IF Open(sc) THEN Continue(Fresh) ELSE Dispatch
      /\ line.field = "comment" => IF Open(sc) THEN Keepalive ELSE Continue(s)
      /\ line.field = "data" => Continue([s EXCEPT !.data = line.value])
      /\ line.field = "event" => Continue([s EXCEPT !.name = line.value])
      /\ line.field = "other" => Continue(s)
  BY DEF ReadLine, Open
<1>0. e = up.event /\ rest = up.rest /\ line = Head(rest)
  OBVIOUS
<1> HIDE DEF e, rest, line
<1>4. /\ s \in Scanner(wire) /\ s.data = sc.data /\ s.name = sc.name
      /\ Fresh \in Scanner(wire) /\ Fresh.data = NoEvent /\ Fresh.name = NoEvent
  <2>1. sc.left \in 0..MaxLines /\ sc.left - 1 \in 0..MaxLines
    BY <1>1, <1>2, ProviderAssumption DEF Scanner
  <2> QED BY <1>2, <2>1, Afresh DEF Scanner, Open
<1> HIDE DEF s
<1>5. /\ Len(rest) \in Nat \ {0} /\ Tail(rest) \in Seq(Lines(wire)) /\ Len(Tail(rest)) = Len(rest) - 1
      /\ line.field \in {"blank", "other", "comment", "data", "event"}
      /\ line.field = "data" => line.value = e /\ e # NoEvent
      /\ line.field = "event" => line.value \in Event(wire) \cup {NoEvent, Unfilled}
      /\ line.field \in {"data", "event", "other"} => Len(rest) > 1
      /\ line.field = "comment" => IF Open(sc) THEN Len(rest) = 1 /\ e = NoEvent ELSE Len(rest) > 1
      /\ line.field = "blank" =>
            IF Open(sc) THEN Len(rest) = 1 => e = NoEvent
            ELSE /\ Len(rest) = 1 /\ sc.data = e
                 /\ sc.name \in {NoEvent, IF e = NoEvent THEN Unfilled ELSE e}
                 /\ e = NoEvent => sc.name = Unfilled
  <2>1. \A l : l = Head(rest) =>
          /\ Len(rest) \in Nat \ {0} /\ Tail(rest) \in Seq(Lines(wire)) /\ Len(Tail(rest)) = Len(rest) - 1
          /\ l.field \in {"blank", "other", "comment", "data", "event"}
          /\ l.field = "data" => l.value = e /\ e # NoEvent
          /\ l.field = "event" => l.value \in Event(wire) \cup {NoEvent, Unfilled}
          /\ l.field \in {"data", "event", "other"} => Len(rest) > 1
    BY <1>1, <1>2, LineFacts
  <2>2. line.field = "comment" => IF Open(sc) THEN Len(rest) = 1 /\ e = NoEvent ELSE Len(rest) > 1
    BY <1>0, <1>1, <1>2, LineFacts, SMTT(30)
  <2>3. line.field = "blank" =>
            IF Open(sc) THEN Len(rest) = 1 => e = NoEvent
            ELSE /\ Len(rest) = 1 /\ sc.data = e
                 /\ sc.name \in {NoEvent, IF e = NoEvent THEN Unfilled ELSE e}
                 /\ e = NoEvent => sc.name = Unfilled
    <3>1. CASE Head(rest).field = "blank" /\ Open(sc)
      BY <1>0, <1>1, <1>2, <3>1, LineFacts
    <3>2. CASE Head(rest).field = "blank" /\ ~Open(sc)
      <4>1. Len(rest) = 1 /\ sc.data = e
        BY <1>1, <1>2, <3>2, BlankFacts
      <4>2. sc.name \in {NoEvent, IF e = NoEvent THEN Unfilled ELSE e}
        BY <1>1, <1>2, <3>2, BlankFacts
      <4>3. e = NoEvent => sc.name = Unfilled
        BY <3>2, <4>1, <4>2 DEF Open
      <4> QED BY <3>2, <4>1, <4>2, <4>3
    <3> QED BY <1>0, <3>1, <3>2
  <2> QED BY <1>0, <2>1, <2>2, <2>3
<1>6. CASE Len(rest) > 1
  <2>1. up' = [sent |-> up.sent, event |-> e, rest |-> Tail(rest)]
    <3>1. Len(rest) # 1
      BY <1>5, <1>6
    <3> QED BY <1>0, <1>1, <3>1 DEF LineRead
  <2>2. ASSUME NEW t \in Scanner(wire), Continue(t),
               t.data = IF line.field = "data" THEN line.value ELSE sc.data,
               t.name = IF line.field = "event" THEN line.value ELSE sc.name
        PROVE  ProviderInv'
    <3>1. Framed(e, Tail(rest), t)
      BY <1>0, <1>1, <1>2, <1>6, <2>2, TailFramed
    <3> QED BY <1>0, <1>1, <1>2, <1>5, <2>1, <2>2, <3>1, GoesOn
  <2>3. CASE line.field = "data"
    <3> DEFINE t == [s EXCEPT !.data = line.value]
    <3>1. t \in Scanner(wire) /\ t.data = line.value /\ t.name = sc.name
      BY <1>2, <1>4, <1>5, <2>3 DEF Scanner
    <3> HIDE DEF t
    <3> QED BY <1>3, <2>2, <2>3, <3>1 DEF t
  <2>4. CASE line.field = "event"
    <3> DEFINE t == [s EXCEPT !.name = line.value]
    <3>1. t \in Scanner(wire) /\ t.name = line.value /\ t.data = sc.data
      BY <1>2, <1>4, <1>5, <2>4 DEF Scanner
    <3> HIDE DEF t
    <3> QED BY <1>3, <2>2, <2>4, <3>1 DEF t
  <2>5. CASE line.field \in {"other", "comment"}
    <3>1. line.field = "comment" => ~Open(sc)
      <4>1. Len(rest) # 1
        BY <1>5, <1>6
      <4> QED BY <1>5, <4>1
    <3>2. Continue(s)
      BY <1>3, <2>5, <3>1
    <3> QED BY <1>4, <2>2, <2>5, <3>2
  <2>6. CASE line.field = "blank"
    <3>1. Open(sc)
      <4>1. Len(rest) # 1
        BY <1>5, <1>6
      <4> QED BY <1>5, <2>6, <4>1
    <3>2. Continue(Fresh)
      BY <1>3, <2>6, <3>1
    <3>3. sc.data = NoEvent /\ sc.name = NoEvent
      BY <3>1 DEF Open
    <3> QED BY <1>4, <2>2, <2>6, <3>2, <3>3
  <2> QED BY <1>5, <2>3, <2>4, <2>5, <2>6
<1>7. CASE Len(rest) = 1
  <2>1. up' = [sent |-> IF e # NoEvent THEN Append(up.sent, e) ELSE up.sent,
               event |-> NoEvent, rest |-> <<>>]
    <3>1. Tail(rest) = <<>>
      <4>1. Len(Tail(rest)) = 0
        BY <1>5, <1>7
      <4> QED BY <1>5, <4>1, EmptySeq
    <3> QED BY <1>0, <1>1, <1>7, <3>1 DEF LineRead
  <2>2. CASE line.field = "comment"
    BY <1>0, <1>1, <1>3, <1>5, <1>7, <2>1, <2>2, KeptAlive
  <2>3. ASSUME e = NoEvent, Continue(Fresh) PROVE ProviderInv'
    <3>1. Framed(NoEvent, <<>>, Fresh) /\ <<>> \in Seq(Lines(wire))
      BY <1>4 DEF Framed, Open
    <3>2. up' = [sent |-> up.sent, event |-> NoEvent, rest |-> <<>>]
      BY <2>1, <2>3
    <3> QED BY <1>1, <1>2, <1>4, <2>3, <3>1, <3>2, GoesOn
  <2>4. CASE line.field = "blank" /\ Open(sc)
    BY <1>3, <1>5, <1>7, <2>3, <2>4
  <2>5. CASE line.field = "blank" /\ ~Open(sc) /\ e = NoEvent
    <3>1. Dispatch /\ sc.data = NoEvent /\ sc.name = Unfilled
      BY <1>3, <1>5, <2>5
    <3>2. Continue(Fresh)
      <4>1. CASE wire = "openai"
        BY <3>1, <4>1 DEF Dispatch, openaiRecv
      <4>2. CASE wire = "gemini"
        BY <3>1, <4>2 DEF Dispatch, translateEvent
      <4>3. CASE wire = "anthropic"
        <5>1. Unfilled # NoEvent /\ Unfilled.type = "block"
          <6>1. Unfilled.id # NoEvent.id
            BY DEF Unfilled, NoEvent
          <6> QED BY <6>1 DEF Unfilled
        <5>2. translate(Unfilled, NoEvent)
          BY <3>1, <4>3 DEF Dispatch
        <5> QED BY <5>1, <5>2 DEF translate
      <4> QED BY <1>2, <4>1, <4>2, <4>3 DEF Wires
    <3> QED BY <2>3, <2>5, <3>2
  <2>6. CASE line.field = "blank" /\ ~Open(sc) /\ e # NoEvent
    <3>1. Dispatch /\ sc.data = e /\ sc.name \in {NoEvent, e}
      BY <1>3, <1>5, <2>6
    <3>2. up' = [sent |-> Append(up.sent, e), event |-> NoEvent, rest |-> <<>>]
      BY <2>1, <2>6
    <3> QED BY <1>0, <1>1, <2>6, <3>1, <3>2, Dispatched
  <2> QED BY <1>5, <1>7, <2>2, <2>4, <2>5, <2>6
<1>8. Len(rest) = 1 \/ Len(rest) > 1
  BY <1>5
<1> QED BY <1>6, <1>7, <1>8

-----------------------------------------------------------------------------
(* Theorems *)

\* ProviderInv holds of every call, and of every stream.
THEOREM ProviderInvariant == Spec => []ProviderInv
<1>1. Init => ProviderInv
  <2> SUFFICES ASSUME Init PROVE ProviderInv
    OBVIOUS
  <2>1. /\ wire \in Wires /\ pc = "returned" /\ ctx = "live" /\ body = "none" /\ sc = Fresh
        /\ reader = newStreamReader /\ result = "none" /\ got = <<>> /\ up = Silent /\ fault = "none"
    BY DEF Init
  <2>2. ~reader.done /\ ~reader.closed /\ ~reader.closing
    BY <2>1 DEF newStreamReader
  <2>3. TypeOK
    <3>1. sc.left \in 0..MaxLines
      BY <2>1, ProviderAssumption DEF Fresh
    <3>2. got \in Seq([id: 1..MaxEvents, tokens: 0..(2 * MaxTokens)])
      BY <2>1
    <3> QED BY <2>1, <3>1, <3>2, Afresh DEF TypeOK
  <2>4. Typed
    <3>1. Len(up.sent) = 0
      BY <2>1, Afresh
    <3> QED BY <2>1, <2>3, <3>1, Afresh, ProviderAssumption DEF Typed, Upstream
  <2>5. Placed
    BY <2>1, <2>2 DEF Placed
  <2>6. Counted(wire, reader, up.sent) /\ InOrder(wire, up.sent, got)
    BY <2>1, Afresh
  <2> QED BY <2>1, <2>4, <2>5, <2>6 DEF ProviderInv, EofMeansWhole, BlameIsEarned, countsAgainstHealth, Classes
<1>2. ProviderInv /\ [Next]_vars => ProviderInv'
  <2> SUFFICES ASSUME ProviderInv, [Next]_vars PROVE ProviderInv'
    OBVIOUS
  <2>1. CASE UNCHANGED vars
    <3>1. UNCHANGED <<wire, pc, ctx, body, sc, reader, result, got, up, fault>>
      BY <2>1 DEF vars
    <3>2. Typed' /\ Placed'
      BY <3>1 DEF ProviderInv, Typed, Upstream, TypeOK, Placed
    <3> QED BY <3>1, <3>2 DEF ProviderInv, EofMeansWhole, BlameIsEarned, countsAgainstHealth, Classes
  <2>2. CASE Next
    BY <2>2, CallStarts, CallSteps, CallerSteps, SendsFramed, ReadsLine, ReadStops DEF Next, Read
  <2> QED BY <2>1, <2>2
<1> QED BY <1>1, <1>2, PTL DEF Spec

\* Recv says io.EOF only when the upstream has said, in an event sent whole, that its
\* answer is finished: no end of the body, close or cancellation passes for one.
THEOREM EofIsWhole == Spec => []EofMeansWhole
<1>1. ProviderInv => EofMeansWhole
  BY DEF ProviderInv
<1> QED BY <1>1, ProviderInvariant, PTL

\* The caller receives each event once, in order, with the running totals.
THEOREM RelayIsInOrder == Spec => []RelayedInOrder
<1>1. ProviderInv => RelayedInOrder
  BY DEF ProviderInv, InOrder, RelayedInOrder
<1> QED BY <1>1, ProviderInvariant, PTL

\* A class that counts against a provider's health is given only for what the
\* upstream or the gateway did, or for a deadline that passed, whatever the adapter,
\* the answer and the moment at which the caller closes or cancels.
THEOREM BlameEarned == Spec => []BlameIsEarned
<1>1. ProviderInv => BlameIsEarned
  BY DEF ProviderInv
<1> QED BY <1>1, ProviderInvariant, PTL

\* A call that has ended holds no connection.
THEOREM BodyIsReleased == Spec => []BodyReleased
<1>1. ProviderInv => BodyReleased
  <2> SUFFICES ASSUME ProviderInv, result # "none" PROVE body # "open" \/ reader.closing
    BY DEF ProviderInv, Typed, BodyReleased
  <2>1. pc = "returned" \/ (pc = "ready" /\ reader.done)
    BY DEF ProviderInv, Typed, TypeOK, Placed
  <2> QED BY <2>1 DEF ProviderInv, Placed
<1> QED BY <1>1, ProviderInvariant, PTL
=============================================================================

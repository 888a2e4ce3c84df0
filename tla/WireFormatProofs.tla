-------------------------- MODULE WireFormatProofs --------------------------
(***************************************************************************)
(* Proofs about WireFormat: a command arrives as the client meant it or is *)
(* refused, and a response arrives as the server built it, whatever the    *)
(* sizes of the buffers, the lines that are typed and the texts that are   *)
(* answered, as long as a line has room for the longest of its fields.     *)
(***************************************************************************)
EXTENDS WireFormat, SequenceTheorems, WellFoundedInduction, TLAPS

-----------------------------------------------------------------------------
(* The inductive invariant.                                                *)

\* What the client can have built a line from: a typed line that the dispatch of
\* client_run() lets through, or the credentials.
Sendable(i) ==
    \/ \E in \in Inputs : Sends(in) /\ i = Meant(in)
    \/ \E n, p \in Names :
          /\ Len(n) \in 1..NameCap /\ Len(p) \in 1..PassCap
          /\ i = [type |-> "AUTH", fields |-> <<n, p>>]

\* What the server can have built a line from.
Sayable(i) ==
    /\ i \in Responses
    /\ i.type \in {"BROADCAST", "USER_JOIN", "USER_LEFT", "HISTORY"} => Fits(i)

\* A line on its way is what the builder made of the item, and what the other end
\* got is what its parser made of that line.
WireInv ==
    /\ phase \in {"idle", "built", "parsed"}
    /\ side \in {"client", "server"}
    /\ phase # "idle" =>
          /\ line = Build(item)
          /\ IF side = "client" THEN Sendable(item) ELSE Sayable(item)
    /\ phase = "parsed" =>
          got = IF side = "client" THEN protocol_parse_client_line(line)
                                   ELSE protocol_parse_server_line(line)

-----------------------------------------------------------------------------
(* Cutting a text at its spaces.                                           *)

\* A set of naturals that is not empty has a least member.
LEMMA LeastNat ==
    ASSUME NEW S \in SUBSET Nat, S # {}
    PROVE  \E i \in S : \A j \in S : i <= j
<1> DEFINE R == OpToRel(<, Nat)
<1>1. IsWellFoundedOn(R, Nat)
  BY NatLessThanWellFounded
<1>2. R = {ss \in Nat \X Nat : ss[1] < ss[2]}
  BY DEF OpToRel
<1> HIDE DEF R
<1>3. PICK x \in S : \A y \in S : ~(<<y, x>> \in R)
  BY <1>1, WFMin
<1>4. ASSUME NEW y \in S, y < x
      PROVE  FALSE
  <2>1. <<y, x>> \in Nat \X Nat /\ <<y, x>>[1] < <<y, x>>[2]
    BY <1>4
  <2> QED BY <1>2, <1>3, <2>1
<1> QED BY <1>4

\* i is the place of the first space of t, or the one behind its end.
FirstSpace(t, i) ==
    /\ i \in 1..(Len(t) + 1)
    /\ i = Len(t) + 1 \/ t[i] = Space
    /\ \A j \in 1..(i - 1) : t[j] # Space

\* strchr() finds that place.
LEMMA strchrFinds ==
    ASSUME NEW t \in Seq(Char)
    PROVE  FirstSpace(t, strchr(t))
<1> DEFINE S == {i \in 1..(Len(t) + 1) : i = Len(t) + 1 \/ t[i] = Space}
<1>1. Len(t) \in Nat
  BY LenProperties
<1>2. S \in SUBSET Nat /\ Len(t) + 1 \in S
  BY <1>1
<1>3. PICK i \in S : \A j \in S : i <= j
  BY <1>2, LeastNat
<1>4. ASSUME NEW j \in 1..(i - 1)
      PROVE  t[j] # Space
  <2>1. j \in 1..(Len(t) + 1) /\ ~(i <= j)
    BY <1>1, <1>2
  <2> QED BY <1>3, <2>1
<1>5. FirstSpace(t, i)
  BY <1>4 DEF FirstSpace
<1> QED BY <1>5 DEF strchr, FirstSpace

\* There is only one such place.
LEMMA strchrIs ==
    ASSUME NEW t \in Seq(Char), NEW i \in Nat, FirstSpace(t, i)
    PROVE  strchr(t) = i
<1>1. Len(t) \in Nat
  BY LenProperties
<1>2. FirstSpace(t, strchr(t))
  BY strchrFinds
<1>3. ASSUME NEW m, NEW n, FirstSpace(t, m), FirstSpace(t, n), m < n
      PROVE  FALSE
  <2>1. m \in 1..(n - 1) /\ m # Len(t) + 1
    BY <1>1, <1>3 DEF FirstSpace
  <2> QED BY <1>3, <2>1 DEF FirstSpace
<1>4. strchr(t) \in Nat
  BY <1>1, <1>2 DEF FirstSpace
<1>5. ~(strchr(t) < i) /\ ~(i < strchr(t))
  BY <1>2, <1>3
<1> QED BY <1>4, <1>5

\* The first word of a text and what remains are texts, and the word has no space.
LEMMA WordType ==
    ASSUME NEW t \in Seq(Char)
    PROVE  /\ Word(t) \in Seq(Char) /\ NoSpace(Word(t))
           /\ Rest(t) \in Seq(Char)
<1> DEFINE i == strchr(t)
<1>1. Len(t) \in Nat
  BY LenProperties
<1>2. i \in 1..(Len(t) + 1) /\ \A j \in 1..(i - 1) : t[j] # Space
  BY strchrFinds DEF FirstSpace
<1>3. Word(t) = SubSeq(t, 1, i - 1) /\ Rest(t) = SubSeq(t, i + 1, Len(t))
  BY DEF Word, Rest
<1> HIDE DEF i
<1>4. /\ SubSeq(t, 1, i - 1) \in Seq(Char)
      /\ Len(SubSeq(t, 1, i - 1)) = i - 1
      /\ \A j \in 1..(i - 1) : SubSeq(t, 1, i - 1)[j] = t[j]
  BY <1>1, <1>2
<1>5. SubSeq(t, i + 1, Len(t)) \in Seq(Char)
  BY <1>1, <1>2
<1>6. NoSpace(SubSeq(t, 1, i - 1))
  BY <1>2, <1>4 DEF NoSpace
<1> QED BY <1>3, <1>4, <1>5, <1>6

\* Nothing remains behind the only word of a text.
LEMMA OneWord ==
    ASSUME NEW t \in Seq(Char), NoSpace(t)
    PROVE  Word(t) = t /\ Rest(t) = <<>>
<1>1. Len(t) \in Nat
  BY LenProperties
<1>2. FirstSpace(t, Len(t) + 1)
  BY <1>1 DEF FirstSpace, NoSpace
<1>3. strchr(t) = Len(t) + 1
  BY <1>1, <1>2, strchrIs
<1>4. SubSeq(t, 1, Len(t)) = t
  BY <1>1
<1>5. SubSeq(t, Len(t) + 2, Len(t)) = <<>>
  BY <1>1
<1> QED BY <1>1, <1>3, <1>4, <1>5 DEF Word, Rest

\* What is where in two texts joined with a space.
LEMMA JoinPlaces ==
    ASSUME NEW a \in Seq(Char), NEW b \in Seq(Char)
    PROVE  /\ Join(a, b) \in Seq(Char) /\ Len(Join(a, b)) = Len(a) + 1 + Len(b)
           /\ \A j \in 1..Len(a) : Join(a, b)[j] = a[j]
           /\ Join(a, b)[Len(a) + 1] = Space
           /\ \A j \in 1..Len(b) : Join(a, b)[Len(a) + 1 + j] = b[j]
<1>1. Len(a) \in Nat /\ Len(b) \in Nat /\ Space \in Char
  BY LenProperties, WireAssumption
<1> QED BY <1>1 DEF Join

\* A text with a space in it is its first word, a space and what remains.
LEMMA SplitJoins ==
    ASSUME NEW t \in Seq(Char), ~NoSpace(t)
    PROVE  Join(Word(t), Rest(t)) = t
<1> DEFINE i == strchr(t)
           w == SubSeq(t, 1, i - 1)
           r == SubSeq(t, i + 1, Len(t))
           u == Join(w, r)
<1>1. Len(t) \in Nat /\ Space \in Char
  BY LenProperties, WireAssumption
<1>2. FirstSpace(t, i)
  BY strchrFinds
<1> HIDE DEF i
<1>3. i \in 1..Len(t) /\ t[i] = Space
  BY <1>1, <1>2 DEF FirstSpace, NoSpace
<1>4. /\ w \in Seq(Char) /\ Len(w) = i - 1
      /\ \A j \in 1..(i - 1) : w[j] = t[j]
  BY <1>1, <1>3
<1>5. /\ r \in Seq(Char) /\ Len(r) = Len(t) - i
      /\ \A j \in 1..(Len(t) - i) : r[j] = t[i + j]
  BY <1>1, <1>3
<1> HIDE DEF w, r
<1>6. /\ u \in Seq(Char) /\ Len(u) = Len(t)
      /\ \A j \in 1..(i - 1) : u[j] = w[j]
      /\ u[i] = Space
      /\ \A j \in 1..(Len(t) - i) : u[i + j] = r[j]
  <2>1. /\ u \in Seq(Char) /\ Len(u) = Len(w) + 1 + Len(r)
        /\ \A j \in 1..Len(w) : u[j] = w[j]
        /\ u[Len(w) + 1] = Space
        /\ \A j \in 1..Len(r) : u[Len(w) + 1 + j] = r[j]
    BY <1>4, <1>5, JoinPlaces
  <2>2. Len(w) + 1 = i /\ Len(w) = i - 1 /\ Len(r) = Len(t) - i
        /\ Len(t) = Len(w) + 1 + Len(r)
    BY <1>1, <1>3, <1>4, <1>5
  <2> HIDE DEF u
  <2> QED BY <2>1, <2>2
<1> HIDE DEF u
<1>7. ASSUME NEW j \in 1..Len(t)
      PROVE  u[j] = t[j]
  <2>1. CASE j < i
    BY <1>1, <1>3, <1>4, <1>6, <2>1
  <2>2. CASE j = i
    BY <1>3, <1>6, <2>2
  <2>3. CASE j > i
    <3>1. PICK k \in 1..(Len(t) - i) : j = i + k
      <4>1. j - i \in 1..(Len(t) - i) /\ j = i + (j - i)
        BY <1>1, <1>3, <2>3
      <4> QED BY <4>1
    <3> QED BY <1>5, <1>6, <3>1
  <2> QED BY <1>3, <2>1, <2>2, <2>3
<1>8. u = t
  BY <1>6, <1>7, SeqEqual
<1> QED BY <1>8 DEF Word, Rest, i, w, r, u

\* Joining a word and a text with a space is undone by the cut at the first space.
LEMMA JoinSplits ==
    ASSUME NEW a \in Seq(Char), NEW b \in Seq(Char)
    PROVE  /\ Join(a, b) \in Seq(Char)
           /\ Len(Join(a, b)) = Len(a) + 1 + Len(b)
           /\ ~NoSpace(Join(a, b))
           /\ NoSpace(a) => Word(Join(a, b)) = a /\ Rest(Join(a, b)) = b
<1> DEFINE t == Join(a, b)
           la == Len(a)
           lb == Len(b)
<1>1. la \in Nat /\ lb \in Nat /\ Space \in Char
  BY LenProperties, WireAssumption
<1>2. /\ t \in Seq(Char) /\ Len(t) = la + 1 + lb
      /\ \A j \in 1..la : t[j] = a[j]
      /\ t[la + 1] = Space
      /\ \A j \in 1..lb : t[la + 1 + j] = b[j]
  BY JoinPlaces
<1> HIDE DEF t
<1>3. ~NoSpace(t)
  BY <1>1, <1>2 DEF NoSpace
<1>4. ASSUME NoSpace(a)
      PROVE  Word(t) = a /\ Rest(t) = b
  <2>1. FirstSpace(t, la + 1)
    BY <1>1, <1>2, <1>4 DEF FirstSpace, NoSpace
  <2>2. strchr(t) = la + 1
    BY <1>1, <1>2, <2>1, strchrIs
  <2>3. /\ SubSeq(t, 1, la) \in Seq(Char) /\ Len(SubSeq(t, 1, la)) = la
        /\ \A j \in 1..la : SubSeq(t, 1, la)[j] = a[j]
    BY <1>1, <1>2
  <2>4. SubSeq(t, 1, la) = a
    BY <2>3, SeqEqual
  <2> DEFINE u == SubSeq(t, la + 2, Len(t))
  <2>5. /\ u \in Seq(Char) /\ Len(u) = lb
        /\ \A j \in 1..lb : u[j] = b[j]
    BY <1>1, <1>2
  <2>6. u = b
    BY <2>5, SeqEqual
  <2>7. Word(t) = SubSeq(t, 1, la) /\ Rest(t) = u
    BY <1>1, <2>2 DEF Word, Rest
  <2> QED BY <2>4, <2>6, <2>7
<1> QED BY <1>2, <1>3, <1>4 DEF t

\* Cutting to n characters leaves a text that is short enough, and n of another.
LEMMA CutLength ==
    ASSUME NEW t \in Seq(Char), NEW n \in Nat
    PROVE  /\ Cut(t, n) \in Seq(Char)
           /\ Len(t) <= n => Cut(t, n) = t
           /\ Len(t) > n => Len(Cut(t, n)) = n
<1>1. Len(t) \in Nat
  BY LenProperties
<1>2. CASE Len(t) > n
  <2>1. SubSeq(t, 1, n) \in Seq(Char) /\ Len(SubSeq(t, 1, n)) = n
    BY <1>1, <1>2
  <2> QED BY <1>1, <1>2, <2>1 DEF Cut
<1>3. CASE ~(Len(t) > n)
  BY <1>1, <1>3 DEF Cut
<1> QED BY <1>2, <1>3

-----------------------------------------------------------------------------
(* What the parsers make of a line.                                        *)

\* A line whose fields are there and within their limits is taken as it is.
LEMMA ParsedKept ==
    ASSUME NEW l, NEW fs \in Seq(Seq(Char)), NEW caps \in Seq(Nat),
           Len(caps) = Len(fs),
           \A k \in 1..Len(fs) : /\ Fields(l.rest, Len(fs))[k] = fs[k]
                                 /\ Len(fs[k]) \in 1..caps[k]
    PROVE  Parsed(l, caps) = [type |-> l.key, fields |-> fs]
<1> DEFINE n == Len(fs)
           gs == [k \in 1..n |-> Cut(Fields(l.rest, n)[k], caps[k])]
<1>1. n \in Nat
  BY LenProperties
<1>2. Strict(l.rest, caps)
  BY DEF Strict
<1>3. \A k \in 1..n : gs[k] = fs[k]
  <2> SUFFICES ASSUME NEW k \in 1..n
               PROVE  Cut(fs[k], caps[k]) = fs[k]
    OBVIOUS
  <2>1. fs[k] \in Seq(Char) /\ caps[k] \in Nat
    BY <1>1, ElementOfSeq
  <2>2. Len(fs[k]) <= caps[k]
    BY <2>1, LenProperties
  <2> QED BY <2>1, <2>2, CutLength
<1>4. fs = [k \in 1..n |-> fs[k]]
  BY LenProperties
<1>5. gs = fs
  BY <1>3, <1>4
<1>6. Parsed(l, caps) = [type |-> l.key, fields |-> gs]
  BY <1>2 DEF Parsed
<1> QED BY <1>5, <1>6

\* A field that is missing or too long has the line refused.
LEMMA ParsedRefused ==
    ASSUME NEW l, NEW caps, NEW k \in 1..Len(caps),
           Len(Fields(l.rest, Len(caps))[k]) \notin 1..caps[k]
    PROVE  Parsed(l, caps) = Refused
BY DEF Parsed, Strict

\* The fields of joined fields, when all but the last are single words.
LEMMA TwoFields ==
    ASSUME NEW a \in Seq(Char), NEW b \in Seq(Char), NoSpace(a)
    PROVE  /\ Words(<<a, b>>) = Join(a, b)
           /\ Fields(Join(a, b), 2) = <<a, b>>
BY JoinSplits DEF Words, Fields

LEMMA ThreeFields ==
    ASSUME NEW a \in Seq(Char), NEW b \in Seq(Char), NEW c \in Seq(Char),
           NoSpace(a), NoSpace(b)
    PROVE  /\ Words(<<a, b, c>>) = Join(a, Join(b, c))
           /\ Fields(Join(a, Join(b, c)), 3) = <<a, b, c>>
<1>1. Join(b, c) \in Seq(Char) /\ Word(Join(b, c)) = b /\ Rest(Join(b, c)) = c
  BY JoinSplits
<1>2. Word(Join(a, Join(b, c))) = a /\ Rest(Join(a, Join(b, c))) = Join(b, c)
  BY <1>1, JoinSplits
<1> QED BY <1>1, <1>2 DEF Words, Fields

LEMMA FourFields ==
    ASSUME NEW a \in Seq(Char), NEW b \in Seq(Char), NEW c \in Seq(Char), NEW d \in Seq(Char),
           NoSpace(a), NoSpace(b), NoSpace(c)
    PROVE  /\ Words(<<a, b, c, d>>) = Join(a, Join(b, Join(c, d)))
           /\ Fields(Join(a, Join(b, Join(c, d))), 4) = <<a, b, c, d>>
<1> DEFINE cd == Join(c, d)
           bcd == Join(b, cd)
           t == Join(a, bcd)
<1>1. cd \in Seq(Char) /\ Word(cd) = c /\ Rest(cd) = d
  BY JoinSplits
<1>2. bcd \in Seq(Char) /\ Word(bcd) = b /\ Rest(bcd) = cd
  BY <1>1, JoinSplits
<1>3. Word(t) = a /\ Rest(t) = bcd
  BY <1>2, JoinSplits
<1>4. Words(<<a, b, c, d>>) = t
  BY DEF Words
<1> HIDE DEF cd, bcd, t
<1>5. Fields(t, 4) = <<a, b, c, d>>
  BY <1>1, <1>2, <1>3 DEF Fields
<1> QED BY <1>4, <1>5 DEF t, bcd, cd

\* A single field is all that follows the keyword.
LEMMA OneField ==
    ASSUME NEW t \in Seq(Char)
    PROVE  Words(<<t>>) = t /\ Fields(t, 1) = <<t>>
BY DEF Words, Fields

-----------------------------------------------------------------------------
(* A command is kept, or refused.                                          *)

\* The sizes of the buffers.
LEMMA Caps ==
    /\ NameCap \in Nat /\ PassCap \in Nat /\ RoomCap \in Nat
    /\ TimeCap \in Nat /\ MsgCap \in Nat /\ LineCap \in Nat
    /\ NameCap + TimeCap + RoomCap + MsgCap + 6 <= LineCap
    /\ PassCap <= MsgCap
BY WireAssumption

\* A name and a text that are within the limits are kept: @user message, or the
\* credentials.
LEMMA NamedKept ==
    ASSUME NEW key \in {"AUTH", "PM"}, NEW a \in Seq(Char), NEW b \in Seq(Char),
           NoSpace(a), Len(a) \in 1..NameCap, Len(b) \in 1..MsgCap
    PROVE  LET i == [type |-> key, fields |-> <<a, b>>]
           IN  protocol_parse_client_line(Build(i)) = i
<1> DEFINE i == [type |-> key, fields |-> <<a, b>>]
           l == Build(i)
           t == Join(a, b)
           caps == <<NameCap, MsgCap>>
           fs == <<a, b>>
<1>1. t \in Seq(Char) /\ Len(t) = Len(a) + 1 + Len(b)
  BY JoinSplits
<1>2. LineCap - 2 \in Nat /\ Len(t) <= LineCap - 2
  BY <1>1, Caps
<1>3. Cut(t, LineCap - 2) = t
  BY <1>1, <1>2, CutLength
<1>4. l.key = key /\ l.rest = t
  BY <1>3, TwoFields DEF Build
<1>5. Fields(l.rest, 2) = fs
  BY <1>4, TwoFields
<1>6. protocol_parse_client_line(l) = Parsed(l, caps)
  BY <1>4 DEF protocol_parse_client_line, ClientCaps
<1>7. fs \in Seq(Seq(Char)) /\ caps \in Seq(Nat) /\ Len(fs) = 2 /\ Len(caps) = 2
  BY Caps
<1>8. \A k \in 1..2 : fs[k] = IF k = 1 THEN a ELSE b
  OBVIOUS
<1>9. \A k \in 1..2 : Len(fs[k]) \in 1..caps[k]
  OBVIOUS
<1> HIDE DEF l, fs, caps
<1>10. Parsed(l, caps) = [type |-> l.key, fields |-> fs]
  BY <1>5, <1>7, <1>9, ParsedKept
<1> QED BY <1>4, <1>6, <1>10 DEF l, fs

\* A single argument arrives whole, or the command is refused.
LEMMA SingleKept ==
    ASSUME NEW key \in {"JOIN_ROOM", "KICK", "MSG"}, NEW t \in Seq(Char)
    PROVE  LET i == [type |-> key, fields |-> <<t>>]
               g == protocol_parse_client_line(Build(i))
           IN  g = IF Acceptable(i) THEN i ELSE Refused
<1> DEFINE i == [type |-> key, fields |-> <<t>>]
           l == Build(i)
           caps == ClientCaps(key)
           cap == caps[1]
           fs == <<t>>
<1>1. caps \in Seq(Nat) /\ Len(caps) = 1 /\ cap \in Nat /\ cap < LineCap - 2
  BY Caps DEF ClientCaps
<1>2. LineCap - 2 \in Nat /\ Len(t) \in Nat
  BY Caps, LenProperties
<1>3. l.key = key /\ l.rest = Cut(t, LineCap - 2)
  BY OneField DEF Build
<1>4. l.rest \in Seq(Char) /\ Fields(l.rest, 1) = <<l.rest>>
  BY <1>2, <1>3, CutLength, OneField
<1>5. protocol_parse_client_line(l) = Parsed(l, caps)
  BY <1>3 DEF protocol_parse_client_line
<1>6. Acceptable(i) <=> Len(t) \in 1..cap
  <2>1. i.fields # <<>> /\ i.fields[1] = t /\ i.type = key
    OBVIOUS
  <2>2. ClientCaps(i.type) = caps /\ \A k \in 1..Len(caps) : k = 1
    BY <1>1
  <2> HIDE DEF i, caps
  <2>3. Acceptable(i) <=> /\ \A k \in 1..Len(caps) : Len(i.fields[k]) \in 1..caps[k]
                          /\ Len(caps) = 2 => NoSpace(i.fields[1])
    BY <2>1, <2>2 DEF Acceptable
  <2>4. 1 \in 1..Len(caps) /\ Len(caps) # 2
    BY <1>1
  <2> QED BY <2>1, <2>2, <2>3, <2>4
<1>whole. Len(t) <= LineCap - 2 => Cut(t, LineCap - 2) = t
  BY <1>2, CutLength
<1>cut. Len(t) > LineCap - 2 => Len(Cut(t, LineCap - 2)) = LineCap - 2
  BY <1>2, CutLength
<1>7. CASE Len(t) \in 1..cap
  <2>1. l.rest = t
    <3> HIDE DEF cap, l
    <3> QED BY <1>1, <1>2, <1>3, <1>7, <1>whole
  <2>2. fs \in Seq(Seq(Char)) /\ Len(fs) = 1 /\ fs[1] = t
    OBVIOUS
  <2>3. \A k \in 1..1 : k = 1
    OBVIOUS
  <2> HIDE DEF l, caps, fs
  <2>4. Parsed(l, caps) = [type |-> l.key, fields |-> fs]
    BY <1>1, <1>4, <1>7, <2>1, <2>2, <2>3, ParsedKept DEF fs
  <2> QED BY <1>3, <1>5, <1>6, <1>7, <2>4 DEF l, fs
<1>8. CASE Len(t) \notin 1..cap
  <2>1. Len(l.rest) \notin 1..cap
    <3> HIDE DEF cap, l
    <3> QED BY <1>1, <1>2, <1>3, <1>8, <1>whole, <1>cut
  <2>2. Fields(l.rest, Len(caps))[1] = l.rest /\ 1 \in 1..Len(caps)
    BY <1>1, <1>4
  <2> HIDE DEF l, caps
  <2>3. Parsed(l, caps) = Refused
    BY <2>1, <2>2, ParsedRefused
  <2> QED BY <1>5, <1>6, <1>8, <2>3 DEF l
<1> QED BY <1>7, <1>8

\* LIST, HISTORY and QUIT have no arguments.
LEMMA BareKept ==
    ASSUME NEW key \in {"LIST", "HISTORY", "QUIT"}
    PROVE  LET i == [type |-> key, fields |-> <<>>]
           IN  protocol_parse_client_line(Build(i)) = i
BY DEF protocol_parse_client_line, Build

\* What parse_two_tokens() lets through, whatever it was given.
LEMMA TwoTokens ==
    ASSUME NEW key, NEW t \in Seq(Char),
           Parsed([key |-> key, rest |-> t], <<NameCap, MsgCap>>) # Refused
    PROVE  \E a, b \in Seq(Char) :
              /\ NoSpace(a) /\ Len(a) \in 1..NameCap /\ Len(b) \in 1..MsgCap
              /\ Parsed([key |-> key, rest |-> t], <<NameCap, MsgCap>>)
                    = [type |-> key, fields |-> <<a, b>>]
<1> DEFINE l == [key |-> key, rest |-> t]
           caps == <<NameCap, MsgCap>>
           a == Word(t)
           b == Rest(t)
           fs == <<a, b>>
<1>1. a \in Seq(Char) /\ b \in Seq(Char) /\ NoSpace(a)
  BY WordType
<1>2. l.rest = t /\ l.key = key /\ Parsed(l, caps) # Refused
  OBVIOUS
<1>3. Fields(l.rest, 2) = fs
  BY DEF Fields
<1>4. caps \in Seq(Nat) /\ Len(caps) = 2
  BY Caps
<1>5. \A k \in 1..2 : Len(fs[k]) \in 1..caps[k]
  <2>1. Strict(l.rest, caps)
    BY <1>2 DEF Parsed
  <2> HIDE DEF fs, caps, l
  <2> QED BY <1>3, <1>4, <2>1 DEF Strict
<1>6. Len(a) \in 1..NameCap /\ Len(b) \in 1..MsgCap
  <2>1. Len(fs[1]) \in 1..caps[1] /\ Len(fs[2]) \in 1..caps[2]
    BY <1>5
  <2> QED BY <2>1
<1>7. fs \in Seq(Seq(Char)) /\ Len(fs) = 2
  BY <1>1
<1>8. Parsed(l, caps) = [type |-> key, fields |-> fs]
  <2> HIDE DEF fs, caps, l, a, b
  <2> QED BY <1>2, <1>3, <1>4, <1>5, <1>7, ParsedKept
<1> HIDE DEF a, b
<1> QED BY <1>1, <1>2, <1>6, <1>8

\* A name of one word and a text that are within the limits.
LEMMA NamedAcceptable ==
    ASSUME NEW key \in {"AUTH", "PM"}, NEW a \in Seq(Char), NEW b \in Seq(Char),
           NoSpace(a), Len(a) \in 1..NameCap, Len(b) \in 1..MsgCap
    PROVE  Acceptable([type |-> key, fields |-> <<a, b>>])
<1>1. ClientCaps(key) = <<NameCap, MsgCap>>
  BY DEF ClientCaps
<1>2. <<a, b>> # <<>> /\ Len(<<NameCap, MsgCap>>) = 2
  OBVIOUS
<1>3. \A k \in 1..2 : Len(<<a, b>>[k]) \in 1..(<<NameCap, MsgCap>>[k])
  OBVIOUS
<1> QED BY <1>1, <1>2, <1>3 DEF Acceptable

\* What parse_at_pm() lets through.
LEMMA AtPm ==
    ASSUME NEW t \in Seq(Char), parse_at_pm(t) # Refused
    PROVE  \E a, b \in Seq(Char) :
              /\ NoSpace(a) /\ Len(a) \in 1..NameCap /\ Len(b) \in 1..MsgCap
              /\ parse_at_pm(t) = [type |-> "PM", fields |-> <<a, b>>]
BY TwoTokens DEF parse_at_pm

\* A login that the server accepts is within the limits, whatever was sent.
LEMMA LoginAccepted ==
    ASSUME NEW n \in Seq(Char), NEW p \in Seq(Char)
    PROVE  LET g == protocol_parse_client_line(Build([type |-> "AUTH", fields |-> <<n, p>>]))
           IN  g # Refused => Acceptable(g)
<1> DEFINE t == Cut(Join(n, p), LineCap - 2)
           l == [key |-> "AUTH", rest |-> t]
           g == protocol_parse_client_line(l)
<1>1. Build([type |-> "AUTH", fields |-> <<n, p>>]) = l
  BY DEF Build, Words
<1>2. t \in Seq(Char)
  <2>1. Join(n, p) \in Seq(Char) /\ LineCap - 2 \in Nat
    BY JoinSplits, Caps
  <2> QED BY <2>1, CutLength
<1> HIDE DEF t
<1>3. g = Parsed(l, <<NameCap, MsgCap>>)
  BY DEF protocol_parse_client_line, ClientCaps
<1> HIDE DEF g
<1>4. ASSUME g # Refused
      PROVE  Acceptable(g)
  <2>1. PICK a, b \in Seq(Char) :
           /\ NoSpace(a) /\ Len(a) \in 1..NameCap /\ Len(b) \in 1..MsgCap
           /\ g = [type |-> "AUTH", fields |-> <<a, b>>]
    BY <1>2, <1>3, <1>4, TwoTokens
  <2> QED BY <2>1, NamedAcceptable
<1> QED BY <1>1, <1>4 DEF g

-----------------------------------------------------------------------------
(* A response is kept.                                                     *)

\* snprintf() cuts nothing off words that have room in a line.
LEMMA WholeLine ==
    ASSUME NEW i, NEW t \in Seq(Char), Words(i.fields) = t, Len(t) <= LineCap - 2
    PROVE  Build(i).key = i.type /\ Build(i).rest = t
<1>1. LineCap - 2 \in Nat
  BY Caps
<1>2. Cut(t, LineCap - 2) = t
  BY <1>1, CutLength
<1> QED BY <1>2 DEF Build

\* What a response is made of.
LEMMA SaysType ==
    ASSUME NEW r, ServerSays(r)
    PROVE  /\ r = [type |-> r.type, fields |-> r.fields]
           /\ r.fields \in Seq(Seq(Char))
           /\ \A k \in 1..Len(r.fields) : r.fields[k] \in Seq(Char)
<1>1. r \in [type : STRING, fields : Seq(Seq(Char))]
  BY DEF ServerSays
<1>2. r.fields \in Seq(Seq(Char))
  BY <1>1
<1> HIDE DEF ServerSays
<1>3. \A k \in 1..Len(r.fields) : r.fields[k] \in Seq(Char)
  BY <1>2, ElementOfSeq
<1> QED BY <1>1, <1>2, <1>3

\* A message to a room, when the room's name is one word.
LEMMA BroadcastKept ==
    ASSUME NEW r, ServerSays(r), r.type = "BROADCAST", Fits(r), NoSpace(r.fields[3])
    PROVE  protocol_parse_server_line(Build(r)) = r
<1> DEFINE fs == r.fields
           a == fs[1]
           b == fs[2]
           c == fs[3]
           d == fs[4]
           l == Build(r)
           t == Join(a, Join(b, Join(c, d)))
           caps == <<NameCap, TimeCap, RoomCap, MsgCap>>
<1>1. /\ Len(fs) = 4 /\ NoSpace(a) /\ NoSpace(b)
      /\ Len(a) \in 1..NameCap /\ Len(b) \in 1..TimeCap
      /\ Len(c) \in 1..RoomCap /\ Len(d) \in 1..MsgCap
  BY DEF ServerSays
<1>2. /\ fs \in Seq(Seq(Char))
      /\ a \in Seq(Char) /\ b \in Seq(Char) /\ c \in Seq(Char) /\ d \in Seq(Char)
  BY <1>1, SaysType
<1>3. fs = <<a, b, c, d>>
  BY <1>1, <1>2
<1> HIDE DEF fs, a, b, c, d
<1>4. NoSpace(c)
  BY DEF c, fs
<1>5. Words(<<a, b, c, d>>) = t /\ Fields(t, 4) = <<a, b, c, d>>
  BY <1>1, <1>2, <1>4, FourFields
<1>6. t \in Seq(Char)
  BY <1>2, JoinSplits
<1> HIDE DEF t
<1>7. Words(r.fields) = t
  BY <1>3, <1>5 DEF fs
<1>8. Len(t) <= LineCap - 2
  <2>1. Len(t) <= LineCap - 3
    BY <1>7 DEF Fits
  <2> QED BY <2>1, <1>6, Caps, LenProperties
<1>9. l.key = "BROADCAST" /\ l.rest = t
  BY <1>6, <1>7, <1>8, WholeLine
<1>10. caps \in Seq(Nat) /\ Len(caps) = 4
  BY Caps
<1>11. \A k \in 1..4 : Fields(l.rest, 4)[k] = fs[k] /\ Len(fs[k]) \in 1..caps[k]
  <2>1. \A k \in 1..4 : k = 1 \/ k = 2 \/ k = 3 \/ k = 4
    OBVIOUS
  <2>2. Fields(l.rest, 4) = fs
    BY <1>3, <1>5, <1>9
  <2>3. fs[1] = a /\ fs[2] = b /\ fs[3] = c /\ fs[4] = d
    BY DEF a, b, c, d
  <2> QED BY <1>1, <2>1, <2>2, <2>3
<1>12. protocol_parse_server_line(l) = Parsed(l, caps)
  BY <1>9 DEF protocol_parse_server_line, ServerCaps
<1> HIDE DEF l, caps
<1>13. Parsed(l, caps) = [type |-> l.key, fields |-> fs]
  BY <1>1, <1>2, <1>10, <1>11, ParsedKept
<1>14. r = [type |-> "BROADCAST", fields |-> fs]
  BY SaysType DEF fs
<1> QED BY <1>9, <1>12, <1>13, <1>14 DEF l

\* A message to a room whose name has a space in it.
LEMMA BroadcastSplit ==
    ASSUME NEW r, ServerSays(r), r.type = "BROADCAST", Fits(r), ~NoSpace(r.fields[3])
    PROVE  LET g == protocol_parse_server_line(Build(r))
           IN  \/ g = Refused
               \/ /\ g.type = "BROADCAST"
                  /\ g.fields[1] = r.fields[1] /\ g.fields[2] = r.fields[2]
                  /\ Join(g.fields[3], g.fields[4]) = Join(r.fields[3], r.fields[4])
<1> DEFINE fs == r.fields
           a == fs[1]
           b == fs[2]
           c == fs[3]
           d == fs[4]
           l == Build(r)
           cd == Join(c, d)
           t == Join(a, Join(b, cd))
           caps == <<NameCap, TimeCap, RoomCap, MsgCap>>
           gs == <<a, b, Word(cd), Rest(cd)>>
           g == protocol_parse_server_line(l)
<1>1. Len(fs) = 4 /\ NoSpace(a) /\ NoSpace(b)
  BY DEF ServerSays
<1>2. /\ fs \in Seq(Seq(Char))
      /\ a \in Seq(Char) /\ b \in Seq(Char) /\ c \in Seq(Char) /\ d \in Seq(Char)
  BY <1>1, SaysType
<1>3. fs = <<a, b, c, d>>
  BY <1>1, <1>2
<1> HIDE DEF fs, a, b, c, d
<1>4. Words(fs) = t
  <2>1. <<a, b, c, d>> # <<>> /\ Len(<<a, b, c, d>>) = 4
    OBVIOUS
  <2> QED BY <1>3, <2>1 DEF Words
<1>5. cd \in Seq(Char) /\ ~NoSpace(cd)
  BY <1>2, JoinSplits
<1> HIDE DEF cd
<1>6. /\ t \in Seq(Char) /\ Word(t) = a
      /\ Word(Rest(t)) = b /\ Rest(Rest(t)) = cd
  <2>1. Join(b, cd) \in Seq(Char) /\ Word(Join(b, cd)) = b /\ Rest(Join(b, cd)) = cd
    BY <1>1, <1>2, <1>5, JoinSplits
  <2> QED BY <1>1, <1>2, <2>1, JoinSplits
<1> HIDE DEF t
<1>7. Len(t) <= LineCap - 2
  <2>1. Len(t) <= LineCap - 3
    BY <1>4 DEF Fits, fs
  <2> QED BY <1>6, <2>1, Caps, LenProperties
<1>8. l.key = "BROADCAST" /\ l.rest = t
  BY <1>4, <1>6, <1>7, WholeLine DEF fs
<1>9. caps \in Seq(Nat) /\ Len(caps) = 4
  BY Caps
<1>10. g = Parsed(l, caps)
  BY <1>8 DEF protocol_parse_server_line, ServerCaps
<1>11. Fields(l.rest, 4) = gs
  BY <1>6, <1>8 DEF Fields
<1>12. Word(cd) \in Seq(Char) /\ Rest(cd) \in Seq(Char)
  BY <1>5, WordType
<1>13. gs \in Seq(Seq(Char)) /\ Len(gs) = 4
  BY <1>2, <1>12
<1>14. gs[1] = a /\ gs[2] = b /\ Join(gs[3], gs[4]) = cd
  BY <1>5, SplitJoins
<1> HIDE DEF l, caps, gs, g
<1>15. ASSUME g # Refused
       PROVE  g = [type |-> "BROADCAST", fields |-> gs]
  <2>1. Strict(l.rest, caps)
    BY <1>10, <1>15 DEF Parsed
  <2>2. \A k \in 1..4 : Len(gs[k]) \in 1..caps[k]
    BY <1>9, <1>11, <2>1 DEF Strict
  <2> QED BY <1>8, <1>9, <1>10, <1>11, <1>13, <2>2, ParsedKept
<1>16. g # Refused => /\ g.type = "BROADCAST" /\ g.fields[1] = a /\ g.fields[2] = b
                      /\ Join(g.fields[3], g.fields[4]) = cd
  BY <1>14, <1>15
<1> QED BY <1>16 DEF g, l, a, b, cd, c, d, fs

\* A private message.
LEMMA PmKept ==
    ASSUME NEW r, ServerSays(r), r.type = "PM"
    PROVE  protocol_parse_server_line(Build(r)) = r
<1> DEFINE fs == r.fields
           a == fs[1]
           b == fs[2]
           c == fs[3]
           l == Build(r)
           t == Join(a, Join(b, c))
           caps == <<NameCap, TimeCap, MsgCap>>
<1>1. /\ Len(fs) = 3 /\ NoSpace(a) /\ NoSpace(b)
      /\ Len(a) \in 1..NameCap /\ Len(b) \in 1..TimeCap /\ Len(c) \in 1..MsgCap
  BY DEF ServerSays
<1>2. fs \in Seq(Seq(Char)) /\ a \in Seq(Char) /\ b \in Seq(Char) /\ c \in Seq(Char)
  BY <1>1, SaysType
<1>3. fs = <<a, b, c>>
  BY <1>1, <1>2
<1> HIDE DEF fs, a, b, c
<1>4. Words(<<a, b, c>>) = t /\ Fields(t, 3) = <<a, b, c>>
  BY <1>1, <1>2, ThreeFields
<1>5. t \in Seq(Char) /\ Len(t) = Len(a) + 1 + (Len(b) + 1 + Len(c))
  <2>1. Join(b, c) \in Seq(Char) /\ Len(Join(b, c)) = Len(b) + 1 + Len(c)
    BY <1>2, JoinSplits
  <2>2. t \in Seq(Char) /\ Len(t) = Len(a) + 1 + Len(Join(b, c))
    BY <1>2, <2>1, JoinSplits
  <2> QED BY <2>1, <2>2
<1> HIDE DEF t
<1>6. Len(t) <= LineCap - 2
  BY <1>1, <1>5, Caps
<1>7. Words(r.fields) = t
  BY <1>3, <1>4 DEF fs
<1>8. l.key = "PM" /\ l.rest = t
  BY <1>5, <1>6, <1>7, WholeLine
<1>9. caps \in Seq(Nat) /\ Len(caps) = 3
  BY Caps
<1>10. \A k \in 1..3 : Fields(l.rest, 3)[k] = fs[k] /\ Len(fs[k]) \in 1..caps[k]
  <2>1. \A k \in 1..3 : k = 1 \/ k = 2 \/ k = 3
    OBVIOUS
  <2>2. Fields(l.rest, 3) = fs
    BY <1>3, <1>4, <1>8
  <2>3. fs[1] = a /\ fs[2] = b /\ fs[3] = c
    BY DEF a, b, c
  <2> QED BY <1>1, <2>1, <2>2, <2>3
<1>11. protocol_parse_server_line(l) = Parsed(l, caps)
  BY <1>8 DEF protocol_parse_server_line, ServerCaps
<1> HIDE DEF l, caps
<1>12. Parsed(l, caps) = [type |-> l.key, fields |-> fs]
  BY <1>1, <1>2, <1>9, <1>10, ParsedKept
<1>13. r = [type |-> "PM", fields |-> fs]
  BY SaysType DEF fs
<1> QED BY <1>8, <1>11, <1>12, <1>13 DEF l

\* Who came into a room and who left it: the room's name may have spaces in it.
LEMMA PresenceKept ==
    ASSUME NEW r, ServerSays(r), r.type \in {"USER_JOIN", "USER_LEFT"}
    PROVE  protocol_parse_server_line(Build(r)) = r
<1> DEFINE fs == r.fields
           a == fs[1]
           b == fs[2]
           l == Build(r)
           t == Join(a, b)
           caps == <<NameCap, RoomCap>>
<1>1. Len(fs) = 2 /\ NoSpace(a) /\ Len(a) \in 1..NameCap /\ Len(b) \in 1..RoomCap
  BY DEF ServerSays
<1>2. fs \in Seq(Seq(Char)) /\ a \in Seq(Char) /\ b \in Seq(Char)
  BY <1>1, SaysType
<1>3. fs = <<a, b>>
  BY <1>1, <1>2
<1> HIDE DEF fs, a, b
<1>4. Words(<<a, b>>) = t /\ Fields(t, 2) = <<a, b>>
  BY <1>1, <1>2, TwoFields
<1>5. t \in Seq(Char) /\ Len(t) = Len(a) + 1 + Len(b) /\ ~NoSpace(t)
  BY <1>2, JoinSplits
<1> HIDE DEF t
<1>6. Len(t) <= LineCap - 2
  BY <1>1, <1>5, Caps
<1>7. Words(r.fields) = t
  BY <1>3, <1>4 DEF fs
<1>8. l.key = r.type /\ l.rest = t
  BY <1>5, <1>6, <1>7, WholeLine
<1>9. caps \in Seq(Nat) /\ Len(caps) = 2
  BY Caps
<1>10. \A k \in 1..2 : Fields(l.rest, 2)[k] = fs[k] /\ Len(fs[k]) \in 1..caps[k]
  <2>1. \A k \in 1..2 : k = 1 \/ k = 2
    OBVIOUS
  <2>2. Fields(l.rest, 2) = fs
    BY <1>3, <1>4, <1>8
  <2>3. fs[1] = a /\ fs[2] = b
    BY DEF a, b
  <2> QED BY <1>1, <2>1, <2>2, <2>3
<1>11. protocol_parse_server_line(l) = Parsed(l, caps)
  BY <1>5, <1>8 DEF protocol_parse_server_line, parse_two_fields
<1> HIDE DEF l, caps
<1>12. Parsed(l, caps) = [type |-> l.key, fields |-> fs]
  BY <1>1, <1>2, <1>9, <1>10, ParsedKept
<1>13. r = [type |-> r.type, fields |-> fs]
  BY SaysType DEF fs
<1> QED BY <1>8, <1>11, <1>12, <1>13 DEF l

\* A response of one field, which is taken as it comes.
LEMMA FieldKept ==
    ASSUME NEW r, ServerSays(r),
           r.type \notin {"BROADCAST", "PM", "USER_JOIN", "USER_LEFT"},
           r.type = "HISTORY" => Fits(r)
    PROVE  protocol_parse_server_line(Build(r)) = r
<1> DEFINE fs == r.fields
           t == fs[1]
           l == Build(r)
           cap == OneCap(r.type)
<1>1. /\ Len(fs) = 1
      /\ r.type \in {"WELCOME", "ROOM_JOINED", "OK", "ERR", "KICKED", "LIST", "HISTORY"}
  BY DEF ServerSays
<1>2. fs \in Seq(Seq(Char)) /\ t \in Seq(Char)
  BY <1>1, SaysType
<1>3. fs = <<t>> /\ Len(t) \in Nat
  BY <1>1, <1>2, LenProperties
<1>4. Words(r.fields) = t
  BY <1>2, <1>3, OneField
<1>5. cap \in Nat /\ Len(t) <= cap /\ Len(t) <= LineCap - 2
  <2>1. CASE r.type = "HISTORY"
    <3>1. Len(t) <= LineCap - 3
      BY <1>4, <2>1 DEF Fits
    <3>2. cap = LineCap
      BY <2>1 DEF OneCap
    <3> HIDE DEF t, cap
    <3> QED BY <1>3, <3>1, <3>2, Caps
  <2>2. CASE r.type = "WELCOME"
    <3>1. Len(t) <= NameCap
      BY <2>2, <1>1, <1>3 DEF ServerSays
    <3>2. cap = NameCap
      BY <2>2 DEF OneCap
    <3> HIDE DEF t, cap
    <3> QED BY <1>3, <3>1, <3>2, Caps
  <2>3. CASE r.type = "ROOM_JOINED"
    <3>1. Len(t) <= RoomCap
      BY <2>3, <1>1, <1>3 DEF ServerSays
    <3>2. cap = RoomCap
      BY <2>3 DEF OneCap
    <3> HIDE DEF t, cap
    <3> QED BY <1>3, <3>1, <3>2, Caps
  <2>4. CASE r.type \in {"OK", "ERR", "KICKED", "LIST"}
    <3>1. Len(t) <= MsgCap
      BY <2>4, <1>1, <1>3 DEF ServerSays
    <3>2. cap = MsgCap
      BY <2>4 DEF OneCap
    <3> HIDE DEF t, cap
    <3> QED BY <1>3, <3>1, <3>2, Caps
  <2> QED BY <1>1, <2>1, <2>2, <2>3, <2>4
<1>6. r = [type |-> r.type, fields |-> fs]
  BY SaysType
<1> HIDE DEF fs, t
<1>7. l.key = r.type /\ l.rest = t
  BY <1>2, <1>4, <1>5, WholeLine
<1>8. Cut(t, cap) = t
  BY <1>2, <1>5, CutLength
<1>9. protocol_parse_server_line(l) = [type |-> r.type, fields |-> <<Cut(t, cap)>>]
  BY <1>7 DEF protocol_parse_server_line
<1> QED BY <1>3, <1>6, <1>8, <1>9

-----------------------------------------------------------------------------
(* The invariant and what follows from it.                                 *)

\* Every line that is under way, and what was made of it at the other end.
THEOREM WireInvariant == Spec => []WireInv
<1>1. Init => WireInv
  BY DEF Init, WireInv
<1>2. WireInv /\ [Next]_vars => WireInv'
  <2> SUFFICES ASSUME WireInv, [Next]_vars
               PROVE  WireInv'
    OBVIOUS
  <2>1. ASSUME NEW in \in Inputs, ClientBuilds(in)
        PROVE  WireInv'
    <3>1. Sendable(item')
      BY <2>1 DEF ClientBuilds, Sendable
    <3> QED BY <2>1, <3>1 DEF ClientBuilds, WireInv, Sendable
  <2>2. ASSUME NEW n \in Names, NEW p \in Names, AuthBuilds(n, p)
        PROVE  WireInv'
    <3>1. Sendable(item')
      BY <2>2 DEF AuthBuilds, Sendable
    <3> QED BY <2>2, <3>1 DEF AuthBuilds, WireInv, Sendable
  <2>3. ASSUME NEW r \in Responses, ServerBuilds(r)
        PROVE  WireInv'
    <3>1. Sayable(item')
      BY <2>3 DEF ServerBuilds, Sayable
    <3> QED BY <2>3, <3>1 DEF ServerBuilds, WireInv, Sayable
  <2>4. CASE ServerParses
    BY <2>4 DEF ServerParses, WireInv, Sendable
  <2>5. CASE ClientParses
    BY <2>5 DEF ClientParses, WireInv, Sayable
  <2>6. CASE UNCHANGED vars
    BY <2>6 DEF vars, WireInv, Sendable, Sayable
  <2> QED BY <2>1, <2>2, <2>3, <2>4, <2>5, <2>6 DEF Next
<1> QED BY <1>1, <1>2, PTL DEF Spec

\* Whatever is typed and however long it is, the server makes of a line the
\* command that was meant or none; credentials with a space in the name are the
\* one exception (CommandsKept).
THEOREM CommandsAlwaysKept == Spec => []CommandsKept
<1>1. WireInv => CommandsKept
  <2> SUFFICES ASSUME WireInv, phase = "parsed", side = "client"
               PROVE  /\ Acceptable(item) => got = item
                      /\ got \notin {item, Refused} =>
                            item.type = "AUTH" /\ ~NoSpace(item.fields[1])
                      /\ got # Refused => Acceptable(got)
    BY DEF CommandsKept
  <2>1. got = protocol_parse_client_line(Build(item)) /\ Sendable(item)
    BY DEF WireInv
  <2>2. CASE \E in \in Inputs : Sends(in) /\ item = Meant(in)
    <3>1. PICK in \in Inputs : Sends(in) /\ item = Meant(in)
      BY <2>2
    <3>2. /\ in.type \in {"JOIN_ROOM", "KICK", "MSG", "PM", "LIST", "HISTORY", "QUIT"}
          /\ in.text \in Seq(Char)
      BY WireAssumption
    <3>3. CASE in.type = "PM"
      <4>1. parse_at_pm(in.text) # Refused /\ item = parse_at_pm(in.text)
        BY <3>1, <3>3 DEF Sends, Meant
      <4>2. PICK a, b \in Seq(Char) :
               /\ NoSpace(a) /\ Len(a) \in 1..NameCap /\ Len(b) \in 1..MsgCap
               /\ item = [type |-> "PM", fields |-> <<a, b>>]
        BY <3>2, <4>1, AtPm
      <4>3. got = item
        BY <2>1, <4>2, NamedKept
      <4>4. Acceptable(item)
        BY <4>2, NamedAcceptable
      <4> QED BY <4>3, <4>4
    <3>4. CASE in.type \in {"LIST", "HISTORY", "QUIT"}
      <4>1. item = [type |-> in.type, fields |-> <<>>]
        BY <3>1, <3>4 DEF Meant
      <4>2. got = item
        BY <2>1, <3>4, <4>1, BareKept
      <4>3. Acceptable(item)
        <5>1. item.fields = <<>>
          BY <4>1
        <5> QED BY <5>1 DEF Acceptable
      <4> QED BY <4>2, <4>3
    <3>5. CASE in.type \in {"JOIN_ROOM", "KICK", "MSG"}
      <4>1. item = [type |-> in.type, fields |-> <<in.text>>]
        BY <3>1, <3>5 DEF Meant
      <4>2. got = IF Acceptable(item) THEN item ELSE Refused
        BY <2>1, <3>2, <3>5, <4>1, SingleKept
      <4> QED BY <4>2
    <3> QED BY <3>2, <3>3, <3>4, <3>5
  <2>3. CASE \E n, p \in Names :
                /\ Len(n) \in 1..NameCap /\ Len(p) \in 1..PassCap
                /\ item = [type |-> "AUTH", fields |-> <<n, p>>]
    <3>1. PICK n \in Names, p \in Names :
             /\ Len(n) \in 1..NameCap /\ Len(p) \in 1..PassCap
             /\ item = [type |-> "AUTH", fields |-> <<n, p>>]
      BY <2>3
    <3>2. n \in Seq(Char) /\ p \in Seq(Char)
      BY WireAssumption DEF Names
    <3>3. Len(p) \in 1..MsgCap
      BY <3>1, <3>2, Caps
    <3>4. NoSpace(n) => got = item
      BY <2>1, <3>1, <3>2, <3>3, NamedKept
    <3>5. item.type = "AUTH" /\ item.fields = <<n, p>> /\ item.fields[1] = n
      BY <3>1
    <3>6. Acceptable(item) => NoSpace(n)
      <4>1. ClientCaps(item.type) = <<NameCap, MsgCap>> /\ item.fields # <<>>
        BY <3>5 DEF ClientCaps
      <4>2. Len(<<NameCap, MsgCap>>) = 2
        OBVIOUS
      <4> QED BY <3>5, <4>1, <4>2 DEF Acceptable
    <3>7. got # Refused => Acceptable(got)
      BY <2>1, <3>1, <3>2, LoginAccepted
    <3> QED BY <3>4, <3>5, <3>6, <3>7
  <2> QED BY <2>1, <2>2, <2>3 DEF Sendable
<1> QED BY <1>1, WireInvariant, PTL

\* Whatever the server says with the names, times and texts that it can have in
\* its buffers, and however long they are, the client takes each field in its
\* place; of a message to a room with a space in its name it takes nothing, or all
\* of it with the room's name cut at that space (ResponsesKept).
THEOREM ResponsesAlwaysKept == Spec => []ResponsesKept
<1>1. WireInv => ResponsesKept
  <2> SUFFICES ASSUME WireInv, phase = "parsed", side = "server"
               PROVE  got = item \/ RoomSplit
    BY DEF ResponsesKept
  <2>1. got = protocol_parse_server_line(Build(item)) /\ Sayable(item)
    BY DEF WireInv
  <2>2. /\ ServerSays(item)
        /\ item.type \in {"BROADCAST", "USER_JOIN", "USER_LEFT", "HISTORY"} => Fits(item)
    BY <2>1, WireAssumption DEF Sayable
  <2>3. CASE item.type = "BROADCAST" /\ NoSpace(item.fields[3])
    BY <2>1, <2>2, <2>3, BroadcastKept
  <2>4. CASE item.type = "BROADCAST" /\ ~NoSpace(item.fields[3])
    BY <2>1, <2>2, <2>4, BroadcastSplit DEF RoomSplit
  <2>5. CASE item.type = "PM"
    BY <2>1, <2>2, <2>5, PmKept
  <2>6. CASE item.type \in {"USER_JOIN", "USER_LEFT"}
    BY <2>1, <2>2, <2>6, PresenceKept
  <2>7. CASE item.type \notin {"BROADCAST", "PM", "USER_JOIN", "USER_LEFT"}
    BY <2>1, <2>2, <2>7, FieldKept
  <2> QED BY <2>3, <2>4, <2>5, <2>6, <2>7
<1> QED BY <1>1, WireInvariant, PTL

=============================================================================

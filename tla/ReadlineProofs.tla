---------------------------- MODULE ReadlineProofs ----------------------------
(***************************************************************************)
(* Theorems about Readline, for a line of any length and a ring of twice   *)
(* that size.                                                              *)
(***************************************************************************)
EXTENDS Readline, FiniteSetTheorems, TLAPS

(* A character to be put is one; while a line is copied it is not yet full; *)
(* and a request waits for what the interrupt loop compares with.           *)
Locals ==
    /\ at["int"] \in {"room", "put", "count", "line"} => key \in Char
    /\ IF at["req"] \in {"take", "count"} THEN copied < len ELSE copied = 0
    /\ at["req"] = "wait" => user_buf_len = len

(* What handle_request tested still holds unless a character came since.    *)
Tested == at["req"] = "test" /\ at["int"] = "idle" => num_chars < len

(* What is left of a request finds its characters, or a newline before.     *)
Enough(held, newlines, n) == newlines # {} \/ Cardinality(held) >= n

(* The two counts and what the threads rely on, while nothing has gone wrong. *)
CharsExact == num_chars = Cardinality(Held) + One(at["req"] = "count")
                            - One(at["int"] = "count") - One(at["int"] = "back")
NewlinesExact == num_newlines = Cardinality(Newlines) + One(at["req"] = "count" /\ char = "newline")
                            - One(at["int"] \in {"count", "line"} /\ key = "newline")
Relied ==
    /\ at["int"] = "put" => HasRoom
    /\ at["int"] \in {"erase", "back"} =>
           Held # {} /\ buffer[PrevIndex(producer)] # "newline" /\ ~Copying(at)
    /\ at["req"] \in {"woken", "take"} => Enough(Held, Newlines, len - copied)
    /\ at["req"] = "count" /\ char # "newline" => Enough(Held, Newlines, len - copied - 1)
Exact == CharsExact /\ NewlinesExact /\ Relied

IInv ==
    /\ TypeOK
    /\ Locals
    /\ Tested
    /\ NoMissedLine
    /\ ~spoiled => Exact

-----------------------------------------------------------------------------
(* The ring as a stretch of indices that may go over the end of the buffer. *)
InRing(i, c, p) == IF c <= p THEN c <= i /\ i < p ELSE c <= i \/ i < p
HeldBy(c, p) == {i \in Index : InRing(i, c, p)}

LEMMA SizeIs == Size \in Nat \ {0, 1} /\ Index = 0 .. Size - 1 /\ 0 \in Index
  BY ReadlineConstants DEF Index

LEMMA LengthIs == Length \subseteq Int /\ 0 \in Length /\ 1 \in Length /\ \A n \in Length : n <= MaxLen
  BY ReadlineConstants DEF Length

LEMMA Wrap ==
    ASSUME NEW a \in 0 .. 2 * Size - 1
    PROVE  a % Size = IF a < Size THEN a ELSE a - Size
  BY SizeIs

LEMMA IndexValues ==
    ASSUME NEW i \in Index
    PROVE  /\ NextIndex(i) = IF i = Size - 1 THEN 0 ELSE i + 1
           /\ PrevIndex(i) = IF i = 0 THEN Size - 1 ELSE i - 1
           /\ NextIndex(i) \in Index /\ PrevIndex(i) \in Index
  <1> DEFINE a == i + 1
             b == i + Size - 1
  <1>1. i \in 0 .. Size - 1 /\ Size \in Nat \ {0, 1}
    BY SizeIs
  <1>2. a \in 0 .. 2 * Size - 1 /\ b \in 0 .. 2 * Size - 1
    BY <1>1
  <1>3. /\ (IF a < Size THEN a ELSE a - Size) = (IF i = Size - 1 THEN 0 ELSE i + 1)
        /\ (IF b < Size THEN b ELSE b - Size) = (IF i = 0 THEN Size - 1 ELSE i - 1)
    BY <1>1
  <1> HIDE DEF a, b
  <1>4. /\ a % Size = IF a < Size THEN a ELSE a - Size
        /\ b % Size = IF b < Size THEN b ELSE b - Size
    BY <1>2, Wrap
  <1>5. /\ a % Size = IF i = Size - 1 THEN 0 ELSE i + 1
        /\ b % Size = IF i = 0 THEN Size - 1 ELSE i - 1
    BY <1>3, <1>4
  <1>6. /\ NextIndex(i) = IF i = Size - 1 THEN 0 ELSE i + 1
        /\ PrevIndex(i) = IF i = 0 THEN Size - 1 ELSE i - 1
    BY <1>5 DEF NextIndex, PrevIndex, a, b
  <1> QED
    BY <1>1, <1>6, SizeIs DEF Index

LEMMA RingSlot ==
    ASSUME NEW i \in Index, NEW c \in Index, NEW p \in Index
    PROVE  (i + Size - c) % Size < (p + Size - c) % Size <=> InRing(i, c, p)
  <1> DEFINE a == i + Size - c
             b == p + Size - c
  <1>1. a \in 0 .. 2 * Size - 1 /\ b \in 0 .. 2 * Size - 1
    BY SizeIs DEF Index
  <1>2. (IF a < Size THEN a ELSE a - Size) < (IF b < Size THEN b ELSE b - Size) <=> InRing(i, c, p)
    BY SizeIs DEF InRing, Index
  <1> HIDE DEF a, b
  <1>3. a % Size = (IF a < Size THEN a ELSE a - Size) /\ b % Size = (IF b < Size THEN b ELSE b - Size)
    BY <1>1, Wrap
  <1>4. a % Size < b % Size <=> InRing(i, c, p)
    BY <1>2, <1>3
  <1> QED
    BY <1>4 DEF a, b

(* What the three moves of an index do to the slots held.                   *)
LEMMA RingMoves ==
    ASSUME NEW c \in Index, NEW p \in Index
    PROVE  /\ HeldBy(c, p) = {} <=> c = p
           /\ NextIndex(p) # c => /\ HeldBy(c, NextIndex(p)) = HeldBy(c, p) \cup {p}
                                  /\ p \notin HeldBy(c, p)
           /\ c # p => /\ c \in HeldBy(c, p)
                       /\ HeldBy(NextIndex(c), p) = HeldBy(c, p) \ {c}
                       /\ NextIndex(p) # NextIndex(c)
                       /\ PrevIndex(p) \in HeldBy(c, p)
                       /\ HeldBy(c, PrevIndex(p)) = HeldBy(c, p) \ {PrevIndex(p)}
  <1> DEFINE n == NextIndex(p)
             m == NextIndex(c)
             q == PrevIndex(p)
  <1>1. /\ c \in 0 .. Size - 1 /\ p \in 0 .. Size - 1 /\ Size \in Nat \ {0, 1}
        /\ n \in 0 .. Size - 1 /\ n = IF p = Size - 1 THEN 0 ELSE p + 1
        /\ m \in 0 .. Size - 1 /\ m = IF c = Size - 1 THEN 0 ELSE c + 1
        /\ q \in 0 .. Size - 1 /\ q = IF p = 0 THEN Size - 1 ELSE p - 1
    BY SizeIs, IndexValues
  <1> HIDE DEF n, m, q
  <1>2. \A i \in 0 .. Size - 1 : ~InRing(i, c, c)
    BY <1>1 DEF InRing
  <1>3. c # p => InRing(c, c, p) /\ InRing(q, c, p) /\ n # m
    BY <1>1 DEF InRing
  <1>4. ~InRing(p, c, p)
    BY <1>1 DEF InRing
  <1>5. ASSUME NEW i \in 0 .. Size - 1, n # c
        PROVE  InRing(i, c, n) <=> InRing(i, c, p) \/ i = p
    BY <1>1, <1>5 DEF InRing
  <1>6. ASSUME NEW i \in 0 .. Size - 1, c # p
        PROVE  InRing(i, m, p) <=> InRing(i, c, p) /\ i # c
    BY <1>1, <1>6 DEF InRing
  <1>7. ASSUME NEW i \in 0 .. Size - 1, c # p
        PROVE  InRing(i, c, q) <=> InRing(i, c, p) /\ i # q
    BY <1>1, <1>7 DEF InRing
  <1>8. HeldBy(c, p) = {} <=> c = p
    BY <1>1, <1>2, <1>3 DEF HeldBy, Index
  <1>9. n # c => HeldBy(c, n) = HeldBy(c, p) \cup {p} /\ p \notin HeldBy(c, p)
    BY <1>1, <1>4, <1>5 DEF HeldBy, Index
  <1>10. c # p => /\ c \in HeldBy(c, p) /\ HeldBy(m, p) = HeldBy(c, p) \ {c} /\ n # m
                  /\ q \in HeldBy(c, p) /\ HeldBy(c, q) = HeldBy(c, p) \ {q}
    BY <1>1, <1>3, <1>6, <1>7 DEF HeldBy, Index
  <1> QED
    BY <1>8, <1>9, <1>10 DEF n, m, q

(* The slots held, and how many they are.                                   *)
LEMMA HeldIs ==
    ASSUME TypeOK
    PROVE  /\ Held = HeldBy(consumer, producer)
           /\ Newlines \subseteq Held
           /\ IsFiniteSet(Held) /\ IsFiniteSet(Newlines)
           /\ Cardinality(Held) \in Nat /\ Cardinality(Newlines) \in Nat
           /\ Cardinality(Held) = 0 <=> Held = {}
           /\ Cardinality(Newlines) = 0 <=> Newlines = {}
  <1>1. Held = HeldBy(consumer, producer)
    BY RingSlot DEF TypeOK, Held, HeldBy
  <1>2. IsFiniteSet(Index)
    BY SizeIs, FS_Interval
  <1>3. Newlines \subseteq Held /\ Held \subseteq Index
    BY DEF Held, Newlines
  <1>4. IsFiniteSet(Held) /\ IsFiniteSet(Newlines)
    BY <1>2, <1>3, FS_Subset
  <1> QED
    BY <1>1, <1>3, <1>4, FS_CardinalityType, FS_EmptySet

LEMMA RequestIs ==
    ASSUME TypeOK
    PROVE  len \in Int /\ len <= MaxLen /\ copied \in Int
  <1>1. len \in Length /\ copied \in 0 .. MaxLen - 1
    BY DEF TypeOK
  <1> QED
    BY <1>1, LengthIs, ReadlineConstants

LEMMA Initially == Init => IInv
  <1> SUFFICES ASSUME Init PROVE IInv
    OBVIOUS
  <1>1. TypeOK
    <2>1. 0 \in Index /\ 0 \in Length /\ 1 \in Length /\ 0 \in 0 .. MaxLen - 1
      BY SizeIs, LengthIs, ReadlineConstants
    <2>2. at \in [int : {"idle", "room", "put", "count", "line", "any", "erase", "back", "ready"},
                  req : {"idle", "test", "wait", "woken", "take", "count"}]
      BY DEF Init
    <2>3. buffer \in [Index -> Char] /\ key \in Key /\ char \in Char
      BY DEF Init, Char, Key
    <2>4. /\ producer = 0 /\ consumer = 0 /\ num_chars = 0 /\ num_newlines = 0
          /\ user_buf_len = 0 /\ len = 1 /\ copied = 0
      BY DEF Init
    <2>5. /\ producer \in Index /\ consumer \in Index /\ num_chars \in Int /\ num_newlines \in Int
          /\ user_buf_len \in Length /\ len \in Length /\ copied \in 0 .. MaxLen - 1
      BY <2>1, <2>4
    <2>6. spoiled \in BOOLEAN
      BY DEF Init
    <2> QED
      BY <2>1, <2>2, <2>3, <2>5, <2>6 DEF TypeOK
  <1>2. Locals /\ Tested /\ NoMissedLine
    BY DEF Init, Locals, Tested, NoMissedLine
  <1>3. Held = {} /\ Newlines = {}
    BY <1>1, HeldIs, SizeIs, RingMoves DEF Init
  <1>4. Cardinality(Held) = 0 /\ Cardinality(Newlines) = 0
    BY <1>1, <1>3, HeldIs
  <1>5. at["int"] = "idle" /\ at["req"] = "idle" /\ num_chars = 0 /\ num_newlines = 0
    BY DEF Init
  <1>6. Exact
    <2>1. CharsExact /\ NewlinesExact
      <3>1. /\ One(at["req"] = "count") = 0 /\ One(at["int"] = "count") = 0
            /\ One(at["int"] = "back") = 0 /\ One(at["req"] = "count" /\ char = "newline") = 0
            /\ One(at["int"] \in {"count", "line"} /\ key = "newline") = 0
        BY <1>5 DEF One
      <3> QED
        BY <1>4, <1>5, <3>1 DEF CharsExact, NewlinesExact
    <2>2. Relied
      BY <1>5 DEF Relied
    <2> QED
      BY <2>1, <2>2 DEF Exact
  <1> QED
    BY <1>1, <1>2, <1>6 DEF IInv

-----------------------------------------------------------------------------
(* Where a step of one of the two threads leaves them.                      *)
IntPlaces == {"idle", "room", "put", "count", "line", "any", "erase", "back", "ready"}
ReqPlaces == {"idle", "test", "wait", "woken", "take", "count"}

LEMMA GotoInt ==
    ASSUME TypeOK, NEW x \in IntPlaces, Goto("int", x)
    PROVE  /\ at' \in [int : IntPlaces, req : ReqPlaces]
           /\ at'["int"] = x /\ at'["req"] = at["req"]
  BY DEF Goto, TypeOK, IntPlaces, ReqPlaces

LEMMA GotoReq ==
    ASSUME TypeOK, NEW x \in ReqPlaces, Goto("req", x)
    PROVE  /\ at' \in [int : IntPlaces, req : ReqPlaces]
           /\ at'["req"] = x /\ at'["int"] = at["int"]
  BY DEF Goto, TypeOK, IntPlaces, ReqPlaces

(* A step that leaves the ring and its counts alone.                        *)
LEMMA RingKept ==
    ASSUME UNCHANGED <<producer, consumer, buffer>>
    PROVE  /\ Cardinality(Held') = Cardinality(Held) /\ Held' = Held
           /\ Cardinality(Newlines') = Cardinality(Newlines) /\ Newlines' = Newlines
           /\ HasRoom' <=> HasRoom
           /\ buffer'[PrevIndex(producer')] = buffer[PrevIndex(producer)]
  BY DEF Held, Newlines, HasRoom

LEMMA ExactCounts ==
    ASSUME CharsExact, NewlinesExact, UNCHANGED <<ring, counts>>,
           One(at["req"] = "count") - One(at["int"] = "count") - One(at["int"] = "back") =
           One(at'["req"] = "count") - One(at'["int"] = "count") - One(at'["int"] = "back"),
           One(at["req"] = "count" /\ char = "newline")
               - One(at["int"] \in {"count", "line"} /\ key = "newline") =
           One(at'["req"] = "count" /\ char' = "newline")
               - One(at'["int"] \in {"count", "line"} /\ key' = "newline"),
           TypeOK
    PROVE  CharsExact' /\ NewlinesExact'
  <1> DEFINE a == One(at["req"] = "count")
             b == One(at["int"] = "count")
             c == One(at["int"] = "back")
             d == One(at["req"] = "count" /\ char = "newline")
             e == One(at["int"] \in {"count", "line"} /\ key = "newline")
  <1>1. /\ a \in Int /\ b \in Int /\ c \in Int /\ d \in Int /\ e \in Int
        /\ a' \in Int /\ b' \in Int /\ c' \in Int /\ d' \in Int /\ e' \in Int
    BY DEF One
  <1>2. a - b - c = a' - b' - c' /\ d - e = d' - e'
    OBVIOUS
  <1>3. /\ num_chars = Cardinality(Held) + a - b - c
        /\ num_newlines = Cardinality(Newlines) + d - e
        /\ num_chars' = num_chars /\ num_newlines' = num_newlines
    BY DEF CharsExact, NewlinesExact, counts
  <1>4. /\ Cardinality(Held) \in Int /\ Cardinality(Newlines) \in Int
        /\ Cardinality(Held') = Cardinality(Held) /\ Cardinality(Newlines') = Cardinality(Newlines)
    BY HeldIs, RingKept DEF ring
  <1> HIDE DEF a, b, c, d, e
  <1>5. /\ num_chars' = Cardinality(Held') + a' - b' - c'
        /\ num_newlines' = Cardinality(Newlines') + d' - e'
    BY <1>1, <1>2, <1>3, <1>4
  <1> QED
    BY <1>5 DEF CharsExact, NewlinesExact, a, b, c, d, e

(* Most steps leave what the request has been told.                         *)
LEMMA ReliedKept ==
    ASSUME Relied, UNCHANGED <<ring, len, copied, char>>, at'["req"] = at["req"],
           at'["int"] = "put" => HasRoom,
           at'["int"] \in {"erase", "back"} =>
               Held # {} /\ buffer[PrevIndex(producer)] # "newline" /\ ~Copying(at)
    PROVE  Relied'
  <1>1. /\ Cardinality(Held') = Cardinality(Held) /\ Held' = Held
        /\ Newlines' = Newlines
        /\ HasRoom' <=> HasRoom
        /\ buffer'[PrevIndex(producer')] = buffer[PrevIndex(producer)]
        /\ copied' = copied /\ len' = len /\ char' = char
    BY RingKept DEF ring
  <1>2. at'["int"] = "put" => HasRoom'
    BY <1>1
  <1>3. at'["int"] \in {"erase", "back"} =>
            Held' # {} /\ buffer'[PrevIndex(producer')] # "newline" /\ ~Copying(at')
    BY <1>1 DEF Copying
  <1>4. /\ at'["req"] \in {"woken", "take"} => Enough(Held', Newlines', len' - copied')
        /\ at'["req"] = "count" /\ char' # "newline" => Enough(Held', Newlines', len' - copied' - 1)
    BY <1>1 DEF Relied
  <1> QED
    BY <1>2, <1>3, <1>4 DEF Relied

-----------------------------------------------------------------------------
(* The interrupt loop.                                                      *)

(* While it handles a character it owes the request its test at the end.    *)
LEMMA OwesTest ==
    ASSUME Locals, UNCHANGED <<user_buf_len, len, copied>>,
           at'["int"] # "idle", at'["req"] = at["req"],
           at'["int"] \in {"room", "put", "count", "line"} => key' \in Char
    PROVE  Locals' /\ Tested' /\ NoMissedLine'
  BY DEF Locals, Tested, NoMissedLine

LEMMA HandleCharStep ==
    ASSUME IInv, NEW c \in Key, HandleChar(c) PROVE IInv'
  <1> DEFINE x == CASE c \in Char -> "room" [] c = "backspace" -> "any" [] c = "return" -> "ready"
  <1>1. /\ at["int"] = "idle" /\ key' = c /\ Goto("int", x)
        /\ UNCHANGED <<ring, counts, user_buf_len, request, spoiled>>
    BY DEF HandleChar
  <1>2. x \in {"room", "any", "ready"} /\ x \in IntPlaces /\ (x = "room" => c \in Char)
    BY DEF Key, Char, IntPlaces
  <1> HIDE DEF x
  <1>3. /\ at' \in [int : IntPlaces, req : ReqPlaces]
        /\ at'["int"] = x /\ at'["req"] = at["req"]
    BY <1>1, <1>2, GotoInt DEF IInv
  <1>4. TypeOK'
    BY <1>1, <1>3 DEF IInv, TypeOK, IntPlaces, ReqPlaces, ring, counts, request
  <1>5. Locals' /\ Tested' /\ NoMissedLine'
    BY <1>1, <1>2, <1>3, OwesTest DEF IInv, request
  <1>6. ASSUME ~spoiled' PROVE Exact'
    <2>1. Exact /\ TypeOK
      BY <1>1, <1>6 DEF IInv
    <2>2. CharsExact' /\ NewlinesExact'
      BY <1>1, <1>2, <1>3, <2>1, ExactCounts DEF Exact, One, request
    <2>3. Relied'
      BY <1>1, <1>2, <1>3, <2>1, ReliedKept DEF Exact, request
    <2> QED
      BY <2>2, <2>3 DEF Exact
  <1> QED
    BY <1>4, <1>5, <1>6 DEF IInv

LEMMA FindRoomStep ==
    ASSUME IInv, FindRoom PROVE IInv'
  <1> DEFINE x == IF HasRoom THEN "put" ELSE "line"
  <1>1. /\ at["int"] = "room" /\ Goto("int", x)
        /\ UNCHANGED <<ring, counts, user_buf_len, key, request>>
    BY DEF FindRoom
  <1>2. x \in {"put", "line"} /\ x \in IntPlaces /\ (x = "put" <=> HasRoom)
    BY DEF IntPlaces
  <1>3. spoiled' \in BOOLEAN /\ (~spoiled' => ~spoiled /\ (HasRoom \/ key # "newline"))
    BY DEF FindRoom, IInv, TypeOK
  <1> HIDE DEF x
  <1>4. /\ at' \in [int : IntPlaces, req : ReqPlaces]
        /\ at'["int"] = x /\ at'["req"] = at["req"]
    BY <1>1, <1>2, GotoInt DEF IInv
  <1>5. TypeOK'
    BY <1>1, <1>3, <1>4 DEF IInv, TypeOK, IntPlaces, ReqPlaces, ring, counts, request
  <1>6. Locals' /\ Tested' /\ NoMissedLine'
    BY <1>1, <1>2, <1>4, OwesTest DEF IInv, Locals, request
  <1>7. ASSUME ~spoiled' PROVE Exact'
    <2>1. Exact /\ TypeOK
      BY <1>3, <1>7 DEF IInv
    <2>2. at'["int"] = "line" => key # "newline"
      BY <1>2, <1>3, <1>4, <1>7
    <2>3. CharsExact' /\ NewlinesExact'
      BY <1>1, <1>2, <1>4, <2>1, <2>2, ExactCounts DEF Exact, One, request
    <2>4. Relied'
      BY <1>1, <1>2, <1>4, <2>1, ReliedKept DEF Exact, request
    <2> QED
      BY <2>3, <2>4 DEF Exact
  <1> QED
    BY <1>5, <1>6, <1>7 DEF IInv

(* A backspace is let through only for a character that is there.           *)
LEMMA FindCharStep ==
    ASSUME IInv, FindChar PROVE IInv'
  <1> DEFINE none == num_chars = 0 \/ buffer[PrevIndex(producer)] = "newline"
             x == IF none THEN "ready" ELSE "erase"
  <1>1. /\ at["int"] = "any" /\ Goto("int", x)
        /\ UNCHANGED <<ring, counts, user_buf_len, key, request>>
    BY DEF FindChar
  <1>2. x \in {"ready", "erase"} /\ x \in IntPlaces /\ (x = "erase" <=> ~none)
    BY DEF IntPlaces
  <1>3. spoiled' \in BOOLEAN /\ (~spoiled' => ~spoiled /\ ~Spoils)
    BY DEF FindChar, IInv, TypeOK
  <1> HIDE DEF x
  <1>4. /\ at' \in [int : IntPlaces, req : ReqPlaces]
        /\ at'["int"] = x /\ at'["req"] = at["req"]
    BY <1>1, <1>2, GotoInt DEF IInv
  <1>5. TypeOK'
    BY <1>1, <1>3, <1>4 DEF IInv, TypeOK, IntPlaces, ReqPlaces, ring, counts, request
  <1>6. Locals' /\ Tested' /\ NoMissedLine'
    BY <1>1, <1>2, <1>4, OwesTest DEF IInv, request
  <1>7. ASSUME ~spoiled' PROVE Exact'
    <2>1. Exact /\ TypeOK
      BY <1>3, <1>7 DEF IInv
    <2>2. CharsExact' /\ NewlinesExact'
      BY <1>1, <1>2, <1>4, <2>1, ExactCounts DEF Exact, One, request
    <2>3. ASSUME at'["int"] = "erase" PROVE Held # {} /\ ~Copying(at)
      <3>1. ~Copying(at')
        BY <1>3, <1>7, <2>3 DEF Spoils
      <3>2. ~Copying(at)
        BY <1>4, <3>1 DEF Copying
      <3>3. num_chars # 0
        BY <1>2, <1>4, <2>3
      <3>4. num_chars = Cardinality(Held)
        <4>1. /\ One(at["req"] = "count") = 0 /\ One(at["int"] = "count") = 0
              /\ One(at["int"] = "back") = 0
          BY <1>1, <3>2 DEF One, Copying
        <4> QED
          BY <2>1, <4>1, HeldIs DEF Exact, CharsExact
      <3>5. Held # {}
        BY <2>1, <3>3, <3>4, HeldIs
      <3> QED
        BY <3>2, <3>5
    <2>4. Relied'
      BY <1>1, <1>2, <1>4, <2>1, <2>3, ReliedKept DEF Exact, request
    <2> QED
      BY <2>2, <2>4 DEF Exact
  <1> QED
    BY <1>5, <1>6, <1>7 DEF IInv

(* More slots are held, more newlines are in them: enough stays enough.     *)
LEMMA EnoughGrows ==
    ASSUME NEW h, NEW m, NEW h2, NEW m2, NEW n \in Int, IsFiniteSet(h2),
           h \subseteq h2, m \subseteq m2, Enough(h, m, n)
    PROVE  Enough(h2, m2, n)
  <1>1. IsFiniteSet(h) /\ Cardinality(h) <= Cardinality(h2)
    BY FS_Subset
  <1>2. Cardinality(h) \in Nat /\ Cardinality(h2) \in Nat
    BY <1>1, FS_CardinalityType
  <1> QED
    BY <1>1, <1>2 DEF Enough

LEMMA PutStep ==
    ASSUME IInv, Put PROVE IInv'
  <1>1. /\ at["int"] = "put" /\ Goto("int", "count")
        /\ buffer' = [buffer EXCEPT ![producer] = key] /\ producer' = NextIndex(producer)
        /\ UNCHANGED <<consumer, counts, user_buf_len, key, request, spoiled>>
    BY DEF Put
  <1>2. /\ at' \in [int : IntPlaces, req : ReqPlaces]
        /\ at'["int"] = "count" /\ at'["req"] = at["req"]
    BY <1>1, GotoInt DEF IInv, IntPlaces
  <1>3. /\ TypeOK /\ key \in Char /\ producer \in Index /\ consumer \in Index
        /\ buffer \in [Index -> Char]
    BY <1>1 DEF IInv, Locals, TypeOK
  <1>4. TypeOK'
    BY <1>1, <1>2, <1>3, IndexValues DEF TypeOK, IntPlaces, ReqPlaces, counts, request
  <1>5. Locals' /\ Tested' /\ NoMissedLine'
    BY <1>1, <1>2, <1>3, OwesTest DEF IInv, request
  <1>6. ASSUME ~spoiled' PROVE Exact'
    <2>1. Exact
      BY <1>1, <1>6 DEF IInv
    <2>2. NextIndex(producer) # consumer
      BY <1>1, <2>1 DEF Exact, Relied, HasRoom
    <2>3. Held' = Held \cup {producer} /\ producer \notin Held
      <3>1. /\ Held = HeldBy(consumer, producer)
            /\ Held' = HeldBy(consumer', producer')
        BY <1>3, <1>4, HeldIs, RingSlot DEF TypeOK, Held, HeldBy
      <3> QED
        BY <1>1, <1>3, <2>2, <3>1, RingMoves
    <2>4. Newlines' = IF key = "newline" THEN Newlines \cup {producer} ELSE Newlines
      <3>1. \A i \in Index : buffer'[i] = IF i = producer THEN key ELSE buffer[i]
        BY <1>1, <1>3
      <3>2. Held \subseteq Index /\ Held' \subseteq Index
        BY DEF Held
      <3>3. Newlines = {i \in Held : buffer[i] = "newline"}
            /\ Newlines' = {i \in Held' : buffer'[i] = "newline"}
        BY DEF Newlines
      <3>4. ASSUME NEW i \in Index
            PROVE  i \in Newlines' <=> i \in Newlines \/ (key = "newline" /\ i = producer)
        BY <1>3, <2>3, <3>1, <3>3
      <3>5. Newlines \subseteq Index /\ Newlines' \subseteq Index
        BY <3>2, <3>3
      <3> HIDE DEF Newlines
      <3> QED
        BY <1>3, <3>4, <3>5
    <2>5. /\ IsFiniteSet(Held) /\ IsFiniteSet(Newlines)
          /\ Cardinality(Held) \in Nat /\ Cardinality(Newlines) \in Nat
          /\ producer \notin Newlines
      BY <1>3, <2>3, HeldIs
    <2>6. /\ Cardinality(Held \cup {producer}) = Cardinality(Held) + 1
          /\ Cardinality(Newlines \cup {producer}) = Cardinality(Newlines) + 1
          /\ IsFiniteSet(Held \cup {producer})
      BY <2>3, <2>5, FS_AddElement
    <2>7. CharsExact'
      <3> DEFINE a == One(at["req"] = "count")
      <3>1. /\ One(at["int"] = "count") = 0 /\ One(at["int"] = "back") = 0
            /\ One(at'["int"] = "count") = 1 /\ One(at'["int"] = "back") = 0
            /\ One(at'["req"] = "count") = a /\ a \in Int
        BY <1>1, <1>2 DEF One
      <3>2. num_chars = Cardinality(Held) + a - 0 - 0 /\ num_chars' = num_chars
        BY <1>1, <2>1, <3>1 DEF Exact, CharsExact, counts
      <3> HIDE DEF a
      <3>3. num_chars' = Cardinality(Held') + a - 1 - 0
        BY <2>3, <2>5, <2>6, <3>1, <3>2
      <3> QED
        BY <3>1, <3>3 DEF CharsExact
    <2>8. NewlinesExact'
      <3> DEFINE a == One(at["req"] = "count" /\ char = "newline")
                 b == IF key = "newline" THEN 1 ELSE 0
      <3>1. /\ One(at["int"] \in {"count", "line"} /\ key = "newline") = 0
            /\ One(at'["int"] \in {"count", "line"} /\ key' = "newline") = b
            /\ One(at'["req"] = "count" /\ char' = "newline") = a /\ a \in Int
        BY <1>1, <1>2 DEF One, request
      <3>2. num_newlines = Cardinality(Newlines) + a - 0 /\ num_newlines' = num_newlines
        BY <1>1, <2>1, <3>1 DEF Exact, NewlinesExact, counts
      <3>3. Cardinality(Newlines') = Cardinality(Newlines) + b
        BY <2>4, <2>5, <2>6
      <3>4. b \in Int
        OBVIOUS
      <3> HIDE DEF a, b
      <3>5. num_newlines' = Cardinality(Newlines') + a - b
        BY <2>5, <3>1, <3>2, <3>3, <3>4
      <3> QED
        BY <3>1, <3>5 DEF NewlinesExact
    <2>9. Relied'
      <3>1. Held \subseteq Held' /\ Newlines \subseteq Newlines' /\ IsFiniteSet(Held')
        BY <2>3, <2>4, <2>6
      <3>2. /\ len' = len /\ copied' = copied /\ char' = char
            /\ len - copied \in Int /\ len - copied - 1 \in Int
        BY <1>1, <1>3, RequestIs DEF request
      <3>3. at'["req"] \in {"woken", "take"} => Enough(Held', Newlines', len' - copied')
        BY <1>2, <2>1, <3>1, <3>2, EnoughGrows DEF Exact, Relied
      <3>4. at'["req"] = "count" /\ char' # "newline" => Enough(Held', Newlines', len' - copied' - 1)
        BY <1>2, <2>1, <3>1, <3>2, EnoughGrows DEF Exact, Relied
      <3> QED
        BY <1>2, <3>3, <3>4 DEF Relied
    <2> QED
      BY <2>7, <2>8, <2>9 DEF Exact
  <1> QED
    BY <1>4, <1>5, <1>6 DEF IInv

LEMMA CountCharStep ==
    ASSUME IInv, CountChar PROVE IInv'
  <1>1. /\ at["int"] = "count" /\ Goto("int", "line") /\ num_chars' = num_chars + 1
        /\ UNCHANGED <<ring, num_newlines, user_buf_len, key, request, spoiled>>
    BY DEF CountChar
  <1>2. /\ at' \in [int : IntPlaces, req : ReqPlaces]
        /\ at'["int"] = "line" /\ at'["req"] = at["req"]
    BY <1>1, GotoInt DEF IInv, IntPlaces
  <1>3. TypeOK /\ key \in Char
    BY <1>1 DEF IInv, Locals
  <1>4. TypeOK'
    BY <1>1, <1>2, <1>3 DEF TypeOK, IntPlaces, ReqPlaces, ring, request
  <1>5. Locals' /\ Tested' /\ NoMissedLine'
    BY <1>1, <1>2, <1>3, OwesTest DEF IInv, request
  <1>6. ASSUME ~spoiled' PROVE Exact'
    <2>1. Exact
      BY <1>1, <1>6 DEF IInv
    <2>2. /\ Cardinality(Held') = Cardinality(Held) /\ Cardinality(Newlines') = Cardinality(Newlines)
          /\ Cardinality(Held) \in Int
      BY <1>1, <1>3, RingKept, HeldIs DEF ring
    <2>3. CharsExact'
      <3> DEFINE a == One(at["req"] = "count")
      <3>1. /\ One(at["int"] = "count") = 1 /\ One(at["int"] = "back") = 0
            /\ One(at'["int"] = "count") = 0 /\ One(at'["int"] = "back") = 0
            /\ One(at'["req"] = "count") = a /\ a \in Int
        BY <1>1, <1>2 DEF One
      <3>2. num_chars = Cardinality(Held) + a - 1 - 0
        BY <2>1, <3>1 DEF Exact, CharsExact
      <3> HIDE DEF a
      <3>3. num_chars' = Cardinality(Held') + a - 0 - 0
        BY <1>1, <2>2, <3>1, <3>2
      <3> QED
        BY <3>1, <3>3 DEF CharsExact
    <2>4. NewlinesExact'
      <3>1. /\ One(at["int"] \in {"count", "line"} /\ key = "newline") =
               One(at'["int"] \in {"count", "line"} /\ key' = "newline")
            /\ One(at'["req"] = "count" /\ char' = "newline") = One(at["req"] = "count" /\ char = "newline")
        BY <1>1, <1>2 DEF One, request
      <3> QED
        BY <1>1, <2>1, <2>2, <3>1 DEF Exact, NewlinesExact
    <2>5. Relied'
      BY <1>1, <1>2, <2>1, ReliedKept DEF Exact, request
    <2> QED
      BY <2>3, <2>4, <2>5 DEF Exact
  <1> QED
    BY <1>4, <1>5, <1>6 DEF IInv

LEMMA CountNewlineStep ==
    ASSUME IInv, CountNewline PROVE IInv'
  <1> DEFINE b == IF key = "newline" THEN 1 ELSE 0
  <1>1. /\ at["int"] = "line" /\ Goto("int", "ready")
        /\ UNCHANGED <<ring, num_chars, user_buf_len, key, request, spoiled>>
    BY DEF CountNewline
  <1>2. num_newlines' = num_newlines + b /\ b \in Int
    BY DEF CountNewline, IInv, TypeOK
  <1>3. /\ at' \in [int : IntPlaces, req : ReqPlaces]
        /\ at'["int"] = "ready" /\ at'["req"] = at["req"]
    BY <1>1, GotoInt DEF IInv, IntPlaces
  <1>4. TypeOK /\ key \in Char
    BY <1>1 DEF IInv, Locals
  <1>5. TypeOK'
    BY <1>1, <1>2, <1>3, <1>4 DEF TypeOK, IntPlaces, ReqPlaces, ring, request
  <1>6. Locals' /\ Tested' /\ NoMissedLine'
    BY <1>1, <1>3, <1>4, OwesTest DEF IInv, request
  <1>7. ASSUME ~spoiled' PROVE Exact'
    <2>1. Exact
      BY <1>1, <1>7 DEF IInv
    <2>2. /\ Cardinality(Held') = Cardinality(Held) /\ Cardinality(Newlines') = Cardinality(Newlines)
          /\ Cardinality(Newlines) \in Int
      BY <1>1, <1>4, RingKept, HeldIs DEF ring
    <2>3. CharsExact'
      <3>1. /\ One(at["int"] = "count") = One(at'["int"] = "count")
            /\ One(at["int"] = "back") = One(at'["int"] = "back")
            /\ One(at'["req"] = "count") = One(at["req"] = "count")
        BY <1>1, <1>3 DEF One
      <3> QED
        BY <1>1, <2>1, <2>2, <3>1 DEF Exact, CharsExact
    <2>4. NewlinesExact'
      <3> DEFINE a == One(at["req"] = "count" /\ char = "newline")
      <3>1. /\ One(at["int"] \in {"count", "line"} /\ key = "newline") = b
            /\ One(at'["int"] \in {"count", "line"} /\ key' = "newline") = 0
            /\ One(at'["req"] = "count" /\ char' = "newline") = a /\ a \in Int
        BY <1>1, <1>3 DEF One, request
      <3> HIDE DEF b
      <3>2. num_newlines = Cardinality(Newlines) + a - b
        BY <2>1, <3>1 DEF Exact, NewlinesExact
      <3> HIDE DEF a
      <3>3. num_newlines' = Cardinality(Newlines') + a - 0
        BY <1>2, <2>2, <3>1, <3>2
      <3> QED
        BY <3>1, <3>3 DEF NewlinesExact
    <2>5. Relied'
      BY <1>1, <1>3, <2>1, ReliedKept DEF Exact, request
    <2> QED
      BY <2>3, <2>4, <2>5 DEF Exact
  <1> QED
    BY <1>5, <1>6, <1>7 DEF IInv

LEMMA UncountCharStep ==
    ASSUME IInv, UncountChar PROVE IInv'
  <1>1. /\ at["int"] = "erase" /\ Goto("int", "back") /\ num_chars' = num_chars - 1
        /\ UNCHANGED <<ring, num_newlines, user_buf_len, key, request>>
    BY DEF UncountChar
  <1>2. spoiled' \in BOOLEAN /\ (~spoiled' => ~spoiled)
    BY DEF UncountChar, IInv, TypeOK
  <1>3. /\ at' \in [int : IntPlaces, req : ReqPlaces]
        /\ at'["int"] = "back" /\ at'["req"] = at["req"]
    BY <1>1, GotoInt DEF IInv, IntPlaces
  <1>4. TypeOK
    BY DEF IInv
  <1>5. TypeOK'
    BY <1>1, <1>2, <1>3, <1>4 DEF TypeOK, IntPlaces, ReqPlaces, ring, request
  <1>6. Locals' /\ Tested' /\ NoMissedLine'
    BY <1>1, <1>3, OwesTest DEF IInv, request
  <1>7. ASSUME ~spoiled' PROVE Exact'
    <2>1. Exact
      BY <1>2, <1>7 DEF IInv
    <2>2. /\ Cardinality(Held') = Cardinality(Held) /\ Cardinality(Newlines') = Cardinality(Newlines)
          /\ Cardinality(Held) \in Int
      BY <1>1, <1>4, RingKept, HeldIs DEF ring
    <2>3. CharsExact'
      <3> DEFINE a == One(at["req"] = "count")
      <3>1. /\ One(at["int"] = "count") = 0 /\ One(at["int"] = "back") = 0
            /\ One(at'["int"] = "count") = 0 /\ One(at'["int"] = "back") = 1
            /\ One(at'["req"] = "count") = a /\ a \in Int
        BY <1>1, <1>3 DEF One
      <3>2. num_chars = Cardinality(Held) + a - 0 - 0
        BY <2>1, <3>1 DEF Exact, CharsExact
      <3> HIDE DEF a
      <3>3. num_chars' = Cardinality(Held') + a - 0 - 1
        BY <1>1, <2>2, <3>1, <3>2
      <3> QED
        BY <3>1, <3>3 DEF CharsExact
    <2>4. NewlinesExact'
      <3>1. /\ One(at["int"] \in {"count", "line"} /\ key = "newline") =
               One(at'["int"] \in {"count", "line"} /\ key' = "newline")
            /\ One(at'["req"] = "count" /\ char' = "newline") = One(at["req"] = "count" /\ char = "newline")
        BY <1>1, <1>3 DEF One, request
      <3> QED
        BY <1>1, <2>1, <2>2, <3>1 DEF Exact, NewlinesExact
    <2>5. Relied'
      <3>1. Held # {} /\ buffer[PrevIndex(producer)] # "newline" /\ ~Copying(at)
        BY <1>1, <2>1 DEF Exact, Relied
      <3> QED
        BY <1>1, <1>3, <2>1, <3>1, ReliedKept DEF Exact, request
    <2> QED
      BY <2>3, <2>4, <2>5 DEF Exact
  <1> QED
    BY <1>5, <1>6, <1>7 DEF IInv

(* The character taken back was in the ring and is no newline.              *)
LEMMA BackStep ==
    ASSUME IInv, Back PROVE IInv'
  <1>1. /\ at["int"] = "back" /\ Goto("int", "ready") /\ producer' = PrevIndex(producer)
        /\ UNCHANGED <<consumer, buffer, counts, user_buf_len, key, request, spoiled>>
    BY DEF Back
  <1>2. /\ at' \in [int : IntPlaces, req : ReqPlaces]
        /\ at'["int"] = "ready" /\ at'["req"] = at["req"]
    BY <1>1, GotoInt DEF IInv, IntPlaces
  <1>3. TypeOK /\ producer \in Index /\ consumer \in Index
    BY DEF IInv, TypeOK
  <1>4. TypeOK'
    BY <1>1, <1>2, <1>3, IndexValues DEF TypeOK, IntPlaces, ReqPlaces, counts, request
  <1>5. Locals' /\ Tested' /\ NoMissedLine'
    BY <1>1, <1>2, OwesTest DEF IInv, request
  <1>6. ASSUME ~spoiled' PROVE Exact'
    <2> DEFINE q == PrevIndex(producer)
    <2>1. Exact
      BY <1>1, <1>6 DEF IInv
    <2>2. Held # {} /\ buffer[q] # "newline" /\ ~Copying(at)
      BY <1>1, <2>1 DEF Exact, Relied
    <2>3. Held' = Held \ {q} /\ q \in Held
      <3>1. /\ Held = HeldBy(consumer, producer)
            /\ Held' = HeldBy(consumer', producer')
        BY <1>3, <1>4, HeldIs, RingSlot DEF TypeOK, Held, HeldBy
      <3> QED
        BY <1>1, <1>3, <2>2, <3>1, RingMoves
    <2>4. Newlines' = Newlines
      <3>1. Newlines = {i \in Held : buffer[i] = "newline"}
            /\ Newlines' = {i \in Held' : buffer[i] = "newline"}
        BY <1>1 DEF Newlines
      <3> QED
        BY <2>2, <2>3, <3>1
    <2>5. IsFiniteSet(Held) /\ Cardinality(Held) \in Nat
      BY <1>3, HeldIs
    <2>6. Cardinality(Held \ {q}) = Cardinality(Held) - 1
      BY <2>3, <2>5, FS_RemoveElement
    <2>7. CharsExact'
      <3> DEFINE a == One(at["req"] = "count")
      <3>1. /\ One(at["int"] = "count") = 0 /\ One(at["int"] = "back") = 1
            /\ One(at'["int"] = "count") = 0 /\ One(at'["int"] = "back") = 0
            /\ One(at'["req"] = "count") = a /\ a \in Int
        BY <1>1, <1>2 DEF One
      <3>2. num_chars = Cardinality(Held) + a - 0 - 1 /\ num_chars' = num_chars
        BY <1>1, <2>1, <3>1 DEF Exact, CharsExact, counts
      <3> HIDE DEF a, q
      <3>3. num_chars' = Cardinality(Held') + a - 0 - 0
        BY <2>3, <2>5, <2>6, <3>1, <3>2
      <3> QED
        BY <3>1, <3>3 DEF CharsExact
    <2>8. NewlinesExact'
      <3>1. /\ One(at["int"] \in {"count", "line"} /\ key = "newline") =
               One(at'["int"] \in {"count", "line"} /\ key' = "newline")
            /\ One(at'["req"] = "count" /\ char' = "newline") = One(at["req"] = "count" /\ char = "newline")
        BY <1>1, <1>2 DEF One, request
      <3> QED
        BY <1>1, <2>1, <2>4, <3>1 DEF Exact, NewlinesExact, counts
    <2>9. Relied'
      BY <1>2, <2>2 DEF Relied, Copying
    <2> QED
      BY <2>7, <2>8, <2>9 DEF Exact
  <1> QED
    BY <1>4, <1>5, <1>6 DEF IInv

(* The test at the end: a request that could go on does.                    *)
LEMMA SignalStep ==
    ASSUME IInv, Signal PROVE IInv'
  <1> DEFINE x == IF ReadlineReady /\ at["req"] = "wait" THEN "woken" ELSE at["req"]
  <1>1. /\ at["int"] = "ready" /\ at["req"] # "test"
        /\ user_buf_len' = IF ReadlineReady THEN 0 ELSE user_buf_len
        /\ at' = [int |-> "idle", req |-> x]
        /\ UNCHANGED <<ring, counts, key, request, spoiled>>
    BY DEF Signal, Signalled
  <1>2. /\ TypeOK /\ at["req"] \in ReqPlaces /\ len \in Length /\ user_buf_len \in Length
        /\ len \in Int /\ num_chars \in Int /\ num_newlines \in Int /\ 0 \in Length
    BY LengthIs DEF IInv, TypeOK, ReqPlaces
  <1>3. x \in ReqPlaces
    BY <1>2 DEF ReqPlaces
  <1>4. /\ at' \in [int : IntPlaces, req : ReqPlaces]
        /\ at'["int"] = "idle" /\ at'["req"] = x
    BY <1>1, <1>3 DEF IntPlaces
  <1>5. TypeOK'
    <2>1. user_buf_len' \in Length
      BY <1>1, <1>2
    <2> QED
      BY <1>1, <1>2, <1>4, <2>1 DEF TypeOK, IntPlaces, ReqPlaces, ring, counts, request
  <1>6. x = "wait" => /\ at["req"] = "wait" /\ ~ReadlineReady /\ user_buf_len = len
                      /\ user_buf_len' = len
    BY <1>1 DEF IInv, Locals
  <1>7. x = "wait" => ~(len # 0 /\ (num_newlines > 0 \/ num_chars >= len))
    BY <1>2, <1>6 DEF ReadlineReady
  <1>8. x = "woken" /\ at["req"] # "woken" =>
            at["req"] = "wait" /\ (num_newlines > 0 \/ num_chars >= len)
    BY DEF ReadlineReady, IInv, Locals
  <1>9. x # "test" /\ (x = at["req"] \/ (x = "woken" /\ at["req"] = "wait"))
    BY <1>1
  <1> HIDE DEF x
  <1>10. Locals'
    BY <1>1, <1>4, <1>6, <1>9 DEF IInv, Locals, request
  <1>11. Tested' /\ NoMissedLine'
    BY <1>1, <1>4, <1>7, <1>9 DEF Tested, NoMissedLine, counts, request
  <1>12. ASSUME ~spoiled' PROVE Exact'
    <2>1. Exact
      BY <1>1, <1>12 DEF IInv
    <2>2. CharsExact' /\ NewlinesExact'
      BY <1>1, <1>2, <1>4, <1>9, <2>1, ExactCounts DEF Exact, One, request
    <2>3. /\ Held' = Held /\ Newlines' = Newlines
          /\ len' = len /\ copied' = copied /\ char' = char
      BY <1>1, RingKept DEF ring, request
    <2>4. ASSUME x = "woken", at["req"] # "woken" PROVE Enough(Held, Newlines, len - copied)
      <3>1. /\ One(at["req"] = "count") = 0 /\ One(at["int"] = "count") = 0
            /\ One(at["int"] = "back") = 0 /\ One(at["req"] = "count" /\ char = "newline") = 0
            /\ One(at["int"] \in {"count", "line"} /\ key = "newline") = 0
        BY <1>1, <1>8, <2>4 DEF One
      <3>2. num_chars = Cardinality(Held) + 0 - 0 - 0 /\ num_newlines = Cardinality(Newlines) + 0 - 0
        BY <2>1, <3>1 DEF Exact, CharsExact, NewlinesExact
      <3>3. /\ Cardinality(Held) \in Nat /\ Cardinality(Newlines) \in Nat
            /\ Cardinality(Newlines) = 0 <=> Newlines = {}
        BY <1>2, HeldIs
      <3>4. CASE num_newlines > 0
        BY <3>2, <3>3, <3>4 DEF Enough
      <3>5. CASE num_chars >= len
        <4>1. copied \in Nat
          BY <1>2 DEF TypeOK
        <4>2. Cardinality(Held) >= len - copied
          BY <1>2, <3>2, <3>3, <3>5, <4>1
        <4> QED
          BY <4>2 DEF Enough
      <3> QED
        BY <1>8, <2>4, <3>4, <3>5
    <2>5. Relied'
      BY <1>4, <1>9, <2>1, <2>3, <2>4 DEF Exact, Relied
    <2> QED
      BY <2>2, <2>5 DEF Exact
  <1> QED
    BY <1>5, <1>10, <1>11, <1>12 DEF IInv

-----------------------------------------------------------------------------
(* The request loop.                                                        *)

LEMMA HandleRequestStep ==
    ASSUME IInv, NEW n \in Length, HandleRequest(n) PROVE IInv'
  <1> DEFINE x == IF num_chars < n THEN "test" ELSE StartCopy(n)
  <1>1. /\ at["req"] = "idle" /\ len' = n /\ copied' = 0 /\ Goto("req", x)
        /\ UNCHANGED <<ring, counts, user_buf_len, key, char>>
    BY DEF HandleRequest
  <1>2. spoiled' \in BOOLEAN /\ (~spoiled' => ~spoiled /\ ~Spoils)
    BY DEF HandleRequest, IInv, TypeOK
  <1>3. /\ TypeOK /\ num_chars \in Int /\ n \in Int /\ MaxLen \in Nat \ {0}
        /\ x \in {"test", "take", "idle"} /\ x \in ReqPlaces
        /\ x = "test" => num_chars < n
        /\ x = "take" => ~(num_chars < n) /\ 0 < n
    BY ReadlineConstants, LengthIs DEF IInv, TypeOK, ReqPlaces, StartCopy
  <1> HIDE DEF x
  <1>4. /\ at' \in [int : IntPlaces, req : ReqPlaces]
        /\ at'["req"] = x /\ at'["int"] = at["int"]
    BY <1>1, <1>3, GotoReq
  <1>5. TypeOK'
    <2>1. 0 \in 0 .. MaxLen - 1
      BY <1>3
    <2> QED
      BY <1>1, <1>2, <1>3, <1>4, <2>1 DEF TypeOK, IntPlaces, ReqPlaces, ring, counts
  <1>6. Locals'
    BY <1>1, <1>3, <1>4 DEF IInv, Locals
  <1>7. Tested' /\ NoMissedLine'
    BY <1>1, <1>3, <1>4 DEF Tested, NoMissedLine, counts
  <1>8. ASSUME ~spoiled' PROVE Exact'
    <2>1. Exact /\ (x = "take" => at["int"] \notin {"erase", "back"})
      BY <1>2, <1>4, <1>8 DEF IInv, Spoils, Copying
    <2>2. CharsExact' /\ NewlinesExact'
      BY <1>1, <1>3, <1>4, <2>1, ExactCounts DEF Exact, One
    <2>3. /\ Held' = Held /\ Newlines' = Newlines /\ (HasRoom' <=> HasRoom)
          /\ buffer'[PrevIndex(producer')] = buffer[PrevIndex(producer)]
      BY <1>1, RingKept DEF ring
    <2>4. ASSUME x = "take" PROVE Enough(Held, Newlines, n - 0)
      <3> DEFINE b == One(at["int"] = "count")
      <3>1. /\ One(at["req"] = "count") = 0 /\ One(at["int"] = "back") = 0 /\ b \in Nat
        BY <1>1, <2>1, <2>4 DEF One
      <3>2. num_chars = Cardinality(Held) + 0 - b - 0 /\ Cardinality(Held) \in Nat
        BY <1>3, <2>1, <3>1, HeldIs DEF Exact, CharsExact
      <3> HIDE DEF b
      <3>3. Cardinality(Held) >= n - 0
        BY <1>3, <2>4, <3>1, <3>2
      <3> QED
        BY <3>3 DEF Enough
    <2>5. Relied'
      BY <1>1, <1>3, <1>4, <2>1, <2>3, <2>4 DEF Exact, Relied, Copying
    <2> QED
      BY <2>2, <2>5 DEF Exact
  <1> QED
    BY <1>5, <1>6, <1>7, <1>8 DEF IInv

LEMMA TestNewlinesStep ==
    ASSUME IInv, TestNewlines PROVE IInv'
  <1> DEFINE x == IF num_newlines = 0 THEN "wait" ELSE StartCopy(len)
  <1>1. /\ at["req"] = "test" /\ Goto("req", x)
        /\ user_buf_len' = IF num_newlines = 0 THEN len ELSE user_buf_len
        /\ UNCHANGED <<ring, counts, key, request>>
    BY DEF TestNewlines
  <1>2. spoiled' \in BOOLEAN /\ (~spoiled' => ~spoiled /\ ~Spoils /\ ~(num_newlines < 0))
    BY DEF TestNewlines, IInv, TypeOK
  <1>3. /\ TypeOK /\ num_chars \in Int /\ num_newlines \in Int /\ len \in Length /\ len \in Int
        /\ x \in {"wait", "take", "idle"} /\ (x = "wait" <=> num_newlines = 0) /\ x \in ReqPlaces
        /\ x = "take" => 0 < len
    BY LengthIs DEF IInv, TypeOK, ReqPlaces, StartCopy
  <1> HIDE DEF x
  <1>4. /\ at' \in [int : IntPlaces, req : ReqPlaces]
        /\ at'["req"] = x /\ at'["int"] = at["int"]
    BY <1>1, <1>3, GotoReq
  <1>5. TypeOK'
    <2>1. user_buf_len' \in Length
      BY <1>1, <1>3 DEF TypeOK
    <2> QED
      BY <1>1, <1>2, <1>3, <1>4, <2>1 DEF TypeOK, IntPlaces, ReqPlaces, ring, counts, request
  <1>6. Locals'
    BY <1>1, <1>3, <1>4 DEF IInv, Locals, request
  <1>7. Tested' /\ NoMissedLine'
    <2>1. x = "wait" /\ at["int"] = "idle" => ~(num_newlines > 0 \/ num_chars >= len)
      BY <1>1, <1>3 DEF IInv, Tested
    <2> QED
      BY <1>1, <1>3, <1>4, <2>1 DEF Tested, NoMissedLine, counts, request
  <1>8. ASSUME ~spoiled' PROVE Exact'
    <2>1. Exact /\ (x = "take" => at["int"] \notin {"erase", "back"}) /\ ~(num_newlines < 0)
      BY <1>2, <1>4, <1>8 DEF IInv, Spoils, Copying
    <2>2. CharsExact' /\ NewlinesExact'
      BY <1>1, <1>3, <1>4, <2>1, ExactCounts DEF Exact, One, request
    <2>3. /\ Held' = Held /\ Newlines' = Newlines /\ (HasRoom' <=> HasRoom)
          /\ buffer'[PrevIndex(producer')] = buffer[PrevIndex(producer)]
      BY <1>1, RingKept DEF ring
    <2>4. ASSUME x = "take" PROVE Newlines # {}
      <3> DEFINE b == One(at["int"] \in {"count", "line"} /\ key = "newline")
      <3>1. /\ One(at["req"] = "count" /\ char = "newline") = 0 /\ b \in Nat
        BY <1>1 DEF One
      <3>2. num_newlines = Cardinality(Newlines) + 0 - b
        BY <2>1, <3>1 DEF Exact, NewlinesExact
      <3>3. /\ Cardinality(Newlines) \in Nat
            /\ Cardinality(Newlines) = 0 <=> Newlines = {}
        BY <1>3, HeldIs
      <3> HIDE DEF b
      <3> QED
        BY <1>3, <2>1, <2>4, <3>1, <3>2, <3>3
    <2>5. Relied'
      BY <1>1, <1>3, <1>4, <2>1, <2>3, <2>4 DEF Exact, Relied, Copying, Enough
    <2> QED
      BY <2>2, <2>5 DEF Exact
  <1> QED
    BY <1>5, <1>6, <1>7, <1>8 DEF IInv

LEMMA WakeStep ==
    ASSUME IInv, Wake PROVE IInv'
  <1> DEFINE x == StartCopy(len)
  <1>1. /\ at["req"] = "woken" /\ Goto("req", x)
        /\ UNCHANGED <<ring, counts, user_buf_len, key, request, spoiled>>
    BY DEF Wake
  <1>2. /\ TypeOK /\ x \in {"take", "idle"} /\ x \in ReqPlaces /\ (x = "take" => 0 < len)
    BY DEF IInv, StartCopy, ReqPlaces
  <1> HIDE DEF x
  <1>3. /\ at' \in [int : IntPlaces, req : ReqPlaces]
        /\ at'["req"] = x /\ at'["int"] = at["int"]
    BY <1>1, <1>2, GotoReq
  <1>4. TypeOK'
    BY <1>1, <1>2, <1>3 DEF TypeOK, IntPlaces, ReqPlaces, ring, counts, request
  <1>5. Locals' /\ Tested' /\ NoMissedLine'
    BY <1>1, <1>2, <1>3 DEF IInv, Locals, Tested, NoMissedLine, request
  <1>6. ASSUME ~spoiled' PROVE Exact'
    <2>1. Exact
      BY <1>1, <1>6 DEF IInv
    <2>2. CharsExact' /\ NewlinesExact'
      BY <1>1, <1>2, <1>3, <2>1, ExactCounts DEF Exact, One, request
    <2>3. /\ Held' = Held /\ Newlines' = Newlines /\ (HasRoom' <=> HasRoom)
          /\ len' = len /\ copied' = copied
      BY <1>1, RingKept DEF ring, request
    <2>4. at["int"] \notin {"erase", "back"}
      BY <1>1, <2>1 DEF Exact, Relied, Copying
    <2>5. Relied'
      BY <1>1, <1>2, <1>3, <2>1, <2>3, <2>4 DEF Exact, Relied
    <2> QED
      BY <2>2, <2>5 DEF Exact
  <1> QED
    BY <1>4, <1>5, <1>6 DEF IInv

(* The character copied was in the ring.                                    *)
LEMMA TakeStep ==
    ASSUME IInv, Take PROVE IInv'
  <1>1. /\ at["req"] = "take" /\ Goto("req", "count")
        /\ char' = buffer[consumer] /\ consumer' = NextIndex(consumer)
        /\ UNCHANGED <<producer, buffer, counts, user_buf_len, key, len, copied, spoiled>>
    BY DEF Take
  <1>2. /\ TypeOK /\ producer \in Index /\ consumer \in Index /\ buffer \in [Index -> Char]
        /\ len \in Int /\ copied \in Int /\ copied < len
    BY <1>1, RequestIs DEF IInv, TypeOK, Locals
  <1>3. /\ at' \in [int : IntPlaces, req : ReqPlaces]
        /\ at'["req"] = "count" /\ at'["int"] = at["int"]
    BY <1>1, <1>2, GotoReq DEF ReqPlaces
  <1>4. TypeOK'
    BY <1>1, <1>2, <1>3, IndexValues DEF TypeOK, IntPlaces, ReqPlaces, counts
  <1>5. Locals' /\ Tested' /\ NoMissedLine'
    BY <1>1, <1>3 DEF IInv, Locals, Tested, NoMissedLine
  <1>6. ASSUME ~spoiled' PROVE Exact'
    <2>1. Exact /\ Enough(Held, Newlines, len - copied) /\ at["int"] \notin {"erase", "back"}
      BY <1>1, <1>6 DEF IInv, Exact, Relied, Copying
    <2>2. /\ Newlines \subseteq Held /\ IsFiniteSet(Held) /\ IsFiniteSet(Newlines)
          /\ Cardinality(Held) \in Nat /\ Cardinality(Newlines) \in Nat
          /\ Cardinality(Held) = 0 <=> Held = {}
      BY <1>2, HeldIs
    <2>3. Held # {}
      BY <1>2, <2>1, <2>2 DEF Enough
    <2>4. /\ Held' = Held \ {consumer} /\ consumer \in Held
          /\ NextIndex(producer) # consumer'
      <3>1. /\ Held = HeldBy(consumer, producer)
            /\ Held' = HeldBy(consumer', producer')
        BY <1>2, <1>4, HeldIs, RingSlot DEF TypeOK, Held, HeldBy
      <3> QED
        BY <1>1, <1>2, <2>3, <3>1, RingMoves
    <2>5. /\ Newlines' = Newlines \ {consumer}
          /\ consumer \in Newlines <=> char' = "newline"
      <3>1. Newlines = {i \in Held : buffer[i] = "newline"}
            /\ Newlines' = {i \in Held' : buffer[i] = "newline"}
        BY <1>1 DEF Newlines
      <3> QED
        BY <1>1, <2>4, <3>1
    <2>6. /\ Cardinality(Held \ {consumer}) = Cardinality(Held) - 1
          /\ Cardinality(Newlines \ {consumer}) =
                 IF char' = "newline" THEN Cardinality(Newlines) - 1 ELSE Cardinality(Newlines)
      <3>1. Cardinality(Held \ {consumer}) = Cardinality(Held) - 1
        BY <2>2, <2>4, FS_RemoveElement
      <3>2. Cardinality(Newlines \ {consumer}) =
                IF consumer \in Newlines THEN Cardinality(Newlines) - 1 ELSE Cardinality(Newlines)
        BY <2>2, FS_RemoveElement
      <3> QED
        BY <2>5, <3>1, <3>2
    <2>7. CharsExact'
      <3> DEFINE a == One(at["int"] = "count")
                 b == One(at["int"] = "back")
      <3>1. /\ One(at["req"] = "count") = 0 /\ One(at'["req"] = "count") = 1
            /\ One(at'["int"] = "count") = a /\ One(at'["int"] = "back") = b
            /\ a \in Int /\ b \in Int
        BY <1>1, <1>3 DEF One
      <3>2. num_chars = Cardinality(Held) + 0 - a - b /\ num_chars' = num_chars
        BY <1>1, <2>1, <3>1 DEF Exact, CharsExact, counts
      <3> HIDE DEF a, b
      <3>3. num_chars' = Cardinality(Held') + 1 - a - b
        BY <2>2, <2>4, <2>6, <3>1, <3>2
      <3> QED
        BY <3>1, <3>3 DEF CharsExact
    <2>8. NewlinesExact'
      <3> DEFINE a == One(at["int"] \in {"count", "line"} /\ key = "newline")
                 b == IF char' = "newline" THEN 1 ELSE 0
      <3>1. /\ One(at["req"] = "count" /\ char = "newline") = 0
            /\ One(at'["req"] = "count" /\ char' = "newline") = b
            /\ One(at'["int"] \in {"count", "line"} /\ key' = "newline") = a
            /\ a \in Int /\ b \in Int
        BY <1>1, <1>3 DEF One
      <3>2. num_newlines = Cardinality(Newlines) + 0 - a /\ num_newlines' = num_newlines
        BY <1>1, <2>1, <3>1 DEF Exact, NewlinesExact, counts
      <3>3. Cardinality(Newlines') = Cardinality(Newlines) - b
        BY <2>2, <2>5, <2>6
      <3> HIDE DEF a, b
      <3>4. num_newlines' = Cardinality(Newlines') + b - a
        BY <2>2, <3>1, <3>2, <3>3
      <3> QED
        BY <3>1, <3>4 DEF NewlinesExact
    <2>9. Relied'
      <3>1. ASSUME char' # "newline" PROVE Enough(Held', Newlines', len' - copied' - 1)
        <4>1. Newlines' = Newlines
          BY <2>5, <3>1
        <4>2. CASE Newlines # {}
          BY <4>1, <4>2 DEF Enough
        <4>3. CASE Cardinality(Held) >= len - copied
          <5>1. Cardinality(Held') >= len - copied - 1
            BY <1>2, <2>2, <2>4, <2>6, <4>3
          <5> QED
            BY <1>1, <5>1 DEF Enough
        <4> QED
          BY <2>1, <4>2, <4>3 DEF Enough
      <3> QED
        BY <1>1, <1>3, <2>1, <2>4, <3>1 DEF Relied, HasRoom
    <2> QED
      BY <2>7, <2>8, <2>9 DEF Exact
  <1> QED
    BY <1>4, <1>5, <1>6 DEF IInv

(* The turn of the copying that ends at a newline, or when the line is full. *)
LEMMA UncountTakenStep ==
    ASSUME IInv, UncountTaken PROVE IInv'
  <1> DEFINE last == char = "newline" \/ copied + 1 = len
             x == IF last THEN "idle" ELSE "take"
  <1>1. /\ at["req"] = "count" /\ Goto("req", x)
        /\ num_chars' = num_chars - 1
        /\ num_newlines' = IF char = "newline" THEN num_newlines - 1 ELSE num_newlines
        /\ copied' = IF last THEN 0 ELSE copied + 1
        /\ UNCHANGED <<ring, user_buf_len, key, len, char, spoiled>>
    BY DEF UncountTaken
  <1>2. /\ TypeOK /\ num_chars \in Int /\ num_newlines \in Int
        /\ len \in Int /\ len <= MaxLen /\ MaxLen \in Nat \ {0}
        /\ copied \in 0 .. MaxLen - 1 /\ copied < len
        /\ x \in {"idle", "take"} /\ (x = "take" <=> ~last) /\ x \in ReqPlaces
    BY <1>1, ReadlineConstants, RequestIs DEF IInv, TypeOK, Locals, ReqPlaces
  <1>3. /\ x = "take" => char # "newline" /\ copied' = copied + 1 /\ copied + 1 < len
        /\ x = "idle" => copied' = 0
        /\ copied' \in 0 .. MaxLen - 1
    BY <1>1, <1>2
  <1> HIDE DEF x, last
  <1>4. /\ at' \in [int : IntPlaces, req : ReqPlaces]
        /\ at'["req"] = x /\ at'["int"] = at["int"]
    BY <1>1, <1>2, GotoReq
  <1>5. TypeOK'
    <2>1. num_chars' \in Int /\ num_newlines' \in Int
      BY <1>1, <1>2
    <2> QED
      BY <1>1, <1>2, <1>3, <1>4, <2>1 DEF TypeOK, IntPlaces, ReqPlaces, ring
  <1>6. Locals' /\ Tested' /\ NoMissedLine'
    BY <1>1, <1>2, <1>3, <1>4 DEF IInv, Locals, Tested, NoMissedLine
  <1>7. ASSUME ~spoiled' PROVE Exact'
    <2>1. /\ Exact /\ at["int"] \notin {"erase", "back"}
          /\ char # "newline" => Enough(Held, Newlines, len - copied - 1)
      BY <1>1, <1>7 DEF IInv, Exact, Relied, Copying
    <2>2. /\ Held' = Held /\ Newlines' = Newlines /\ (HasRoom' <=> HasRoom)
          /\ Cardinality(Held') = Cardinality(Held)
          /\ Cardinality(Newlines') = Cardinality(Newlines)
          /\ Cardinality(Held) \in Nat /\ Cardinality(Newlines) \in Nat
      BY <1>1, <1>2, RingKept, HeldIs DEF ring
    <2>3. CharsExact'
      <3> DEFINE a == One(at["int"] = "count")
                 b == One(at["int"] = "back")
      <3>1. /\ One(at["req"] = "count") = 1 /\ One(at'["req"] = "count") = 0
            /\ One(at'["int"] = "count") = a /\ One(at'["int"] = "back") = b
            /\ a \in Int /\ b \in Int
        BY <1>1, <1>2, <1>4 DEF One
      <3>2. num_chars = Cardinality(Held) + 1 - a - b
        BY <2>1, <3>1 DEF Exact, CharsExact
      <3> HIDE DEF a, b
      <3>3. num_chars' = Cardinality(Held') + 0 - a - b
        BY <1>1, <2>2, <3>1, <3>2
      <3> QED
        BY <3>1, <3>3 DEF CharsExact
    <2>4. NewlinesExact'
      <3> DEFINE a == One(at["int"] \in {"count", "line"} /\ key = "newline")
                 b == IF char = "newline" THEN 1 ELSE 0
      <3>1. /\ One(at["req"] = "count" /\ char = "newline") = b
            /\ One(at'["req"] = "count" /\ char' = "newline") = 0
            /\ One(at'["int"] \in {"count", "line"} /\ key' = "newline") = a
            /\ a \in Int /\ b \in Int
        BY <1>1, <1>2, <1>4 DEF One
      <3>2. num_newlines = Cardinality(Newlines) + b - a
        BY <2>1, <3>1 DEF Exact, NewlinesExact
      <3>3. num_newlines' = num_newlines - b
        BY <1>1, <1>2
      <3> HIDE DEF a, b
      <3>4. num_newlines' = Cardinality(Newlines') + 0 - a
        BY <2>2, <3>1, <3>2, <3>3
      <3> QED
        BY <3>1, <3>4 DEF NewlinesExact
    <2>5. x = "take" => Enough(Held, Newlines, len - (copied + 1))
      <3>1. len - (copied + 1) = len - copied - 1
        BY <1>2
      <3> QED
        BY <1>3, <2>1, <3>1
    <2>6. Relied'
      BY <1>1, <1>2, <1>3, <1>4, <2>1, <2>2, <2>5 DEF Exact, Relied
    <2> QED
      BY <2>3, <2>4, <2>6 DEF Exact
  <1> QED
    BY <1>5, <1>6, <1>7 DEF IInv

-----------------------------------------------------------------------------
(* IInv is inductive.                                                       *)
LEMMA Inductive == IInv /\ [Next]_vars => IInv'
  <1> SUFFICES ASSUME IInv, [Next]_vars PROVE IInv'
    OBVIOUS
  <1>1. CASE \E c \in Key : HandleChar(c)
    BY <1>1, HandleCharStep
  <1>2. CASE \E n \in Length : HandleRequest(n)
    BY <1>2, HandleRequestStep
  <1>3. CASE Interrupt
    BY <1>3, FindRoomStep, PutStep, CountCharStep, CountNewlineStep, FindCharStep,
       UncountCharStep, BackStep, SignalStep DEF Interrupt
  <1>4. CASE Serve
    BY <1>4, TestNewlinesStep, WakeStep, TakeStep, UncountTakenStep DEF Serve
  <1>5. CASE UNCHANGED vars
    BY <1>5 DEF IInv, TypeOK, Locals, Tested, NoMissedLine, Exact, CharsExact, NewlinesExact,
       Relied, Held, Newlines, HasRoom, Copying, vars, ring, counts, request
  <1> QED
    BY <1>1, <1>2, <1>3, <1>4, <1>5 DEF Next

(* In every reachable state, for requests of any length, the two threads    *)
(* keep what they rely on: what is behind TypeOK, NoMissedLine and, as long *)
(* as nothing has spoiled it, CountsExact.                                  *)
THEOREM Invariance == Spec => []IInv
  BY Initially, Inductive, PTL DEF Spec

(* The indices stay in the ring, however the two threads interleave, and no *)
(* request copies more than READLINE_MAX_LEN characters.                    *)
THEOREM TypeCorrect == Spec => []TypeOK
  <1>1. IInv => TypeOK
    BY DEF IInv
  <1> QED
    BY <1>1, Invariance, PTL

(* A request that waits in cond_wait while there is what it waits for will  *)
(* be woken, whatever the races have done to the counts: the interrupt loop *)
(* has yet to come to readline_ready. It holds for every length a client    *)
(* may send, negative ones included, but 0.                                 *)
THEOREM LinesNotMissed == Spec => []NoMissedLine
  <1>1. IInv => NoMissedLine
    BY DEF IInv
  <1> QED
    BY <1>1, Invariance, PTL

(* But for the three races that CountsExact names, num_chars and num_newlines *)
(* are those of the ring, whatever the interleaving of handle_char and      *)
(* handle_request, and a request only copies characters that were typed.    *)
THEOREM CountsAreExact == Spec => []CountsExact
  <1>1. IInv => CountsExact
    <2> SUFFICES ASSUME IInv, ~spoiled PROVE Exact /\ (at["req"] = "take" => Held # {})
      BY DEF CountsExact, Exact, CharsExact, NewlinesExact
    <2>1. Exact
      BY DEF IInv
    <2>2. ASSUME at["req"] = "take" PROVE Held # {}
      <3>1. /\ Enough(Held, Newlines, len - copied) /\ copied < len
            /\ len \in Int /\ copied \in Int
        BY <2>1, <2>2, RequestIs DEF IInv, Locals, Exact, Relied
      <3>2. /\ Newlines \subseteq Held
            /\ Cardinality(Held) \in Nat /\ (Cardinality(Held) = 0 <=> Held = {})
        BY HeldIs DEF IInv
      <3> QED
        BY <3>1, <3>2 DEF Enough
    <2> QED
      BY <2>1, <2>2
  <1> QED
    BY <1>1, Invariance, PTL
=============================================================================

-------------------------- MODULE StreamingProofs ---------------------------
(***************************************************************************)
(* Theorems about the streams: for any scripts, any reads and any chunk    *)
(* size, a stream is passed on unaltered, recorded honestly and replayed   *)
(* whole.                                                                  *)
(***************************************************************************)
EXTENDS Streaming, ProofLemmas, SequenceTheorems, FiniteSetTheorems, TLAPS

StreamStages == {"open", "reading", "yielded", "record", "keep", "over"}
Errors == {"none", "provider_error", "transport"}
Statuses == {200, 400, 502}

\* The bytes after the m-th up to the n-th.
Bytes(m, n) == [i \in 1 .. n - m |-> m + i]

-----------------------------------------------------------------------------
(* Bytes and events.                                                        *)

LEMMA BytesAreASequence ==
    ASSUME NEW m \in Int, NEW n \in Int, m <= n
    PROVE  /\ Bytes(m, n) \in Seq(Int) /\ Len(Bytes(m, n)) = n - m /\ DOMAIN Bytes(m, n) = 1 .. n - m
           /\ \A i \in 1 .. n - m : Bytes(m, n)[i] = m + i
           /\ m = n => Bytes(m, n) = <<>>
<1>1. n - m \in Nat
  OBVIOUS
<1>2. Bytes(m, n) \in [1 .. n - m -> Int]
  BY DEF Bytes
<1>3. Bytes(m, n) \in Seq(Int) /\ Len(Bytes(m, n)) = n - m
  BY <1>1, <1>2
<1>4. m = n => Len(Bytes(m, n)) = 0
  BY <1>3
<1>5. QED BY <1>3, <1>4 DEF Bytes

\* A sequence that has the bytes of a run is the run.
LEMMA ARunOfBytes ==
    ASSUME NEW m \in Int, NEW n \in Int, m <= n, NEW s \in Seq(Int), Len(s) = n - m,
           \A i \in 1 .. n - m : s[i] = m + i
    PROVE  s = Bytes(m, n)
<1>1. Len(Bytes(m, n)) = Len(s) /\ Bytes(m, n) \in Seq(Int)
  BY BytesAreASequence
<1>2. \A i \in 1 .. Len(s) : s[i] = Bytes(m, n)[i]
  BY BytesAreASequence
<1>3. QED BY <1>1, <1>2, SeqEqual

LEMMA RunsJoin ==
    ASSUME NEW a \in Int, NEW b \in Int, NEW c \in Int, a <= b, b <= c
    PROVE  Bytes(a, b) \o Bytes(b, c) = Bytes(a, c)
<1>1. PICK x \in Seq(Int) : x = Bytes(a, b) /\ Len(x) = b - a /\ \A i \in 1 .. b - a : x[i] = a + i
  BY BytesAreASequence
<1>2. PICK y \in Seq(Int) : y = Bytes(b, c) /\ Len(y) = c - b /\ \A i \in 1 .. c - b : y[i] = b + i
  BY BytesAreASequence
<1>3. PICK s : s = x \o y
  OBVIOUS
<1>4. s \in Seq(Int) /\ Len(s) = c - a
  <2>1. s \in Seq(Int)
    BY <1>3
  <2>2. Len(s) = Len(x) + Len(y)
    BY <1>3
  <2>3. QED BY <1>1, <1>2, <2>1, <2>2
<1>5. ASSUME NEW i \in 1 .. c - a PROVE s[i] = a + i
  <2>1. CASE i <= b - a
    BY <1>1, <1>2, <1>3, <2>1
  <2>2. CASE i > b - a
    <3>1. i - Len(x) \in 1 .. Len(y) /\ i \in 1 .. Len(x) + Len(y) /\ ~(i <= Len(x))
      BY <1>1, <1>2, <2>2
    <3>2. s[i] = y[i - Len(x)]
      BY <1>3, <3>1
    <3>3. QED BY <1>1, <1>2, <3>1, <3>2
  <2>3. QED BY <2>1, <2>2
<1>6. a <= c
  OBVIOUS
<1>7. s = Bytes(a, c)
  BY <1>4, <1>5, <1>6, ARunOfBytes
<1>8. QED BY <1>1, <1>2, <1>3, <1>7

LEMMA RunsAreCut ==
    ASSUME NEW a \in Int, NEW b \in Int, NEW c \in Int, a <= b, b <= c
    PROVE  /\ SubSeq(Bytes(a, c), 1, b - a) = Bytes(a, b)
           /\ SubSeq(Bytes(a, c), (b - a) + 1, Len(Bytes(a, c))) = Bytes(b, c)
<1> DEFINE s == Bytes(a, c)
<1>0. a <= c
  OBVIOUS
<1>1. s \in Seq(Int) /\ Len(s) = c - a /\ \A i \in 1 .. c - a : s[i] = a + i
  BY <1>0, BytesAreASequence
<1>2. b - a \in Nat /\ b - a <= c - a
  OBVIOUS
<1> HIDE DEF s
<1>3. SubSeq(s, 1, b - a) = Bytes(a, b)
  <2>1. /\ SubSeq(s, 1, b - a) \in Seq(Int) /\ Len(SubSeq(s, 1, b - a)) = b - a
        /\ \A i \in 1 .. b - a : SubSeq(s, 1, b - a)[i] = s[i]
    BY <1>1, <1>2
  <2>2. \A i \in 1 .. b - a : SubSeq(s, 1, b - a)[i] = a + i
    BY <1>1, <1>2, <2>1
  <2>3. QED BY <2>1, <2>2, ARunOfBytes
<1>4. SubSeq(s, (b - a) + 1, Len(s)) = Bytes(b, c)
  <2> DEFINE r == SubSeq(s, (b - a) + 1, c - a)
  <2>1. /\ r \in Seq(Int) /\ Len(r) = c - b
        /\ \A i \in 1 .. c - b : r[i] = s[(b - a) + i]
    BY <1>1, <1>2
  <2>2. ASSUME NEW i \in 1 .. c - b PROVE r[i] = b + i
    <3>1. (b - a) + i \in 1 .. c - a
      OBVIOUS
    <3>2. r[i] = a + ((b - a) + i)
      BY <1>1, <2>1, <3>1
    <3>3. QED BY <3>2
  <2> HIDE DEF r
  <2>3. r = Bytes(b, c)
    BY <2>1, <2>2, ARunOfBytes
  <2>4. QED BY <1>1, <2>3 DEF r
<1>5. QED BY <1>3, <1>4 DEF s

\* A buffer that begins with an event ends it at its second byte, if it has one.
LEMMA FirstBoundary ==
    ASSUME NEW m \in Int, NEW n \in Int, m <= n, m % 2 = 0
    PROVE  Boundary(Bytes(m, n)) = IF n - m >= 2 THEN 2 ELSE 0
<1> DEFINE I == {i \in 1 .. Len(Bytes(m, n)) : Bytes(m, n)[i] % 2 = 0}
<1>1. Boundary(Bytes(m, n)) = IF I # {} THEN Min(I) ELSE 0
  BY DEF Boundary, SelectInSeq
<1>2. I = {i \in 1 .. n - m : (m + i) % 2 = 0}
  BY BytesAreASequence
<1>3. \A i \in 1 .. n - m : (m + i) % 2 = i % 2
  OBVIOUS
<1>4. CASE n - m >= 2
  <2>1. 2 \in I /\ I \subseteq Int
    <3>1. 2 \in 1 .. n - m /\ 2 % 2 = 0
      BY <1>4
    <3>2. QED BY <1>2, <1>3, <3>1
  <2>2. \A i \in I : 2 <= i
    BY <1>2, <1>3, SMTT(20)
  <2> HIDE DEF I
  <2>3. \A x \in I : (\A y \in I : x <= y) => x = 2
    BY <2>1, <2>2
  <2>4. Min(I) = 2
    BY <2>1, <2>2, <2>3 DEF Min
  <2>5. QED BY <1>1, <1>4, <2>1, <2>4
<1>5. CASE n - m < 2
  <2>1. I = {}
    BY <1>2, <1>3, <1>5
  <2>2. QED BY <1>1, <1>5, <2>1
<1>6. QED BY <1>4, <1>5

-----------------------------------------------------------------------------
(* Scripts and what is captured of them.                                    *)

Kinds == {"text", "usage", "junk", "done", "native"}

\* Only the last event can be the sentinel.
LEMMA ScriptShape ==
    ASSUME NEW w \in Scripts
    PROVE  /\ w \in Seq(Kinds) /\ Len(w) \in 1 .. MaxEvents
           /\ \A i \in 1 .. Len(w) : w[i] = "done" => i = Len(w)
<1>1. CASE w \in OpenAIScripts
  <2> DEFINE W(n) == [1 .. n -> {"text", "usage", "junk"}]
  <2>0. PICK v \in UNION {W(n) : n \in 0 .. MaxEvents - 1} : w = v \o <<"done">>
    BY <1>1 DEF OpenAIScripts
  <2>1. PICK n \in 0 .. MaxEvents - 1 : v \in W(n)
    BY <2>0
  <2>2. n \in Nat /\ n + 1 <= MaxEvents
    BY StreamingAssumption
  <2>3. v \in Seq({"text", "usage", "junk"}) /\ Len(v) = n
    BY <2>1, <2>2
  <2>4. v \in Seq(Kinds)
    BY <2>3 DEF Kinds
  <2>5. <<"done">> \in Seq(Kinds) /\ Len(<<"done">>) = 1
    BY DEF Kinds
  <2>6. /\ w \in Seq(Kinds) /\ Len(w) = n + 1
        /\ \A k \in 1 .. n : w[k] = v[k]
    BY <2>0, <2>3, <2>4, <2>5, Joining
  <2>7. \A i \in 1 .. n : w[i] # "done"
    BY <2>1, <2>6
  <2>8. QED BY <2>2, <2>6, <2>7
<1>2. CASE w \notin OpenAIScripts
  <2>1. PICK n \in 1 .. MaxEvents : w = [i \in 1 .. n |-> "native"]
    BY <1>2 DEF Scripts
  <2>2. w \in Seq(Kinds) /\ Len(w) = n
    <3>1. w \in [1 .. n -> Kinds] /\ n \in Nat
      BY <2>1, StreamingAssumption DEF Kinds
    <3>2. QED BY <3>1
  <2>3. QED BY <2>1, <2>2
<1>3. QED BY <1>1, <1>2

LEMMA SpellsNothing ==
    ASSUME NEW w
    PROVE  Spells(<<>>, w, 0)
  BY DEF Spells, ToSet

\* The next event in whole.
LEMMA SpellsTheNext ==
    ASSUME NEW text \in Seq(Int), NEW w, NEW n \in Nat, n % 2 = 0, Spells(text, w, n), NEW e,
           w[(n \div 2) + 1] = e
    PROVE  /\ e = "text" => Spells(Append(text, n + 1), w, n + 2)
           /\ e # "text" => Spells(text, w, n + 1) /\ Spells(text, w, n + 2)
<1> DEFINE T(k) == {b \in 1 .. k : b % 2 = 1 /\ w[(b + 1) \div 2] = "text"}
<1>1. ToSet(text) = T(n)
  BY DEF Spells
<1>2. (n + 1) % 2 = 1 /\ (n + 2) % 2 = 0 /\ ((n + 1) + 1) \div 2 = (n \div 2) + 1
  OBVIOUS
<1>3. n + 1 \in T(n + 2) <=> e = "text"
  BY <1>2
<1>4. n + 1 \in T(n + 1) <=> e = "text"
  BY <1>2
<1>5. \A b : b \in T(n + 2) /\ b # n + 1 => b \in T(n)
  <2>1. \A b \in 1 .. n + 2 : b # n + 1 => b \in 1 .. n \/ b = n + 2
    OBVIOUS
  <2>2. QED BY <1>2, <2>1
<1>6. T(n) \subseteq T(n + 1) /\ T(n + 1) \subseteq T(n + 2) /\ T(n) \subseteq 1 .. n
  OBVIOUS
<1> HIDE DEF T
<1>7. CASE e = "text"
  <2> DEFINE s == Append(text, n + 1)
  <2>1. Len(s) = Len(text) + 1 /\ DOMAIN s = 1 .. Len(text) + 1 /\ s[Len(text) + 1] = n + 1
    OBVIOUS
  <2>2. \A i \in 1 .. Len(text) : s[i] = text[i] /\ s[i] \in ToSet(text)
    BY DEF ToSet
  <2>3. \A i \in 1 .. Len(text) : s[i] \in Int /\ s[i] <= n
    BY <1>1, <1>6, <2>2
  <2>4. \A i, j \in DOMAIN text : i < j => text[i] < text[j]
    BY DEF Spells
  <2>5. Len(text) \in Nat /\ DOMAIN text = 1 .. Len(text)
    OBVIOUS
  <2> HIDE DEF s
  <2>6. ASSUME NEW i \in DOMAIN s, NEW j \in DOMAIN s, i < j PROVE s[i] < s[j]
    <3>1. i \in 1 .. Len(text)
      BY <2>1, <2>5, <2>6
    <3>2. CASE j = Len(text) + 1
      BY <2>1, <2>3, <3>1, <3>2
    <3>3. CASE j # Len(text) + 1
      <4>1. j \in 1 .. Len(text)
        BY <2>1, <2>5, <3>3
      <4>2. text[i] < text[j]
        BY <2>4, <2>5, <2>6, <3>1, <4>1
      <4>3. s[i] = text[i] /\ s[j] = text[j]
        BY <2>2, <3>1, <4>1
      <4>4. QED BY <4>2, <4>3
    <3>4. QED BY <3>2, <3>3
  <2>7. ToSet(s) = ToSet(text) \cup {n + 1}
    <3>1. DOMAIN s = DOMAIN text \cup {Len(text) + 1}
      BY <2>1, <2>5
    <3>2. QED BY <2>1, <2>2, <2>5, <3>1, SMTT(20) DEF ToSet
  <2>8. ToSet(s) = T(n + 2)
    BY <1>1, <1>3, <1>5, <1>6, <1>7, <2>7
  <2>9. QED BY <1>7, <2>6, <2>8 DEF s, T, Spells
<1>8. CASE e # "text"
  <2>1. T(n + 1) = T(n) /\ T(n + 2) = T(n)
    BY <1>3, <1>4, <1>5, <1>6, <1>8
  <2>2. QED BY <1>1, <1>8, <2>1 DEF T, Spells
<1>9. QED BY <1>7, <1>8

-----------------------------------------------------------------------------
(* The replay.                                                              *)

\* Whatever is cut into chunks is handed out whole.
LEMMA ReplayIsWhole ==
    ASSUME NEW T, NEW text \in Seq(T)
    PROVE  FlattenSeq(Replayed(text)) = text
<1>1. PICK n : n = (Len(text) + ChunkSize - 1) \div ChunkSize
  OBVIOUS
<1>2. n \in Nat /\ Len(text) <= n * ChunkSize /\ (n - 1) * ChunkSize < Len(text)
  BY <1>1, RoundingUp, StreamingAssumption
<1> DEFINE Upto(i) == IF i * ChunkSize < Len(text) THEN i * ChunkSize ELSE Len(text)
           Chunk(i) == SubSeq(text, (i - 1) * ChunkSize + 1, Upto(i))
           frames == Replayed(text)
           chunks == [i \in 1 .. n |-> Chunk(i)]
           Told(k) == IF k = 1 THEN 0 ELSE IF k <= n + 1 THEN Upto(k - 1) ELSE Len(text)
           told == [k \in 1 .. n + 3 |-> SubSeq(text, 1, Told(k))]
<1>3. frames = <<<<>>>> \o chunks \o <<<<>>, <<>>>>
  BY <1>1 DEF Replayed
<1>4. ASSUME NEW i \in 1 .. n
      PROVE  /\ (i - 1) * ChunkSize \in Nat /\ i * ChunkSize = (i - 1) * ChunkSize + ChunkSize
             /\ (i - 1) * ChunkSize < Len(text)
             /\ Upto(i) \in (i - 1) * ChunkSize + 1 .. Len(text)
             /\ Upto(i - 1) = (i - 1) * ChunkSize
  <2>1. (i - 1) * ChunkSize \in Nat /\ i * ChunkSize = (i - 1) * ChunkSize + ChunkSize
    BY StreamingAssumption
  <2>2. (i - 1) * ChunkSize <= (n - 1) * ChunkSize
    BY <1>2, TimesKeepsOrder, StreamingAssumption
  <2>3. (i - 1) * ChunkSize < Len(text)
    <3>1. (n - 1) * ChunkSize \in Int
      BY <1>2, StreamingAssumption
    <3>2. QED BY <1>2, <2>1, <2>2, <3>1
  <2>4. QED BY <2>1, <2>3, StreamingAssumption
<1>5. Upto(n) = Len(text)
  <2>1. n * ChunkSize \in Int
    BY <1>2, StreamingAssumption
  <2>2. ~(n * ChunkSize < Len(text))
    BY <1>2, <2>1
  <2>3. QED BY <2>2
<1>6. n = 0 => Len(text) = 0
  BY <1>2, StreamingAssumption
<1>7. Upto(0) = 0
  BY StreamingAssumption
<1> HIDE DEF Upto
<1>8. /\ frames \in Seq(Seq(T)) /\ Len(frames) = n + 3
      /\ frames[1] = <<>> /\ frames[n + 2] = <<>> /\ frames[n + 3] = <<>>
      /\ \A i \in 1 .. n : frames[i + 1] = Chunk(i)
  <2>0. <<>> \in Seq(T)
    OBVIOUS
  <2>1. chunks \in Seq(Seq(T)) /\ Len(chunks) = n
    <3>1. \A i \in 1 .. n : Chunk(i) \in Seq(T)
      BY <1>4, SubSeqProperties
    <3>2. QED BY <1>2, <3>1
  <2>2. PICK head : head = <<<<>>>> /\ head \in Seq(Seq(T)) /\ Len(head) = 1
    <3>1. PICK e \in Seq(T) : e = <<>>
      BY <2>0
    <3>2. <<e>> \in Seq(Seq(T)) /\ Len(<<e>>) = 1
      OBVIOUS
    <3>3. QED BY <3>1, <3>2
  <2>3. PICK tail : tail = <<<<>>, <<>>>> /\ tail \in Seq(Seq(T)) /\ Len(tail) = 2
    <3>1. PICK e \in Seq(T) : e = <<>>
      BY <2>0
    <3>2. <<e, e>> \in Seq(Seq(T)) /\ Len(<<e, e>>) = 2
      OBVIOUS
    <3>3. QED BY <3>1, <3>2
  <2>4. PICK body : body = head \o chunks
    OBVIOUS
  <2>5. /\ body \in Seq(Seq(T)) /\ Len(body) = n + 1 /\ body[1] = <<>>
        /\ \A i \in 1 .. n : body[i + 1] = Chunk(i)
    <3>1. body \in Seq(Seq(T)) /\ Len(body) = n + 1
      BY <1>2, <2>1, <2>2, <2>4
    <3>2. body[1] = head[1]
      BY <1>2, <2>1, <2>2, <2>4
    <3>3. ASSUME NEW i \in 1 .. n PROVE body[i + 1] = chunks[i]
      <4>1. i + 1 \in 1 .. Len(head) + Len(chunks) /\ ~(i + 1 <= Len(head)) /\ (i + 1) - Len(head) = i
        BY <1>2, <2>1, <2>2
      <4> HIDE DEF chunks
      <4>2. body[i + 1] = chunks[(i + 1) - Len(head)]
        BY <2>1, <2>2, <2>4, <4>1
      <4>3. QED BY <4>1, <4>2
    <3>4. QED BY <2>2, <3>1, <3>2, <3>3
  <2>6. frames = body \o tail
    BY <1>3, <2>2, <2>3, <2>4
  <2> HIDE DEF frames, chunks
  <2>7. frames \in Seq(Seq(T)) /\ Len(frames) = n + 3
    BY <1>2, <2>3, <2>5, <2>6
  <2>8. \A i \in 1 .. n + 1 : frames[i] = body[i]
    BY <1>2, <2>3, <2>5, <2>6
  <2>9. frames[n + 2] = tail[1] /\ frames[n + 3] = tail[2]
    BY <1>2, <2>3, <2>5, <2>6
  <2>10. frames[1] = <<>>
    <3>1. 1 \in 1 .. n + 1
      BY <1>2
    <3>2. QED BY <2>5, <2>8, <3>1
  <2>11. ASSUME NEW i \in 1 .. n PROVE frames[i + 1] = Chunk(i)
    <3>1. i + 1 \in 1 .. n + 1
      BY <1>2
    <3>2. QED BY <2>5, <2>8, <3>1
  <2>12. QED BY <2>3, <2>7, <2>9, <2>10, <2>11
<1> HIDE DEF frames, chunks
<1>9. ASSUME NEW k \in 1 .. n + 3
      PROVE  told[k] = IF k = 1 THEN frames[1] ELSE told[k - 1] \o frames[k]
  <2> USE <1>2
  <2>1. CASE k = 1
    <3>1. told[1] = SubSeq(text, 1, 0)
      BY <2>1
    <3>2. QED BY <1>8, <2>1, <3>1, SubSeqEmpty
  <2>2. CASE k # 1
    <3>1. k - 1 \in 1 .. n + 3 /\ told[k - 1] = SubSeq(text, 1, Told(k - 1)) /\ told[k] = SubSeq(text, 1, Told(k))
      <4>1. k - 1 \in 1 .. n + 3
        BY <2>2
      <4> HIDE DEF Told
      <4>2. QED BY <4>1
    <3>2. CASE k <= n + 1
      <4>1. k - 1 \in 1 .. n /\ (k - 1) + 1 = k
        BY <2>2, <3>2
      <4>2. Told(k - 1) = Upto((k - 1) - 1)
        BY <1>7, <2>2, <3>2
      <4>3. Told(k) = Upto(k - 1)
        BY <2>2, <3>2
      <4>4. PICK p, q : p = ((k - 1) - 1) * ChunkSize /\ q = Upto(k - 1)
        OBVIOUS
      <4>5. p \in Nat /\ p < Len(text) /\ q \in p + 1 .. Len(text) /\ Told(k - 1) = p /\ Told(k) = q
        BY <1>4, <4>1, <4>2, <4>3, <4>4
      <4>6. frames[k] = SubSeq(text, p + 1, q)
        BY <1>8, <4>1, <4>4
      <4>7. 1 \in 1 .. Len(text) + 1 /\ p \in 1 - 1 .. Len(text) /\ q \in p .. Len(text)
        BY <4>5
      <4>8. SubSeq(text, 1, p) \o SubSeq(text, p + 1, q) = SubSeq(text, 1, q)
        BY <4>7, ConcatAdjacentSubSeq
      <4>9. QED BY <2>2, <3>1, <4>5, <4>6, <4>8
    <3>3. CASE k > n + 1
      <4>1. k = n + 2 \/ k = n + 3
        BY <3>3
      <4>2. frames[k] = <<>>
        BY <1>8, <4>1
      <4>3. Told(k) = Len(text) /\ Told(k - 1) = Len(text)
        <5>1. Told(k) = Len(text)
          BY <2>2, <3>3
        <5>2. CASE k = n + 3
          BY <5>2
        <5>3. CASE k = n + 2
          BY <1>5, <1>6, <5>3
        <5>4. QED BY <4>1, <5>1, <5>2, <5>3
      <4>4. SubSeq(text, 1, Len(text)) = text
        BY SubSeqFull
      <4>5. text \o <<>> = text
        BY ConcatEmptySeq
      <4>6. QED BY <2>2, <3>1, <4>2, <4>3, <4>4, <4>5
    <3>4. k <= n + 1 \/ k > n + 1
      OBVIOUS
    <3> HIDE DEF told
    <3>5. QED BY <3>2, <3>3, <3>4
  <2>3. QED BY <2>1, <2>2
<1> DEFINE Step(f) == f = [i \in 1 .. Len(frames) |-> IF i = 1 THEN frames[i] ELSE f[i - 1] \o frames[i]]
<1>10. Step(told)
  <2>1. told = [k \in 1 .. n + 3 |-> told[k]]
    OBVIOUS
  <2> HIDE DEF told
  <2>2. told = [k \in 1 .. n + 3 |-> IF k = 1 THEN frames[k] ELSE told[k - 1] \o frames[k]]
    BY <1>9, <2>1
  <2>3. QED BY <1>8, <2>2
<1>11. PICK f : f = CHOOSE g : Step(g)
  OBVIOUS
<1>12. Step(f)
  BY <1>10, <1>11
<1>13. told[n + 3] = text
  <2>1. n + 3 \in 1 .. n + 3 /\ Told(n + 3) = Len(text)
    BY <1>2
  <2>2. QED BY <2>1, SubSeqFull
<1> HIDE DEF told
<1>14. f[n + 3] = told[n + 3]
  <2> DEFINE S == {i \in Nat : i < n + 3 => f[i + 1] = told[i + 1]}
  <2>1. \A i \in 1 .. n + 3 : f[i] = IF i = 1 THEN frames[i] ELSE f[i - 1] \o frames[i]
    BY <1>8, <1>12
  <2>2. 0 \in S
    BY <1>2, <1>9, <2>1
  <2>3. ASSUME NEW i \in Nat, i \in S PROVE i + 1 \in S
    <3>1. CASE (i + 1) < n + 3
      <4>1. (i + 1) + 1 \in 1 .. n + 3 /\ ((i + 1) + 1) - 1 = i + 1 /\ (i + 1) + 1 # 1
        BY <1>2, <3>1
      <4>2. f[i + 1] = told[i + 1]
        BY <1>2, <2>3, <3>1
      <4>3. f[(i + 1) + 1] = told[(i + 1) + 1]
        BY <1>9, <2>1, <4>1, <4>2
      <4>4. QED BY <4>3
    <3>2. QED BY <3>1
  <2>4. Nat \subseteq S
    BY <2>2, <2>3, NatSetInduction
  <2>5. n + 2 \in S /\ (n + 2) + 1 = n + 3 /\ n + 2 < n + 3
    BY <1>2, <2>4
  <2>6. QED BY <2>5
<1>15. FlattenSeq(frames) = f[n + 3]
  <2>1. Len(frames) # 0 /\ Len(frames) = n + 3
    BY <1>2, <1>8
  <2>2. QED BY <1>11, <2>1 DEF FlattenSeq
<1>16. QED BY <1>13, <1>14, <1>15 DEF frames
-----------------------------------------------------------------------------
(* The invariant.                                                           *)

StreamRecord ==
    [script : Scripts, cacheable : BOOLEAN, stage : StreamStages, got : Nat, buffer : Seq(Int),
     held : Seq(Int), ended : BOOLEAN, seen : Seq(Int), gone : BOOLEAN, text : Seq(Int),
     out : Int, completed : BOOLEAN, status : Statuses, error : Errors]
StreamRows == [status : Statuses, out : Int, estimated : BOOLEAN, error : Errors \cup {"stream_incomplete"}]

StreamShape ==
    /\ stream \in [Streams -> StreamRecord]
    /\ streamRow \in [Streams -> StreamRows \cup {NoStreamRow}]
    /\ kept \in [Streams -> [text : Seq(Int), out : Int] \cup {NotKept}]

\* What was read is with the client or in the buffer.
Delivered(t) ==
    /\ t.seen = Bytes(0, Len(t.seen)) /\ t.buffer = Bytes(Len(t.seen), t.got)
    /\ Len(t.seen) <= t.got /\ t.got <= 2 * Len(t.script)

\* Between two events the books have all that was delivered.
Settled(t) == ~t.ended /\ Len(t.seen) % 2 = 0 /\ Spells(t.text, t.script, Len(t.seen))

\* With an event, or a tail, in hand they have what came before it.
InHand(t) ==
    /\ ~t.completed /\ Len(t.seen) - Len(t.held) \in Nat
    /\ (Len(t.seen) - Len(t.held)) % 2 = 0
    /\ t.held = Bytes(Len(t.seen) - Len(t.held), Len(t.seen))
    /\ Spells(t.text, t.script, Len(t.seen) - Len(t.held))
    /\ Len(t.held) = IF t.ended THEN 1 ELSE 2

\* The sentinel comes last.
Complete(t) ==
    /\ t.script[Len(t.script)] = "done" /\ Len(t.seen) >= 2 * Len(t.script) - 1
    /\ Spells(t.text, t.script, 2 * Len(t.script))

Faithful(t) ==
    /\ Delivered(t)
    /\ t.stage \in {"open", "reading"} => Settled(t)
    /\ t.stage = "yielded" => InHand(t)
    /\ \E n \in Len(t.seen) - 2 .. Len(t.seen) : Spells(t.text, t.script, n)
    /\ t.completed => Complete(t)

Booked(t, row, copy) ==
    /\ row # NoStreamRow => t.stage \in {"keep", "over"} /\ (row.error = "none" => t.completed)
    /\ t.stage = "over" => row # NoStreamRow \/ t.gone
    /\ t.stage = "keep" => row # NoStreamRow /\ t.completed
    /\ copy # NotKept => t.stage = "over" /\ t.completed /\ copy.text = t.text /\ row # NoStreamRow

StreamInv ==
    /\ StreamShape
    /\ \A s \in Streams : Faithful(stream[s]) /\ Booked(stream[s], streamRow[s], kept[s])

-----------------------------------------------------------------------------
(* What the steps do to a stream.                                           *)

LEMMA StreamFields ==
    ASSUME NEW t \in StreamRecord
    PROVE  /\ t.script \in Scripts /\ t.got \in Nat /\ t.buffer \in Seq(Int) /\ t.held \in Seq(Int)
           /\ t.seen \in Seq(Int) /\ Len(t.seen) \in Nat /\ t.text \in Seq(Int) /\ t.out \in Int
           /\ t.status \in Statuses /\ t.error \in Errors
           /\ Len(t.script) \in 1 .. MaxEvents /\ Len(t.script) \in Nat
<1>1. /\ t.script \in Scripts /\ t.got \in Nat /\ t.buffer \in Seq(Int) /\ t.held \in Seq(Int)
      /\ t.seen \in Seq(Int) /\ t.text \in Seq(Int) /\ t.out \in Int
      /\ t.status \in Statuses /\ t.error \in Errors
  BY DEF StreamRecord
<1>2. Len(t.script) \in 1 .. MaxEvents
  BY <1>1, ScriptShape
<1>3. QED BY <1>1, <1>2

\* A stream that only changes its stage, for good.
LEMMA StreamCloses ==
    ASSUME NEW t \in StreamRecord, NEW u \in StreamRecord, Faithful(t),
           u.script = t.script, u.got = t.got, u.buffer = t.buffer, u.seen = t.seen, u.text = t.text,
           u.completed => t.completed, u.stage \in {"record", "keep", "over"}
    PROVE  Faithful(u)
<1>1. Delivered(u)
  BY DEF Faithful, Delivered
<1>2. \E n \in Len(u.seen) - 2 .. Len(u.seen) : Spells(u.text, u.script, n)
  BY DEF Faithful
<1>3. u.completed => Complete(u)
  BY DEF Faithful, Complete
<1>4. QED BY <1>1, <1>2, <1>3 DEF Faithful

LEMMA PieceIsRead ==
    ASSUME NEW t \in StreamRecord, NEW u \in StreamRecord, Faithful(t), t.stage = "reading",
           NEW n \in t.got + 1 .. 2 * Len(t.script),
           u.got = n, u.buffer = t.buffer \o Bytes(t.got, n), u.stage = t.stage,
           u.script = t.script, u.seen = t.seen, u.text = t.text,
           u.ended = t.ended, u.completed = t.completed
    PROVE  Faithful(u)
<1>1. PICK k \in Nat : k = Len(t.seen)
  BY StreamFields
<1>2. t.got \in Nat /\ k <= t.got /\ n \in Nat /\ t.got <= n /\ n <= 2 * Len(t.script)
  <2>1. t.got \in Nat /\ Len(t.script) \in Nat
    BY StreamFields
  <2>2. QED BY <1>1, <2>1 DEF Faithful, Delivered
<1>3. u.buffer = Bytes(k, n)
  <2>1. t.buffer = Bytes(k, t.got)
    BY <1>1 DEF Faithful, Delivered
  <2>2. PICK g \in Int : g = t.got /\ k <= g /\ g <= n
    BY <1>2
  <2>3. k \in Int /\ n \in Int
    BY <1>2
  <2>4. Bytes(k, g) \o Bytes(g, n) = Bytes(k, n)
    BY <2>2, <2>3, RunsJoin
  <2>5. u.buffer = t.buffer \o Bytes(g, n)
    BY <2>2
  <2>6. QED BY <2>1, <2>2, <2>4, <2>5
<1>4. Delivered(u)
  <2>1. t.seen = Bytes(0, k) /\ k <= n
    BY <1>1, <1>2 DEF Faithful, Delivered
  <2>2. QED BY <1>1, <1>2, <1>3, <2>1 DEF Delivered
<1>5. Settled(u)
  BY DEF Faithful, Settled
<1>6. u.completed => Complete(u)
  BY DEF Faithful, Complete
<1>7. \E m \in Len(u.seen) - 2 .. Len(u.seen) : Spells(u.text, u.script, m)
  BY DEF Faithful
<1>8. QED BY <1>4, <1>5, <1>6, <1>7 DEF Faithful

\* u is t after its first event, of n bytes, has gone out.
GoesOut(t, u, n) ==
    /\ u.stage = "yielded" /\ u.held = SubSeq(t.buffer, 1, n) /\ u.seen = t.seen \o u.held
    /\ u.buffer = SubSeq(t.buffer, n + 1, Len(t.buffer))
    /\ u.script = t.script /\ u.got = t.got /\ u.text = t.text
    /\ u.ended = t.ended /\ u.completed = t.completed

LEMMA EventIsYielded ==
    ASSUME NEW t \in StreamRecord, NEW u \in StreamRecord, Faithful(t), t.stage = "reading",
           NEW n, n = Boundary(t.buffer), n > 0, GoesOut(t, u, n)
    PROVE  Faithful(u)
<1>0. /\ u.stage = "yielded" /\ u.script = t.script /\ u.got = t.got /\ u.text = t.text
      /\ u.ended = t.ended /\ u.completed = t.completed
  BY DEF GoesOut
<1>1. PICK k \in Nat : k = Len(t.seen)
  BY StreamFields
<1>2. t.got \in Nat /\ Len(t.script) \in Nat
  BY StreamFields
<1>3. /\ k <= t.got /\ t.got <= 2 * Len(t.script) /\ k % 2 = 0
      /\ t.buffer = Bytes(k, t.got) /\ t.seen = Bytes(0, k) /\ Spells(t.text, t.script, k)
  BY <1>1 DEF Faithful, Delivered, Settled
<1>4. n = 2 /\ k + 2 <= t.got
  <2>1. n = IF t.got - k >= 2 THEN 2 ELSE 0
    BY <1>2, <1>3, FirstBoundary
  <2>2. QED BY <1>2, <2>1
<1>5. u.held = Bytes(k, k + 2) /\ u.buffer = Bytes(k + 2, t.got)
  <2>1. PICK c \in Int, m \in Int : c = t.got /\ m = k + 2
    BY <1>2
  <2>2. k \in Int /\ k <= m /\ m <= c /\ m - k = n
    BY <1>2, <1>4, <2>1
  <2>3. /\ SubSeq(Bytes(k, c), 1, m - k) = Bytes(k, m)
        /\ SubSeq(Bytes(k, c), (m - k) + 1, Len(Bytes(k, c))) = Bytes(m, c)
    BY <2>2, RunsAreCut
  <2>4. u.held = SubSeq(t.buffer, 1, n) /\ u.buffer = SubSeq(t.buffer, n + 1, Len(t.buffer))
    BY DEF GoesOut
  <2>5. QED BY <1>3, <2>1, <2>2, <2>3, <2>4
<1>6. u.seen = Bytes(0, k + 2)
  <2>1. PICK z \in Int, m \in Int : z = 0 /\ m = k + 2
    OBVIOUS
  <2>2. u.seen = Bytes(z, k) \o Bytes(k, m)
    BY <1>3, <1>5, <2>1 DEF GoesOut
  <2>3. Bytes(z, k) \o Bytes(k, m) = Bytes(z, m)
    <3>1. k \in Int /\ z <= k /\ k <= m
      BY <2>1
    <3>2. QED BY <3>1, RunsJoin
  <2>4. QED BY <2>1, <2>2, <2>3
<1>7. Len(u.held) = 2 /\ Len(u.seen) = k + 2
  <2>1. k \in Int /\ k + 2 \in Int /\ 0 <= k + 2 /\ k <= k + 2
    OBVIOUS
  <2>2. Len(u.held) = (k + 2) - k
    BY <1>5, <2>1, BytesAreASequence
  <2>3. Len(u.seen) = k + 2
    <3>1. PICK z \in Int, m \in Int : z = 0 /\ m = k + 2
      OBVIOUS
    <3>2. Len(Bytes(z, m)) = m - z
      BY <3>1, BytesAreASequence
    <3>3. QED BY <1>6, <3>1, <3>2
  <2>4. QED BY <2>2, <2>3
<1>8. ~u.completed
  <2>1. ASSUME t.completed PROVE FALSE
    <3>1. k >= 2 * Len(t.script) - 1
      BY <1>1, <2>1 DEF Faithful, Complete
    <3>2. QED BY <1>2, <1>3, <1>4, <3>1
  <2>2. QED BY <1>0, <2>1
<1>9. Delivered(u)
  BY <1>0, <1>2, <1>3, <1>4, <1>5, <1>6, <1>7 DEF Delivered
<1>10. InHand(u)
  <2>1. Len(u.seen) - Len(u.held) = k
    BY <1>7
  <2>2. ~u.ended
    BY <1>0 DEF Faithful, Settled
  <2>3. QED BY <1>0, <1>3, <1>5, <1>7, <1>8, <2>1, <2>2 DEF InHand
<1>11. \E m \in Len(u.seen) - 2 .. Len(u.seen) : Spells(u.text, u.script, m)
  BY <1>0, <1>3, <1>7
<1>12. QED BY <1>0, <1>8, <1>9, <1>10, <1>11 DEF Faithful

\* u is t after the upstream has closed and the tail has gone out.
TailGoesOut(t, u) ==
    /\ u.stage = (IF t.buffer = <<>> THEN "record" ELSE "yielded")
    /\ u.held = t.buffer /\ u.seen = t.seen \o t.buffer /\ u.buffer = <<>> /\ u.ended
    /\ u.script = t.script /\ u.got = t.got /\ u.text = t.text /\ u.completed = t.completed

LEMMA TailIsYielded ==
    ASSUME NEW t \in StreamRecord, NEW u \in StreamRecord, Faithful(t), t.stage = "reading",
           Boundary(t.buffer) = 0, TailGoesOut(t, u)
    PROVE  Faithful(u)
<1>0. /\ u.script = t.script /\ u.got = t.got /\ u.text = t.text /\ u.completed = t.completed
      /\ u.ended /\ u.held = t.buffer
  BY DEF TailGoesOut
<1>1. PICK k \in Nat : k = Len(t.seen)
  BY StreamFields
<1>2. t.got \in Nat /\ Len(t.script) \in Nat
  BY StreamFields
<1>3. /\ k <= t.got /\ t.got <= 2 * Len(t.script) /\ k % 2 = 0
      /\ t.buffer = Bytes(k, t.got) /\ t.seen = Bytes(0, k) /\ Spells(t.text, t.script, k)
  BY <1>1 DEF Faithful, Delivered, Settled
<1>4. PICK n \in Nat : n = t.got /\ k <= n /\ n <= k + 1
  <2>1. Boundary(t.buffer) = IF t.got - k >= 2 THEN 2 ELSE 0
    BY <1>2, <1>3, FirstBoundary
  <2>2. QED BY <1>2, <1>3, <2>1
<1>5. PICK z \in Int : z = 0
  OBVIOUS
<1>6. u.seen = Bytes(0, n)
  <2>1. u.seen = Bytes(z, k) \o Bytes(k, n)
    BY <1>3, <1>4, <1>5 DEF TailGoesOut
  <2>2. k \in Int /\ n \in Int /\ z <= k
    BY <1>5
  <2>3. Bytes(z, k) \o Bytes(k, n) = Bytes(z, n)
    BY <1>4, <2>2, RunsJoin
  <2>4. QED BY <1>5, <2>1, <2>3
<1>7. Len(u.seen) = n /\ Len(u.held) = n - k
  <2>1. n \in Int /\ k \in Int /\ z <= n
    BY <1>5
  <2>2. Len(Bytes(z, n)) = n - z
    BY <2>1, BytesAreASequence
  <2>3. Len(Bytes(k, n)) = n - k
    BY <1>4, <2>1, BytesAreASequence
  <2>4. QED BY <1>0, <1>3, <1>4, <1>5, <1>6, <2>2, <2>3
<1>8. Delivered(u)
  <2>1. Bytes(n, n) = <<>>
    BY BytesAreASequence
  <2>2. u.buffer = <<>>
    BY DEF TailGoesOut
  <2>3. QED BY <1>0, <1>3, <1>4, <1>6, <1>7, <2>1, <2>2 DEF Delivered
<1>9. u.completed => Complete(u)
  <2>1. ASSUME t.completed PROVE Len(u.seen) >= 2 * Len(t.script) - 1
    <3>1. k >= 2 * Len(t.script) - 1
      BY <1>1, <2>1 DEF Faithful, Complete
    <3>2. QED BY <1>2, <1>4, <1>7, <3>1
  <2>2. QED BY <1>0, <2>1 DEF Faithful, Complete
<1>10. \E m \in Len(u.seen) - 2 .. Len(u.seen) : Spells(u.text, u.script, m)
  <2>1. k \in Len(u.seen) - 2 .. Len(u.seen)
    BY <1>4, <1>7
  <2>2. QED BY <1>0, <1>3, <2>1
<1>11. CASE n = k
  <2>1. t.buffer = <<>>
    <3>1. k \in Int /\ k <= k
      OBVIOUS
    <3>2. Bytes(k, k) = <<>>
      BY <3>1, BytesAreASequence
    <3>3. QED BY <1>3, <1>4, <1>11, <3>2
  <2>2. u.stage = "record"
    BY <2>1 DEF TailGoesOut
  <2>3. QED BY <1>8, <1>9, <1>10, <2>2 DEF Faithful
<1>12. CASE n = k + 1
  <2>1. Len(u.held) = 1 /\ Len(u.seen) - Len(u.held) = k
    BY <1>7, <1>12
  <2>2. t.buffer # <<>>
    <3>1. Len(t.buffer) = 1
      BY <1>0, <2>1
    <3>2. Len(<<>>) = 0
      OBVIOUS
    <3>3. 0 # 1
      OBVIOUS
    <3>4. QED BY <3>1, <3>2, <3>3, Zenon
  <2>3. u.stage = "yielded"
    BY <2>2 DEF TailGoesOut
  <2>4. ~u.completed
    <3>1. ASSUME t.completed PROVE FALSE
      <4>1. k >= 2 * Len(t.script) - 1
        BY <1>1, <3>1 DEF Faithful, Complete
      <4>2. QED BY <1>2, <1>3, <1>4, <1>12, <4>1
    <3>2. QED BY <1>0, <3>1
  <2>5. InHand(u)
    <3>1. u.held = Bytes(k, Len(u.seen)) /\ Spells(u.text, u.script, k)
      BY <1>0, <1>3, <1>4, <1>7
    <3>2. QED BY <1>0, <1>3, <2>1, <2>4, <3>1 DEF InHand
  <2>6. QED BY <1>8, <1>9, <1>10, <2>3, <2>5 DEF Faithful
<1>13. QED BY <1>4, <1>11, <1>12

\* u is t after the tee has inspected what was in hand.
WasInspected(t, u, kind) ==
    /\ u.stage = (IF t.ended THEN "record" ELSE "reading")
    /\ u.text = (IF kind = "text" THEN Append(t.text, t.held[1]) ELSE t.text)
    /\ u.completed = (t.completed \/ kind = "done")
    /\ u.script = t.script /\ u.got = t.got /\ u.seen = t.seen /\ u.buffer = t.buffer
    /\ u.ended = t.ended

LEMMA EventIsInspected ==
    ASSUME NEW t \in StreamRecord, NEW u \in StreamRecord, Faithful(t), t.stage = "yielded",
           NEW e, e = t.script[(t.held[1] + 1) \div 2],
           NEW kind, kind = (IF Len(t.held) = 2 \/ e = "done" THEN e ELSE "junk"),
           WasInspected(t, u, kind)
    PROVE  Faithful(u)
<1>0. /\ u.script = t.script /\ u.got = t.got /\ u.seen = t.seen /\ u.buffer = t.buffer
      /\ u.ended = t.ended
  BY DEF WasInspected
<1>1. PICK m \in Nat : m = Len(t.seen) - Len(t.held)
  BY DEF Faithful, InHand
<1>2. /\ ~t.completed /\ m % 2 = 0 /\ t.held = Bytes(m, Len(t.seen)) /\ Spells(t.text, t.script, m)
      /\ Len(t.held) = IF t.ended THEN 1 ELSE 2
  BY <1>1 DEF Faithful, InHand
<1>3. t.got \in Nat /\ Len(t.script) \in Nat /\ Len(t.seen) \in Nat /\ t.text \in Seq(Int) /\ t.script \in Scripts
  BY StreamFields
<1>4. Len(t.seen) <= t.got /\ t.got <= 2 * Len(t.script)
  BY DEF Faithful, Delivered
<1>5. Len(t.seen) = m + Len(t.held) /\ Len(t.held) \in {1, 2}
  <2>1. Len(t.held) \in {1, 2}
    BY <1>2
  <2>2. QED BY <1>1, <1>3, <2>1
<1>6. e = t.script[(m \div 2) + 1]
  <2>1. PICK n \in Nat : n = Len(t.seen) /\ m + 1 <= n
    BY <1>3, <1>5
  <2>2. m \in Int /\ n \in Int /\ m <= n /\ 1 \in 1 .. n - m
    BY <2>1
  <2>3. Bytes(m, n)[1] = m + 1
    BY <2>2, BytesAreASequence
  <2>4. ((m + 1) + 1) \div 2 = (m \div 2) + 1
    BY <1>2
  <2>5. QED BY <1>2, <2>1, <2>3, <2>4
<1>7. e = "done" => m + 2 = 2 * Len(t.script)
  <2>1. PICK i \in Nat : i = (m \div 2) + 1 /\ m + 2 = 2 * i
    BY <1>2
  <2>2. i \in 1 .. Len(t.script)
    BY <1>3, <1>4, <1>5, <2>1
  <2>3. e = "done" => i = Len(t.script)
    BY <1>3, <1>6, <2>1, <2>2, ScriptShape
  <2>4. QED BY <1>3, <2>1, <2>3
<1>8. /\ e = "text" => Spells(Append(t.text, m + 1), t.script, m + 2)
      /\ e # "text" => Spells(t.text, t.script, m + 2)
  BY <1>2, <1>3, <1>6, SpellsTheNext
<1>9. Delivered(u)
  BY <1>0 DEF Faithful, Delivered
<1>10. u.completed => kind = "done"
  BY <1>2 DEF WasInspected
<1>11. kind = "done" => e = "done"
  OBVIOUS
<1>12. u.completed => Complete(u)
  <2>1. ASSUME kind = "done" PROVE Complete(u)
    <3>1. m + 2 = 2 * Len(t.script) /\ e = "done"
      BY <1>7, <1>11, <2>1
    <3>2. u.text = t.text
      BY <2>1 DEF WasInspected
    <3>3. Spells(u.text, u.script, 2 * Len(u.script))
      BY <1>0, <1>8, <3>1, <3>2
    <3>4. t.script[Len(t.script)] = "done"
      <4>1. (m \div 2) + 1 = Len(t.script)
        BY <1>2, <1>3, <3>1
      <4>2. QED BY <1>6, <3>1, <4>1
    <3>5. Len(u.seen) >= 2 * Len(u.script) - 1
      <4>1. PICK l \in Nat, d \in {1, 2} : l = Len(t.script) /\ d = Len(t.held)
        BY <1>3, <1>5
      <4>2. Len(u.seen) = m + d /\ Len(u.script) = l /\ m + 2 = 2 * l
        BY <1>0, <1>5, <3>1, <4>1
      <4>3. QED BY <4>2
    <3>6. QED BY <1>0, <3>3, <3>4, <3>5 DEF Complete
  <2>2. QED BY <1>10, <2>1
<1>13. CASE t.ended
  <2>1. Len(t.held) = 1 /\ Len(t.seen) = m + 1
    BY <1>2, <1>5, <1>13
  <2>2. u.text = t.text
    BY <2>1 DEF WasInspected
  <2>3. u.stage = "record"
    BY <1>13 DEF WasInspected
  <2>4. m \in Len(u.seen) - 2 .. Len(u.seen)
    BY <1>0, <2>1
  <2>5. Spells(u.text, u.script, m)
    BY <1>0, <1>2, <2>2
  <2>6. QED BY <1>9, <1>12, <2>3, <2>4, <2>5 DEF Faithful
<1>14. CASE ~t.ended
  <2>1. Len(t.held) = 2 /\ Len(t.seen) = m + 2
    BY <1>2, <1>5, <1>14
  <2>2. u.text = IF e = "text" THEN Append(t.text, m + 1) ELSE t.text
    <3>1. PICK n \in Nat : n = m + 2
      OBVIOUS
    <3>2. m \in Int /\ n \in Int /\ m <= n /\ 1 \in 1 .. n - m
      BY <3>1
    <3>3. Bytes(m, n)[1] = m + 1
      BY <3>2, BytesAreASequence
    <3>4. t.held[1] = m + 1
      BY <1>2, <2>1, <3>1, <3>3
    <3>5. kind = e
      BY <2>1
    <3>6. QED BY <3>4, <3>5 DEF WasInspected
  <2>3. u.stage = "reading"
    BY <1>14 DEF WasInspected
  <2>4. Spells(u.text, u.script, m + 2)
    BY <1>0, <1>8, <2>2
  <2>5. Settled(u)
    <3>1. (m + 2) % 2 = 0 /\ Len(u.seen) = m + 2 /\ ~u.ended
      BY <1>0, <1>2, <1>14, <2>1
    <3>2. QED BY <2>4, <3>1 DEF Settled
  <2>6. m + 2 \in Len(u.seen) - 2 .. Len(u.seen)
    BY <1>0, <2>1
  <2>7. QED BY <1>9, <1>12, <2>3, <2>4, <2>5, <2>6 DEF Faithful
<1>15. QED BY <1>13, <1>14

-----------------------------------------------------------------------------
(* The steps.                                                               *)

LEMMA StreamsBegin == StreamingInit => StreamInv
<1> SUFFICES ASSUME StreamingInit PROVE StreamInv
  OBVIOUS
<1>1. PICK w \in Scripts, cacheable \in BOOLEAN :
        stream = [s \in Streams |->
           [script |-> w, cacheable |-> cacheable, stage |-> "open", got |-> 0,
            buffer |-> <<>>, held |-> <<>>, ended |-> FALSE, seen |-> <<>>, gone |-> FALSE,
            text |-> <<>>, out |-> -1, completed |-> FALSE, status |-> 200, error |-> "none"]]
  BY DEF StreamingInit
<1>2. PICK t : t = [script |-> w, cacheable |-> cacheable, stage |-> "open", got |-> 0,
            buffer |-> <<>>, held |-> <<>>, ended |-> FALSE, seen |-> <<>>, gone |-> FALSE,
            text |-> <<>>, out |-> -1, completed |-> FALSE, status |-> 200, error |-> "none"]
  OBVIOUS
<1>3. t \in StreamRecord
  <2>1. <<>> \in Seq(Int) /\ -1 \in Int
    OBVIOUS
  <2>2. QED BY <1>2, <2>1 DEF StreamRecord, StreamStages, Errors, Statuses
<1>4. /\ t.script = w /\ t.stage = "open" /\ t.got = 0 /\ t.buffer = <<>> /\ t.seen = <<>> /\ t.text = <<>>
      /\ ~t.ended /\ ~t.completed
  BY <1>2
<1>5. Faithful(t)
  <2>1. Bytes(0, 0) = <<>> /\ Len(<<>>) = 0 /\ Len(w) \in Nat
    BY BytesAreASequence, ScriptShape
  <2>2. Delivered(t)
    BY <1>4, <2>1 DEF Delivered
  <2>3. Spells(t.text, t.script, 0)
    BY <1>4, SpellsNothing
  <2>4. Settled(t)
    BY <1>4, <2>1, <2>3 DEF Settled
  <2>5. 0 \in Len(t.seen) - 2 .. Len(t.seen)
    BY <1>4, <2>1
  <2>6. QED BY <1>4, <2>2, <2>3, <2>4, <2>5 DEF Faithful
<1>6. \A s \in Streams : stream[s] = t /\ streamRow[s] = NoStreamRow /\ kept[s] = NotKept
  BY <1>1, <1>2 DEF StreamingInit
<1>7. StreamShape
  BY <1>1, <1>2, <1>3 DEF StreamShape, StreamingInit
<1>8. \A s \in Streams : Booked(stream[s], streamRow[s], kept[s])
  BY <1>4, <1>6 DEF Booked
<1>9. QED BY <1>5, <1>6, <1>7, <1>8 DEF StreamInv

LEMMA TokensAreCounted ==
    ASSUME NEW w \in Scripts
    PROVE  Tokens(w) \in Int
<1>1. DOMAIN w = 1 .. Len(w) /\ Len(w) \in Int
  BY ScriptShape
<1>2. IsFiniteSet(DOMAIN w)
  BY <1>1, FS_Interval
<1>3. IsFiniteSet({i \in DOMAIN w : w[i] \in {"text", "native"}})
  BY <1>2, FS_Subset
<1>4. QED BY <1>3, FS_CardinalityType DEF Tokens

\* A step takes one stream from t to u and leaves the others alone.
StreamMoves(s, u, row, copy) ==
    /\ stream' = [stream EXCEPT ![s] = u]
    /\ streamRow' = [streamRow EXCEPT ![s] = row]
    /\ kept' = [kept EXCEPT ![s] = copy]

LEMMA OneStreamMoves ==
    ASSUME StreamInv, NEW s \in Streams, NEW u \in StreamRecord,
           NEW row \in StreamRows \cup {NoStreamRow}, NEW copy \in [text : Seq(Int), out : Int] \cup {NotKept},
           StreamMoves(s, u, row, copy), Faithful(u), Booked(u, row, copy)
    PROVE  StreamInv'
<1>1. StreamShape'
  BY DEF StreamInv, StreamShape, StreamMoves
<1>2. ASSUME NEW x \in Streams
      PROVE  Faithful(stream'[x]) /\ Booked(stream'[x], streamRow'[x], kept'[x])
  <2>1. CASE x = s
    <3>1. stream'[x] = u /\ streamRow'[x] = row /\ kept'[x] = copy
      BY <2>1 DEF StreamInv, StreamShape, StreamMoves
    <3>2. QED BY <3>1
  <2>2. CASE x # s
    <3>1. stream'[x] = stream[x] /\ streamRow'[x] = streamRow[x] /\ kept'[x] = kept[x]
      BY <2>2 DEF StreamInv, StreamShape, StreamMoves
    <3>2. QED BY <3>1 DEF StreamInv
  <2>3. QED BY <2>1, <2>2
<1>3. QED BY <1>1, <1>2 DEF StreamInv

\* The stream that moves.
LEMMA TheStream ==
    ASSUME StreamInv, NEW s \in Streams
    PROVE  /\ stream[s] \in StreamRecord /\ streamRow[s] \in StreamRows \cup {NoStreamRow}
           /\ kept[s] \in [text : Seq(Int), out : Int] \cup {NotKept}
           /\ Faithful(stream[s]) /\ Booked(stream[s], streamRow[s], kept[s])
           /\ streamRow = [streamRow EXCEPT ![s] = streamRow[s]] /\ kept = [kept EXCEPT ![s] = kept[s]]
  BY DEF StreamInv, StreamShape

\* Before its record a stream has neither a row nor a copy.
LEMMA NothingBookedYet ==
    ASSUME NEW t, NEW u, NEW row, NEW copy, Booked(t, row, copy),
           t.stage \notin {"keep", "over"}, u.stage \notin {"keep", "over"}
    PROVE  Booked(u, row, copy)
  BY DEF Booked

LEMMA ReadPieceInv ==
    ASSUME StreamInv, NEW s \in Streams, ReadPiece(s)
    PROVE  StreamInv'
<1>1. PICK t \in StreamRecord : t = stream[s] /\ Faithful(t) /\ Booked(t, streamRow[s], kept[s])
  BY TheStream
<1>2. t.stage = "reading"
  BY <1>1 DEF ReadPiece, Awaits, InStage
<1>3. PICK n \in t.got + 1 .. 2 * Len(t.script) :
        stream' = [stream EXCEPT ![s].got = n, ![s].buffer = @ \o [i \in 1 .. n - stream[s].got |-> stream[s].got + i]]
  BY <1>1 DEF ReadPiece
<1>4. PICK b : b = t.buffer \o Bytes(t.got, n)
  OBVIOUS
<1>5. PICK u : u = [t EXCEPT !.got = n, !.buffer = b]
  OBVIOUS
<1>6. StreamMoves(s, u, streamRow[s], kept[s])
  <2>1. stream' = [stream EXCEPT ![s] = u]
    BY <1>1, <1>3, <1>4, <1>5 DEF StreamInv, StreamShape, Bytes
  <2>2. QED BY <2>1, TheStream DEF ReadPiece, StreamMoves
<1>7. n \in Nat /\ t.got \in Nat /\ t.got <= n
  BY StreamFields
<1>8. b \in Seq(Int)
  <2>1. t.buffer \in Seq(Int)
    BY StreamFields
  <2>2. t.got \in Int /\ n \in Int
    BY <1>7
  <2>3. Bytes(t.got, n) \in Seq(Int)
    BY <1>7, <2>2, BytesAreASequence
  <2>4. QED BY <1>4, <2>1, <2>3
<1>9. u \in StreamRecord
  <2>1. [t EXCEPT !.got = n, !.buffer = b] \in StreamRecord
    BY <1>7, <1>8, Zenon DEF StreamRecord
  <2>2. QED BY <1>5, <2>1
<1>10. /\ u.got = n /\ u.buffer = b /\ u.stage = t.stage /\ u.script = t.script /\ u.seen = t.seen
       /\ u.text = t.text
  BY <1>5 DEF StreamRecord
<1>11. u.ended = t.ended /\ u.completed = t.completed
  BY <1>5 DEF StreamRecord
<1>12. Faithful(u)
  BY <1>1, <1>2, <1>4, <1>9, <1>10, <1>11, PieceIsRead
<1>13. Booked(u, streamRow[s], kept[s])
  BY <1>1, <1>2, <1>10, NothingBookedYet
<1>14. QED BY <1>6, <1>9, <1>12, <1>13, TheStream, OneStreamMoves

LEMMA YieldEventInv ==
    ASSUME StreamInv, NEW s \in Streams, YieldEvent(s)
    PROVE  StreamInv'
<1>1. PICK t \in StreamRecord : t = stream[s] /\ Faithful(t) /\ Booked(t, streamRow[s], kept[s])
  BY TheStream
<1>2. t.stage = "reading"
  BY <1>1 DEF YieldEvent, InStage
<1>3. PICK n : n = Boundary(t.buffer) /\ n > 0
  BY <1>1 DEF YieldEvent
<1>4. PICK held, seen, rest : /\ held = SubSeq(t.buffer, 1, n) /\ seen = t.seen \o held
                            /\ rest = SubSeq(t.buffer, n + 1, Len(t.buffer))
  OBVIOUS
<1>5. PICK u : u = [t EXCEPT !.stage = "yielded", !.held = held, !.seen = seen, !.buffer = rest]
  OBVIOUS
<1>6. StreamMoves(s, u, streamRow[s], kept[s])
  <2>1. stream' = [stream EXCEPT ![s].stage = "yielded",
                                 ![s].held = SubSeq(t.buffer, 1, n),
                                 ![s].seen = @ \o SubSeq(t.buffer, 1, n),
                                 ![s].buffer = SubSeq(t.buffer, n + 1, Len(t.buffer))]
    BY <1>1, <1>3 DEF YieldEvent
  <2>2. stream' = [stream EXCEPT ![s] = u]
    BY <1>1, <1>4, <1>5, <2>1 DEF StreamInv, StreamShape
  <2>3. QED BY <2>2, TheStream DEF YieldEvent, StreamMoves
<1>7. held \in Seq(Int) /\ rest \in Seq(Int) /\ seen \in Seq(Int)
  <2>1. PICK b \in Seq(Int) : b = t.buffer
    BY StreamFields
  <2>2. n \in 1 .. Len(b)
    <3>1. PICK k \in Nat : k = Len(t.seen)
      BY StreamFields
    <3>2. /\ t.got \in Nat /\ k \in Int /\ t.got \in Int /\ k <= t.got /\ k % 2 = 0
          /\ t.buffer = Bytes(k, t.got)
      <4>1. t.got \in Nat /\ k \in Int
        BY StreamFields
      <4>2. k <= t.got /\ k % 2 = 0 /\ t.buffer = Bytes(k, t.got)
        BY <1>1, <1>2, <3>1 DEF Faithful, Delivered, Settled
      <4>3. QED BY <4>1, <4>2
    <3>3. n = IF t.got - k >= 2 THEN 2 ELSE 0
      BY <1>3, <3>2, FirstBoundary
    <3>4. Len(b) = t.got - k
      BY <2>1, <3>2, BytesAreASequence
    <3>5. QED BY <1>3, <3>2, <3>3, <3>4
  <2>3. held \in Seq(Int)
    BY <1>4, <2>1, <2>2
  <2>4. rest \in Seq(Int)
    BY <1>4, <2>1, <2>2
  <2>5. t.seen \in Seq(Int)
    BY StreamFields
  <2>6. QED BY <1>4, <2>3, <2>4, <2>5
<1>8. u \in StreamRecord
  <2>1. "yielded" \in StreamStages
    BY DEF StreamStages
  <2>2. [t EXCEPT !.stage = "yielded", !.held = held, !.seen = seen, !.buffer = rest] \in StreamRecord
    BY <1>7, <2>1, Zenon DEF StreamRecord
  <2>3. QED BY <1>5, <2>2
<1>9. u.stage = "yielded" /\ u.held = held /\ u.seen = seen /\ u.buffer = rest
  BY <1>5, Zenon DEF StreamRecord
<1>10. u.script = t.script /\ u.got = t.got /\ u.text = t.text
  BY <1>5 DEF StreamRecord
<1>11. u.ended = t.ended /\ u.completed = t.completed
  BY <1>5 DEF StreamRecord
<1>12. Faithful(u)
  <2>1. GoesOut(t, u, n)
    BY <1>4, <1>9, <1>10, <1>11 DEF GoesOut
  <2>2. QED BY <1>1, <1>2, <1>3, <1>8, <2>1, EventIsYielded
<1>13. Booked(u, streamRow[s], kept[s])
  BY <1>1, <1>2, <1>9, NothingBookedYet
<1>14. QED BY <1>6, <1>8, <1>12, <1>13, TheStream, OneStreamMoves

LEMMA UpstreamEndsInv ==
    ASSUME StreamInv, NEW s \in Streams, UpstreamEnds(s)
    PROVE  StreamInv'
<1>1. PICK t \in StreamRecord : t = stream[s] /\ Faithful(t) /\ Booked(t, streamRow[s], kept[s])
  BY TheStream
<1>2. t.stage = "reading" /\ Boundary(t.buffer) = 0
  BY <1>1 DEF UpstreamEnds, Awaits, InStage
<1>3. PICK stage, held, seen : /\ stage = (IF t.buffer = <<>> THEN "record" ELSE "yielded")
                             /\ held = t.buffer /\ seen = t.seen \o t.buffer
  OBVIOUS
<1>4. PICK empty : empty = <<>>
  OBVIOUS
<1>5. PICK u : u = [t EXCEPT !.stage = stage, !.held = held, !.seen = seen, !.buffer = empty, !.ended = TRUE]
  OBVIOUS
<1>6. StreamMoves(s, u, streamRow[s], kept[s])
  <2>1. stream' = [stream EXCEPT ![s].stage = IF t.buffer = <<>> THEN "record" ELSE "yielded",
                                 ![s].held = t.buffer, ![s].seen = @ \o t.buffer, ![s].buffer = <<>>,
                                 ![s].ended = TRUE]
    BY <1>1 DEF UpstreamEnds
  <2>2. stream' = [stream EXCEPT ![s] = u]
    BY <1>1, <1>3, <1>4, <1>5, <2>1 DEF StreamInv, StreamShape
  <2>3. QED BY <2>2, TheStream DEF UpstreamEnds, StreamMoves
<1>7. stage \in StreamStages /\ held \in Seq(Int) /\ seen \in Seq(Int) /\ empty \in Seq(Int)
  <2>1. t.buffer \in Seq(Int) /\ t.seen \in Seq(Int)
    BY StreamFields
  <2>2. stage \in StreamStages
    BY <1>3 DEF StreamStages
  <2>3. QED BY <1>3, <1>4, <2>1, <2>2
<1>8. u \in StreamRecord
  <2>1. [t EXCEPT !.stage = stage, !.held = held, !.seen = seen, !.buffer = empty, !.ended = TRUE] \in StreamRecord
    BY <1>7, Zenon DEF StreamRecord
  <2>2. QED BY <1>5, <2>1
<1>9. u.stage = stage /\ u.held = held /\ u.seen = seen /\ u.buffer = empty /\ u.ended
  BY <1>5, Zenon DEF StreamRecord
<1>10. u.script = t.script /\ u.got = t.got /\ u.text = t.text
  BY <1>5 DEF StreamRecord
<1>11. u.completed = t.completed
  BY <1>5 DEF StreamRecord
<1>12. Faithful(u)
  <2>1. TailGoesOut(t, u)
    BY <1>3, <1>4, <1>9, <1>10, <1>11 DEF TailGoesOut
  <2>2. QED BY <1>1, <1>2, <1>8, <2>1, TailIsYielded
<1>13. Booked(u, streamRow[s], kept[s])
  <2>1. u.stage \notin {"keep", "over"}
    BY <1>3, <1>9
  <2>2. QED BY <1>1, <1>2, <2>1, NothingBookedYet
<1>14. QED BY <1>6, <1>8, <1>12, <1>13, TheStream, OneStreamMoves

LEMMA InspectInv ==
    ASSUME StreamInv, NEW s \in Streams, Inspect(s)
    PROVE  StreamInv'
<1>1. PICK t \in StreamRecord : t = stream[s] /\ Faithful(t) /\ Booked(t, streamRow[s], kept[s])
  BY TheStream
<1>2. t.stage = "yielded"
  BY <1>1 DEF Inspect, InStage
<1>3. PICK e, kind : /\ e = t.script[(t.held[1] + 1) \div 2]
                     /\ kind = (IF Len(t.held) = 2 \/ e = "done" THEN e ELSE "junk")
  OBVIOUS
<1>4. PICK text, out, completed, held, stage :
        /\ text = (IF kind = "text" THEN Append(t.text, t.held[1]) ELSE t.text)
        /\ out = (IF kind = "usage" THEN Tokens(t.script) ELSE t.out)
        /\ completed = (t.completed \/ kind = "done")
        /\ held = <<>> /\ stage = (IF t.ended THEN "record" ELSE "reading")
  OBVIOUS
<1>5. PICK u : u = [t EXCEPT !.text = text, !.out = out, !.completed = completed, !.held = held, !.stage = stage]
  OBVIOUS
<1>6. StreamMoves(s, u, streamRow[s], kept[s])
  <2>1. KindOf(s, t.held) = kind
    BY <1>1, <1>3 DEF KindOf
  <2>2. stream' = [stream EXCEPT ![s] =
           [Absorb(t, kind) EXCEPT !.completed = @ \/ kind = "done", !.held = <<>>,
                                   !.stage = IF t.ended THEN "record" ELSE "reading"]]
    BY <1>1, <2>1 DEF Inspect
  <2>3. Absorb(t, kind) = [t EXCEPT !.text = text, !.out = out]
    BY <1>4 DEF Absorb
  <2>4. [t EXCEPT !.text = text, !.out = out].completed = t.completed
    BY DEF StreamRecord
  <2>5. [Absorb(t, kind) EXCEPT !.completed = @ \/ kind = "done", !.held = <<>>,
                                !.stage = IF t.ended THEN "record" ELSE "reading"] = u
    BY <1>4, <1>5, <2>3, <2>4
  <2>6. QED BY <2>2, <2>5, TheStream DEF Inspect, StreamMoves
<1>7. text \in Seq(Int)
  <2>1. t.text \in Seq(Int) /\ t.held \in Seq(Int)
    BY StreamFields
  <2>2. Len(t.held) \in {1, 2}
    BY <1>1, <1>2 DEF Faithful, InHand
  <2>3. t.held[1] \in Int
    BY <2>1, <2>2
  <2>4. QED BY <1>4, <2>1, <2>3
<1>8. out \in Int
  <2>1. t.out \in Int /\ t.script \in Scripts
    BY StreamFields
  <2>2. QED BY <1>4, <2>1, TokensAreCounted
<1>9. completed \in BOOLEAN /\ held \in Seq(Int) /\ stage \in StreamStages
  <2>1. held \in Seq(Int)
    BY <1>4
  <2>2. stage \in StreamStages
    BY <1>4 DEF StreamStages
  <2>3. QED BY <1>4, <2>1, <2>2
<1>10. u \in StreamRecord
  <2>1. [t EXCEPT !.text = text, !.out = out, !.completed = completed, !.held = held, !.stage = stage] \in StreamRecord
    BY <1>7, <1>8, <1>9, Zenon DEF StreamRecord
  <2>2. QED BY <1>5, <2>1
<1>11. u.text = text /\ u.completed = completed /\ u.stage = stage
  BY <1>5, Zenon DEF StreamRecord
<1>12. u.script = t.script /\ u.got = t.got /\ u.seen = t.seen /\ u.buffer = t.buffer
  BY <1>5 DEF StreamRecord
<1>13. u.ended = t.ended
  BY <1>5 DEF StreamRecord
<1>14. Faithful(u)
  <2>1. WasInspected(t, u, kind)
    BY <1>4, <1>11, <1>12, <1>13 DEF WasInspected
  <2>2. QED BY <1>1, <1>2, <1>3, <1>10, <2>1, EventIsInspected
<1>15. Booked(u, streamRow[s], kept[s])
  <2>1. u.stage \notin {"keep", "over"}
    BY <1>4, <1>11
  <2>2. QED BY <1>1, <1>2, <2>1, NothingBookedYet
<1>16. QED BY <1>6, <1>10, <1>14, <1>15, TheStream, OneStreamMoves

LEMMA StreamBreaksInv ==
    ASSUME StreamInv, NEW s \in Streams, StreamBreaks(s)
    PROVE  StreamInv'
<1>1. PICK t \in StreamRecord : t = stream[s] /\ Faithful(t) /\ Booked(t, streamRow[s], kept[s])
  BY TheStream
<1>2. t.stage = "reading"
  BY <1>1 DEF StreamBreaks, Awaits, InStage
<1>3. PICK status \in Statuses, error \in Errors, no \in BOOLEAN : status = 502 /\ error = "transport" /\ no = FALSE
  BY DEF Errors, Statuses
<1>4. PICK u : u = [t EXCEPT !.stage = "record", !.completed = no, !.status = status, !.error = error]
  OBVIOUS
<1>5. StreamMoves(s, u, streamRow[s], kept[s])
  <2>1. stream' = [stream EXCEPT ![s] = u]
    <3>1. stream' = [stream EXCEPT ![s].stage = "record", ![s].completed = FALSE,
                                   ![s].status = 502, ![s].error = "transport"]
      BY DEF StreamBreaks
    <3>2. stream' = [stream EXCEPT ![s].stage = "record", ![s].completed = no,
                                   ![s].status = status, ![s].error = error]
      BY <1>3, <3>1, Zenon
    <3>3. QED BY <1>1, <1>4, <3>2 DEF StreamInv, StreamShape
  <2>2. QED BY <2>1, TheStream DEF StreamBreaks, StreamMoves
<1>6. u \in StreamRecord
  <2>1. "record" \in StreamStages
    BY DEF StreamStages
  <2>2. [t EXCEPT !.stage = "record", !.completed = no, !.status = status, !.error = error] \in StreamRecord
    BY <2>1, Zenon DEF StreamRecord
  <2>3. QED BY <1>4, <2>2
<1>7. u.stage = "record" /\ ~u.completed
  BY <1>3, <1>4, Zenon DEF StreamRecord
<1>8. u.script = t.script /\ u.got = t.got /\ u.seen = t.seen /\ u.buffer = t.buffer /\ u.text = t.text
  BY <1>4 DEF StreamRecord
<1>9. Faithful(u)
  BY <1>1, <1>6, <1>7, <1>8, StreamCloses
<1>10. Booked(u, streamRow[s], kept[s])
  BY <1>1, <1>2, <1>7, NothingBookedYet
<1>11. QED BY <1>5, <1>6, <1>9, <1>10, TheStream, OneStreamMoves

LEMMA ClientLeavesInv ==
    ASSUME StreamInv, NEW s \in Streams, ClientLeaves(s)
    PROVE  StreamInv'
<1>1. PICK t \in StreamRecord : t = stream[s] /\ Faithful(t) /\ Booked(t, streamRow[s], kept[s])
  BY TheStream
<1>2. t.stage \in {"reading", "yielded"}
  BY <1>1 DEF ClientLeaves, Awaits, InStage
<1>3. PICK u : u = [t EXCEPT !.stage = "record", !.gone = TRUE]
  OBVIOUS
<1>4. StreamMoves(s, u, streamRow[s], kept[s])
  <2>1. stream' = [stream EXCEPT ![s] = u]
    BY <1>1, <1>3 DEF ClientLeaves, StreamInv, StreamShape
  <2>2. QED BY <2>1, TheStream DEF ClientLeaves, StreamMoves
<1>5. u \in StreamRecord
  <2>1. "record" \in StreamStages
    BY DEF StreamStages
  <2>2. [t EXCEPT !.stage = "record", !.gone = TRUE] \in StreamRecord
    BY <2>1, Zenon DEF StreamRecord
  <2>3. QED BY <1>3, <2>2
<1>6. u.stage = "record"
  BY <1>3, Zenon DEF StreamRecord
<1>7. u.script = t.script /\ u.got = t.got /\ u.seen = t.seen /\ u.buffer = t.buffer /\ u.text = t.text
  BY <1>3 DEF StreamRecord
<1>8. u.completed = t.completed
  BY <1>3 DEF StreamRecord
<1>9. Faithful(u)
  BY <1>1, <1>5, <1>6, <1>7, <1>8, StreamCloses
<1>10. Booked(u, streamRow[s], kept[s])
  BY <1>1, <1>2, <1>6, NothingBookedYet
<1>11. QED BY <1>4, <1>5, <1>9, <1>10, TheStream, OneStreamMoves

LEMMA OpenUpstreamInv ==
    ASSUME StreamInv, NEW s \in Streams, OpenUpstream(s)
    PROVE  StreamInv'
<1>1. PICK t \in StreamRecord : t = stream[s] /\ Faithful(t) /\ Booked(t, streamRow[s], kept[s])
  BY TheStream
<1>2. t.stage = "open"
  BY <1>1 DEF OpenUpstream, InStage
<1>3. ASSUME NEW u \in StreamRecord, stream' = [stream EXCEPT ![s] = u],
             u.stage \notin {"keep", "over"}, Faithful(u)
      PROVE  StreamInv'
  <2>1. StreamMoves(s, u, streamRow[s], kept[s])
    BY <1>3, TheStream DEF OpenUpstream, StreamMoves
  <2>2. Booked(u, streamRow[s], kept[s])
    BY <1>1, <1>2, <1>3, NothingBookedYet
  <2>3. QED BY <1>3, <2>1, <2>2, TheStream, OneStreamMoves
<1>4. CASE stream' = [stream EXCEPT ![s].stage = "reading"]
  <2>1. PICK u : u = [t EXCEPT !.stage = "reading"]
    OBVIOUS
  <2>2. u \in StreamRecord
    <3>1. "reading" \in StreamStages
      BY DEF StreamStages
    <3>2. [t EXCEPT !.stage = "reading"] \in StreamRecord
      BY <3>1, Zenon DEF StreamRecord
    <3>3. QED BY <2>1, <3>2
  <2>3. u.stage = "reading"
    BY <2>1, Zenon DEF StreamRecord
  <2>4. u.script = t.script /\ u.got = t.got /\ u.seen = t.seen /\ u.buffer = t.buffer /\ u.text = t.text
    BY <2>1 DEF StreamRecord
  <2>5. u.ended = t.ended /\ u.completed = t.completed
    BY <2>1 DEF StreamRecord
  <2>6. Faithful(u)
    <3>1. Delivered(u) /\ Settled(u)
      BY <1>1, <1>2, <2>4, <2>5 DEF Faithful, Delivered, Settled
    <3>2. u.completed => Complete(u)
      BY <1>1, <2>4, <2>5 DEF Faithful, Complete
    <3>3. \E n \in Len(u.seen) - 2 .. Len(u.seen) : Spells(u.text, u.script, n)
      BY <1>1, <2>4 DEF Faithful
    <3>4. QED BY <2>3, <3>1, <3>2, <3>3 DEF Faithful
  <2>7. stream' = [stream EXCEPT ![s] = u]
    BY <1>1, <1>4, <2>1
  <2>8. QED BY <1>3, <2>2, <2>3, <2>6, <2>7
<1>5. ASSUME NEW status \in Statuses, NEW error \in Errors,
             stream' = [stream EXCEPT ![s].stage = "record", ![s].status = status, ![s].error = error]
      PROVE  StreamInv'
  <2>1. PICK u : u = [t EXCEPT !.stage = "record", !.status = status, !.error = error]
    OBVIOUS
  <2>2. u \in StreamRecord
    <3>1. "record" \in StreamStages
      BY DEF StreamStages
    <3>2. [t EXCEPT !.stage = "record", !.status = status, !.error = error] \in StreamRecord
      BY <3>1, Zenon DEF StreamRecord
    <3>3. QED BY <2>1, <3>2
  <2>3. u.stage = "record"
    BY <2>1, Zenon DEF StreamRecord
  <2>4. u.script = t.script /\ u.got = t.got /\ u.seen = t.seen /\ u.buffer = t.buffer /\ u.text = t.text
    BY <2>1 DEF StreamRecord
  <2>5. u.completed = t.completed
    BY <2>1 DEF StreamRecord
  <2>6. Faithful(u)
    BY <1>1, <2>2, <2>3, <2>4, <2>5, StreamCloses
  <2>7. stream' = [stream EXCEPT ![s] = u]
    BY <1>1, <1>5, <2>1 DEF StreamInv, StreamShape
  <2>8. QED BY <1>3, <2>2, <2>3, <2>6, <2>7
<1>6. 400 \in Statuses /\ 502 \in Statuses /\ "provider_error" \in Errors /\ "transport" \in Errors
  BY DEF Statuses, Errors
<1>7. QED BY <1>4, <1>5, <1>6 DEF OpenUpstream

LEMMA RecordStreamInv ==
    ASSUME StreamInv, NEW s \in Streams, RecordStream(s)
    PROVE  StreamInv'
<1>1. PICK t \in StreamRecord : t = stream[s] /\ Faithful(t) /\ Booked(t, streamRow[s], kept[s])
  BY TheStream
<1>2. t.stage = "record"
  BY <1>1 DEF RecordStream, InStage
<1>3. kept[s] = NotKept /\ streamRow[s] = NoStreamRow
  BY <1>1, <1>2 DEF Booked
<1>4. PICK stage, row :
        /\ stream' = [stream EXCEPT ![s].stage = stage] /\ streamRow' = [streamRow EXCEPT ![s] = row]
        /\ \/ /\ row = [status |-> t.status, out |-> RecordedTokens(t), estimated |-> t.out < 0,
                          error |-> IF t.completed \/ t.error # "none" THEN t.error ELSE "stream_incomplete"]
              /\ stage = IF t.cacheable /\ t.completed /\ t.status < 400 THEN "keep" ELSE "over"
           \/ t.gone /\ stage = "over" /\ row = NoStreamRow
  <2>1. CASE t.gone /\ stream' = [stream EXCEPT ![s].stage = "over"] /\ UNCHANGED streamRow
    BY <1>3, <2>1, TheStream
  <2>2. CASE /\ streamRow' = [streamRow EXCEPT ![s] =
                  [status |-> t.status, out |-> RecordedTokens(t), estimated |-> t.out < 0,
                   error |-> IF t.completed \/ t.error # "none" THEN t.error ELSE "stream_incomplete"]]
             /\ stream' = [stream EXCEPT ![s].stage =
                  IF t.cacheable /\ t.completed /\ t.status < 400 THEN "keep" ELSE "over"]
    BY <2>2
  <2>3. QED BY <1>1, <2>1, <2>2 DEF RecordStream
<1>5. PICK u : u = [t EXCEPT !.stage = stage]
  OBVIOUS
<1>6. StreamMoves(s, u, row, kept[s])
  <2>1. stream' = [stream EXCEPT ![s] = u]
    BY <1>1, <1>4, <1>5 DEF StreamInv, StreamShape
  <2>2. QED BY <1>4, <2>1, TheStream DEF RecordStream, StreamMoves
<1>7. stage \in {"keep", "over"}
  BY <1>4
<1>8. u \in StreamRecord
  <2>1. stage \in StreamStages
    BY <1>7 DEF StreamStages
  <2>2. [t EXCEPT !.stage = stage] \in StreamRecord
    BY <2>1, Zenon DEF StreamRecord
  <2>3. QED BY <1>5, <2>2
<1>9. u.stage = stage
  BY <1>5, Zenon DEF StreamRecord
<1>10. u.script = t.script /\ u.got = t.got /\ u.seen = t.seen /\ u.buffer = t.buffer /\ u.text = t.text
  BY <1>5 DEF StreamRecord
<1>11. u.completed = t.completed
  BY <1>5 DEF StreamRecord
<1>12. u.gone = t.gone
  BY <1>5 DEF StreamRecord
<1>13. Faithful(u)
  BY <1>1, <1>7, <1>8, <1>9, <1>10, <1>11, StreamCloses
<1>14. CASE t.gone /\ stage = "over" /\ row = NoStreamRow
  <2>1. Booked(u, row, kept[s])
    BY <1>3, <1>9, <1>12, <1>14 DEF Booked
  <2>2. QED BY <1>6, <1>8, <1>13, <1>14, <2>1, TheStream, OneStreamMoves
<1>15. CASE /\ row = [status |-> t.status, out |-> RecordedTokens(t), estimated |-> t.out < 0,
                       error |-> IF t.completed \/ t.error # "none" THEN t.error ELSE "stream_incomplete"]
            /\ stage = IF t.cacheable /\ t.completed /\ t.status < 400 THEN "keep" ELSE "over"
  <2>1. row \in StreamRows
    <3>1. /\ t.status \in Statuses /\ t.out \in Int /\ t.error \in Errors /\ t.text \in Seq(Int)
      BY StreamFields
    <3>2. RecordedTokens(t) \in Int
      BY <3>1 DEF RecordedTokens
    <3>3. PICK error : /\ error = (IF t.completed \/ t.error # "none" THEN t.error ELSE "stream_incomplete")
                       /\ error \in Errors \cup {"stream_incomplete"}
      BY <3>1
    <3>4. PICK estimated : estimated = (t.out < 0)
      OBVIOUS
    <3>5. estimated \in BOOLEAN
      BY <3>1, <3>4
    <3>6. [status |-> t.status, out |-> RecordedTokens(t), estimated |-> estimated, error |-> error] \in StreamRows
      BY <3>1, <3>2, <3>3, <3>5, Zenon DEF StreamRows
    <3>7. QED BY <1>15, <3>3, <3>4, <3>6
  <2>2. row # NoStreamRow
    <3>1. row.status = t.status /\ NoStreamRow.status = 0
      BY <1>15 DEF NoStreamRow
    <3>2. t.status # 0
      BY StreamFields DEF Statuses
    <3>3. QED BY <3>1, <3>2
  <2>3. row.error = "none" => t.completed
    BY <1>15
  <2>4. stage = "keep" => t.completed
    BY <1>15
  <2>5. Booked(u, row, kept[s])
    BY <1>3, <1>7, <1>9, <1>11, <2>2, <2>3, <2>4 DEF Booked
  <2>6. QED BY <1>6, <1>8, <1>13, <2>1, <2>5, TheStream, OneStreamMoves
<1>16. QED BY <1>4, <1>14, <1>15

LEMMA KeepStreamInv ==
    ASSUME StreamInv, NEW s \in Streams, KeepStream(s)
    PROVE  StreamInv'
<1>1. PICK t \in StreamRecord : t = stream[s] /\ Faithful(t) /\ Booked(t, streamRow[s], kept[s])
  BY TheStream
<1>2. t.stage = "keep"
  BY <1>1 DEF KeepStream, InStage
<1>3. PICK u : u = [t EXCEPT !.stage = "over"]
  OBVIOUS
<1>4. PICK copy \in [text : Seq(Int), out : Int] \cup {NotKept} :
        kept' = [kept EXCEPT ![s] = copy] /\ (copy # NotKept => copy.text = t.text)
  <2>1. CASE UNCHANGED kept
    <3>1. kept[s] = NotKept
      BY <1>1, <1>2 DEF Booked
    <3>2. QED BY <2>1, <3>1, TheStream
  <2>2. CASE kept' = [kept EXCEPT ![s] = [text |-> t.text, out |-> IF t.out < 0 THEN 0 ELSE t.out]]
    <3>1. PICK text, out : text = t.text /\ out = (IF t.out < 0 THEN 0 ELSE t.out)
      OBVIOUS
    <3>2. text \in Seq(Int) /\ out \in Int
      BY <3>1, StreamFields
    <3>3. [text |-> text, out |-> out] \in [text : Seq(Int), out : Int]
      BY <3>2
    <3>4. PICK new : new = [text |-> text, out |-> out]
      OBVIOUS
    <3>5. kept' = [kept EXCEPT ![s] = new] /\ new.text = t.text
      BY <2>2, <3>1, <3>4
    <3>6. QED BY <3>3, <3>4, <3>5
  <2>3. \/ UNCHANGED kept
        \/ kept' = [kept EXCEPT ![s] = [text |-> t.text, out |-> IF t.out < 0 THEN 0 ELSE t.out]]
    BY <1>1 DEF KeepStream
  <2>4. QED BY <2>1, <2>2, <2>3
<1>5. StreamMoves(s, u, streamRow[s], copy)
  <2>1. stream' = [stream EXCEPT ![s] = u]
    BY <1>1, <1>3 DEF KeepStream, StreamInv, StreamShape
  <2>2. QED BY <1>4, <2>1, TheStream DEF KeepStream, StreamMoves
<1>6. u \in StreamRecord
  <2>1. "over" \in StreamStages
    BY DEF StreamStages
  <2>2. [t EXCEPT !.stage = "over"] \in StreamRecord
    BY <2>1, Zenon DEF StreamRecord
  <2>3. QED BY <1>3, <2>2
<1>7. u.stage = "over"
  BY <1>3, Zenon DEF StreamRecord
<1>8. u.script = t.script /\ u.got = t.got /\ u.seen = t.seen /\ u.buffer = t.buffer /\ u.text = t.text
  BY <1>3 DEF StreamRecord
<1>9. u.completed = t.completed
  BY <1>3 DEF StreamRecord
<1>10. Faithful(u)
  BY <1>1, <1>6, <1>7, <1>8, <1>9, StreamCloses
<1>11. Booked(u, streamRow[s], copy)
  BY <1>1, <1>2, <1>4, <1>7, <1>8, <1>9 DEF Booked
<1>12. QED BY <1>4, <1>5, <1>6, <1>10, <1>11, TheStream, OneStreamMoves
-----------------------------------------------------------------------------
(* The theorems.                                                            *)

LEMMA StreamInvNext == StreamInv /\ [StreamingNext]_streamVars => StreamInv'
<1> SUFFICES ASSUME StreamInv, [StreamingNext]_streamVars PROVE StreamInv'
  OBVIOUS
<1>1. CASE UNCHANGED streamVars
  BY <1>1 DEF StreamInv, StreamShape, streamVars
<1>2. ASSUME NEW s \in Streams,
             \/ OpenUpstream(s)
             \/ ReadPiece(s)
             \/ YieldEvent(s)
             \/ UpstreamEnds(s)
             \/ Inspect(s)
             \/ StreamBreaks(s)
             \/ ClientLeaves(s)
             \/ RecordStream(s)
             \/ KeepStream(s)
      PROVE  StreamInv'
  BY <1>2, OpenUpstreamInv, ReadPieceInv, YieldEventInv, UpstreamEndsInv, InspectInv,
     StreamBreaksInv, ClientLeavesInv, RecordStreamInv, KeepStreamInv
<1>3. QED BY <1>1, <1>2 DEF StreamingNext

LEMMA StreamInvHolds == StreamingSpec => []StreamInv
  BY StreamsBegin, StreamInvNext, PTL DEF StreamingSpec

LEMMA StreamInvTypes == StreamInv => StreamingTypeOK
<1> SUFFICES ASSUME StreamInv, NEW s \in Streams
             PROVE  /\ stream[s].script \in Scripts /\ stream[s].got \in 0 .. 2 * MaxEvents
                    /\ stream[s].stage \in StreamStages
                    /\ stream[s].status \in Statuses
                    /\ stream[s].error \in Errors
                    /\ kept[s] # NotKept => streamRow[s] # NoStreamRow
  BY Zenon DEF StreamingTypeOK, StreamStages, Statuses, Errors
<1>1. PICK t \in StreamRecord : t = stream[s] /\ Faithful(t) /\ Booked(t, streamRow[s], kept[s])
  BY TheStream
<1>2. t.script \in Scripts /\ t.status \in Statuses /\ t.error \in Errors
  BY StreamFields
<1>3. t.stage \in StreamStages
  BY DEF StreamRecord
<1>4. t.got \in 0 .. 2 * MaxEvents
  <2>1. t.got \in Nat /\ Len(t.script) \in 1 .. MaxEvents
    BY StreamFields
  <2>2. t.got <= 2 * Len(t.script)
    BY <1>1 DEF Faithful, Delivered
  <2>3. QED BY <2>1, <2>2, StreamingAssumption
<1>5. kept[s] # NotKept => streamRow[s] # NoStreamRow
  BY <1>1 DEF Booked
<1>6. QED BY <1>1, <1>2, <1>3, <1>4, <1>5

LEMMA StreamInvIsFaithful == StreamInv => StreamsAreFaithful
<1> SUFFICES ASSUME StreamInv, NEW s \in Streams
             PROVE  PassedOn(stream[s]) /\ RowsAreHonest(s) /\ KeptIsWhole(s)
  BY DEF StreamsAreFaithful
<1>1. PICK t \in StreamRecord : t = stream[s] /\ Faithful(t) /\ Booked(t, streamRow[s], kept[s])
  BY TheStream
<1>2. PICK z \in Int, k \in Int, n \in Int : z = 0 /\ k = Len(t.seen) /\ n = t.got
  BY StreamFields
<1>3. z <= k /\ k <= n /\ t.seen = Bytes(z, k) /\ t.buffer = Bytes(k, n)
  <2>1. k \in Nat
    BY <1>2, StreamFields
  <2>2. QED BY <1>1, <1>2, <2>1 DEF Faithful, Delivered
<1>4. PassedOn(t)
  <2>1. t.seen \o t.buffer = Bytes(z, n)
    BY <1>3, RunsJoin
  <2>2. Bytes(z, n) = [i \in 1 .. t.got |-> i]
    BY <1>2 DEF Bytes
  <2>3. QED BY <1>1, <2>1, <2>2 DEF PassedOn, Faithful
<1>5. RowsAreHonest(s)
  <2>1. t.stage = "over" /\ streamRow[s] = NoStreamRow => t.gone
    BY <1>1 DEF Booked
  <2>2. ASSUME streamRow[s] # NoStreamRow, streamRow[s].error = "none"
        PROVE  \E i \in 1 .. Len(t.script) : t.script[i] = "done" /\ Contains(t.seen, 2 * i - 1)
    <3>1. Complete(t)
      BY <1>1, <2>2 DEF Booked, Faithful
    <3>2. PICK i \in Nat : i = Len(t.script) /\ i \in 1 .. Len(t.script)
      BY StreamFields
    <3>3. t.script[i] = "done" /\ k >= 2 * i - 1
      BY <1>2, <3>1, <3>2 DEF Complete
    <3>4. 2 * i - 1 \in 1 .. k - z
      BY <1>2, <3>2, <3>3
    <3>5. t.seen[2 * i - 1] = 2 * i - 1
      <4>1. Bytes(z, k)[2 * i - 1] = z + (2 * i - 1)
        BY <1>3, <3>4, BytesAreASequence
      <4>2. QED BY <1>2, <1>3, <3>4, <4>1
    <3>6. Contains(t.seen, 2 * i - 1)
      BY <1>2, <3>4, <3>5 DEF Contains
    <3>7. QED BY <3>2, <3>3, <3>6
  <2>3. QED BY <1>1, <2>1, <2>2 DEF RowsAreHonest
<1>6. KeptIsWhole(s)
  <2>1. ASSUME kept[s] # NotKept
        PROVE  /\ Spells(kept[s].text, t.script, 2 * Len(t.script))
               /\ FlattenSeq(Replayed(kept[s].text)) = kept[s].text
    <3>1. kept[s].text = t.text /\ Complete(t)
      BY <1>1, <2>1 DEF Booked, Faithful
    <3>2. FlattenSeq(Replayed(t.text)) = t.text
      BY StreamFields, ReplayIsWhole
    <3>3. QED BY <3>1, <3>2 DEF Complete
  <2>2. QED BY <1>1, <2>1 DEF KeptIsWhole
<1>7. QED BY <1>1, <1>4, <1>5, <1>6

\* Every stream keeps the stages, the statuses and the bounds of the handler:
\* nothing is cached of a stream that has no ledger row.
THEOREM StreamingTypes == StreamingSpec => []StreamingTypeOK
  BY StreamInvHolds, StreamInvTypes, PTL

\* Wherever the network cuts a stream and whoever hangs up when, tee_stream
\* alters no byte, _record_stream's row says how the stream ended, and what
\* _assemble_streamed_body keeps is the whole text, in chunks or not.
THEOREM StreamsStayFaithful == StreamingSpec => []StreamsAreFaithful
  BY StreamInvHolds, StreamInvIsFaithful, PTL
=============================================================================

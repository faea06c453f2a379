------------------------- MODULE SourceChunksProofs -------------------------
(***************************************************************************)
(* Proofs about SourceChunks, for any runs, pages, texts and settings, and *)
(* any number of documents, failures and crashes.                          *)
(*                                                                         *)
(* The first part is about the chunks of documents: the list that          *)
(* FlattenSeq makes of lists of chunks is a list of chunks, by induction   *)
(* on its length in the form "no number is the least counterexample".      *)
(* The second part is the invariant: what every thread has done and has    *)
(* still to do (Progress), who may create the collection (Making), and     *)
(* that chunks stand where they belong (Placed).                           *)
(***************************************************************************)
EXTENDS SourceChunks, FiniteSetTheorems, SequenceTheorems, WellFoundedInduction, TLAPS

-----------------------------------------------------------------------------
(* Numbers and lists *)

\* Every set of natural numbers that is not empty has a least element.
LEMMA LeastNumber ==
  ASSUME NEW T, T \subseteq Nat, T # {}
  PROVE  \E x \in T : \A y \in T : x <= y
<1> DEFINE R == {ss \in Nat \X Nat : ss[1] < ss[2]}
<1>1. IsWellFoundedOn(R, Nat)
  BY NatLessThanWellFounded, Zenon DEF OpToRel
<1> HIDE DEF R
<1>2. PICK x \in T : \A y \in T : ~(<<y, x>> \in R)
  BY <1>1, WFMin
<1>3. ASSUME NEW y \in T
      PROVE  x <= y
  <2>1. x \in Nat /\ y \in Nat
    BY <1>2, <1>3
  <2>2. y < x => <<y, x>> \in R
    BY <2>1 DEF R
  <2>3. ~(<<y, x>> \in R)
    BY <1>2, <1>3
  <2> QED
    BY <2>1, <2>2, <2>3
<1> QED
  BY <1>3

\* g is the function by which FlattenSeq joins the first n lists of s.
Flattens(g, s, n) == g = [i \in 1..n |-> IF i = 1 THEN s[i] ELSE g[i-1] \o s[i]]

\* There is one for every n.
LEMMA FlattenExists ==
  ASSUME NEW s, NEW n \in Nat
  PROVE  \E g : Flattens(g, s, n)
<1> DEFINE T == {k \in Nat : ~\E g : Flattens(g, s, k)}
<1> SUFFICES ASSUME T # {}
             PROVE  FALSE
  OBVIOUS
<1>1. PICK k \in T : \A j \in T : k <= j
  <2>1. T \subseteq Nat
    OBVIOUS
  <2> HIDE DEF T
  <2> QED
    BY <2>1, LeastNumber
<1>2. CASE k = 0
  <2>1. Flattens([i \in 1..0 |-> 0], s, 0)
    BY DEF Flattens
  <2> QED
    BY <1>1, <1>2, <2>1
<1>3. CASE k # 0
  <2>1. k - 1 \in Nat /\ k - 1 \notin T
    BY <1>1, <1>3
  <2>2. PICK g : Flattens(g, s, k - 1)
    BY <2>1
  <2> DEFINE h == [i \in 1..k |-> IF i < k THEN g[i] ELSE IF k = 1 THEN s[k] ELSE g[k-1] \o s[k]]
  <2>3. ASSUME NEW i \in 1..k
        PROVE  h[i] = IF i = 1 THEN s[i] ELSE h[i-1] \o s[i]
    <3>1. CASE i < k
      <4>1. i \in 1..(k-1)
        BY <3>1, <2>1
      <4>2. g[i] = IF i = 1 THEN s[i] ELSE g[i-1] \o s[i]
        BY <4>1, <2>2 DEF Flattens
      <4>3. h[i] = g[i]
        BY <3>1
      <4>4. i # 1 => i-1 \in 1..k /\ i - 1 < k
        BY <4>1
      <4>5. i # 1 => h[i-1] = g[i-1]
        BY <4>4
      <4> QED
        BY <4>2, <4>3, <4>5
    <3>2. CASE i = k
      <4>1. k # 1 => k-1 \in 1..k /\ k - 1 < k
        BY <2>1, <1>3
      <4>2. k # 1 => h[k-1] = g[k-1]
        BY <4>1
      <4> QED
        BY <3>2, <4>2
    <3> QED
      BY <3>1, <3>2, <1>1
  <2>4. h = [i \in 1..k |-> IF i = 1 THEN s[i] ELSE h[i-1] \o s[i]]
    BY <2>3
  <2>5. Flattens(h, s, k)
    BY <2>4 DEF Flattens
  <2> QED
    BY <2>5, <1>1
<1> QED
  BY <1>2, <1>3

\* A list of lists over S is flattened to a list over S.
LEMMA FlattenType ==
  ASSUME NEW S, NEW s \in Seq(Seq(S))
  PROVE  FlattenSeq(s) \in Seq(S)
<1>1. CASE Len(s) = 0
  <2>1. s = <<>>
    BY <1>1
  <2>2. FlattenSeq(s) = s
    BY <1>1 DEF FlattenSeq
  <2>3. <<>> \in Seq(S)
    OBVIOUS
  <2> QED
    BY <2>1, <2>2, <2>3, Zenon
<1>2. CASE Len(s) # 0
  <2> DEFINE f == CHOOSE g : Flattens(g, s, Len(s))
  <2>1. Len(s) \in Nat
    BY LenProperties
  <2>2. Flattens(f, s, Len(s))
    <3>1. \E g : Flattens(g, s, Len(s))
      BY <2>1, FlattenExists
    <3> QED
      BY <3>1, Zenon
  <2>3. FlattenSeq(s) = f[Len(s)]
    BY <1>2, Zenon DEF FlattenSeq, Flattens
  <2> HIDE DEF f
  <2> DEFINE T == {k \in 1..Len(s) : f[k] \notin Seq(S)}
  <2>4. T = {}
    <3> SUFFICES ASSUME T # {}
                 PROVE  FALSE
      OBVIOUS
    <3>1. T \subseteq Nat
      BY <2>1
    <3>2. PICK k \in T : \A j \in T : k <= j
      <4> HIDE DEF T
      <4> QED
        BY <3>1, LeastNumber
    <3>3. f[k] = IF k = 1 THEN s[k] ELSE f[k-1] \o s[k]
      BY <2>2, <3>2 DEF Flattens
    <3>4. s[k] \in Seq(S)
      BY <3>2, ElementOfSeq
    <3>5. CASE k = 1
      BY <3>2, <3>3, <3>4, <3>5
    <3>6. CASE k # 1
      <4>1. k - 1 \in 1..Len(s) /\ k - 1 < k
        BY <3>2, <3>6, <2>1
      <4>2. f[k-1] \in Seq(S)
        BY <4>1, <3>2
      <4>3. f[k-1] \o s[k] \in Seq(S)
        BY <3>4, <4>2, ConcatProperties
      <4> QED
        BY <3>3, <3>6, <4>3, <3>2
    <3> QED
      BY <3>5, <3>6
  <2> QED
    BY <2>3, <2>4, <2>1, <1>2
<1> QED
  BY <1>1, <1>2

\* The elements of a finite set in some order are a list of them.
LEMMA SetToSeqType ==
  ASSUME NEW S, IsFiniteSet(S)
  PROVE  SetToSeq(S) \in Seq(S)
<1>1. Cardinality(S) \in Nat /\ ExistsBijection(1..Cardinality(S), S)
  BY FS_CardinalityType
<1>2. PICK f \in Bijection(1..Cardinality(S), S) : TRUE
  BY <1>1 DEF ExistsBijection
<1>3. f \in [1..Cardinality(S) -> S] /\ IsInjective(f)
  BY <1>2 DEF Bijection, Injection, IsInjective
<1>4. SetToSeq(S) \in [1..Cardinality(S) -> S]
  BY <1>3, Zenon DEF SetToSeq
<1> QED
  BY <1>1, <1>4

-----------------------------------------------------------------------------
(* The chunks of documents *)

\* A chunk whose number is the number of its piece of the text
PlacedChunk == {c \in Chunk : c.index = c.piece /\ c.piece <= Length[c.ver]}

\* The windows of a whole document are placed chunks.
LEMMA ChunksPlaced ==
  ASSUME ChunksAssumption, NEW doc \in Doc, doc.piece = 0
  PROVE  Chunks(doc) \in Seq(PlacedChunk)
<1>1. doc.ver \in Version /\ Length[doc.ver] \in Nat /\ doc.page \in Page
  BY DEF Doc, ChunksAssumption, Version
<1>2. 1..Length[doc.ver] \subseteq Piece
  BY <1>1 DEF Piece, Pieces
<1>3. \A i \in 1..Length[doc.ver] :
        [page |-> doc.page, index |-> i, ver |-> doc.ver, piece |-> i] \in PlacedChunk
  BY <1>1, <1>2 DEF PlacedChunk, Chunk
<1>4. Chunks(doc) =
        [i \in 1..Length[doc.ver] |-> [page |-> doc.page, index |-> i, ver |-> doc.ver, piece |-> i]]
  BY DEF Chunks, Split
<1> QED
  BY <1>1, <1>3, <1>4

\* So are all the chunks a run indexes.
LEMMA AllChunksPlaced ==
  ASSUME ChunksAssumption, NEW d \in Seq(Doc)
  PROVE  AllChunks(d) \in Seq(PlacedChunk)
<1> DEFINE part(i) == IF i \in Indexable(d) THEN Chunks(d[i]) ELSE <<>>
<1>1. ASSUME NEW i \in DOMAIN d
      PROVE  part(i) \in Seq(PlacedChunk)
  <2>1. CASE i \in Indexable(d)
    <3>1. d[i] \in Doc
      BY <1>1
    <3>2. d[i].piece = 0
      BY <2>1 DEF Indexable
    <3> QED
      BY <2>1, <3>1, <3>2, ChunksPlaced
  <2>2. CASE i \notin Indexable(d)
    BY <2>2
  <2> QED
    BY <2>1, <2>2
<1> HIDE DEF part
<1>2. [i \in DOMAIN d |-> part(i)] \in Seq(Seq(PlacedChunk))
  <2>1. DOMAIN d = 1..Len(d) /\ Len(d) \in Nat
    OBVIOUS
  <2> QED
    BY <1>1, <2>1
<1>3. FlattenSeq([i \in DOMAIN d |-> part(i)]) \in Seq(PlacedChunk)
  BY <1>2, FlattenType
<1> QED
  BY <1>3 DEF AllChunks, part

\* The documents that were made of stored chunks are documents.
LEMMA FoundType ==
  ASSUME TypeOK, NEW S \in Candidates, NEW T \in Kept(S), NEW relevant \in Relevant(T)
  PROVE  Found(relevant) \in Seq(Doc)
<1> DEFINE D == {StoredDoc(id) : id \in relevant}
<1>1. relevant \subseteq {id \in ChunkId : points[id] # Absent} /\ IsFiniteSet(relevant)
  <2>1. S \subseteq {id \in ChunkId : points[id] # Absent} /\ IsFiniteSet(S)
    BY DEF Candidates
  <2>2. relevant \subseteq S
    BY DEF Kept, Relevant
  <2> QED
    BY <2>1, <2>2, FS_Subset
<1>2. IsFiniteSet(D)
  <2> DEFINE f == [id \in relevant |-> StoredDoc(id)]
  <2>1. f \in Surjection(relevant, D)
    BY DEF Surjection
  <2> HIDE DEF f, D
  <2> QED
    BY <1>1, <2>1, FS_Surjection
<1>3. D \subseteq Doc
  <2>1. ASSUME NEW id \in relevant
        PROVE  StoredDoc(id) \in Doc
    BY <1>1 DEF TypeOK, StoredDoc, Doc, Text, ChunkId
  <2> QED
    BY <2>1
<1> HIDE DEF D
<1>4. SetToSeq(D) \in Seq(Doc)
  BY <1>2, <1>3, SetToSeqType, SeqMonotonic
<1>5. <<>> \in Seq(Doc)
  OBVIOUS
<1> QED
  BY <1>4, <1>5 DEF Found, D

-----------------------------------------------------------------------------
(* Upserts *)

\* If a list has a chunk with an id, it has a last one.
LEMMA LastChunk ==
  ASSUME NEW chunks \in Seq(PlacedChunk), NEW id, \E k \in DOMAIN chunks : Id(chunks[k]) = id
  PROVE  \E k \in DOMAIN chunks :
           Id(chunks[k]) = id /\ \A j \in DOMAIN chunks : Id(chunks[j]) = id => j <= k
<1> DEFINE K == {k \in DOMAIN chunks : Id(chunks[k]) = id}
           T == {Len(chunks) - k : k \in K}
<1>1. K \subseteq 1..Len(chunks) /\ Len(chunks) \in Nat
  OBVIOUS
<1>2. T \subseteq Nat /\ T # {}
  BY <1>1
<1>3. PICK t \in T : \A u \in T : t <= u
  <2> HIDE DEF T
  <2> QED
    BY <1>2, LeastNumber
<1>4. PICK k \in K : t = Len(chunks) - k
  BY <1>3
<1>5. ASSUME NEW j \in K
      PROVE  j <= k
  <2>1. Len(chunks) - j \in T
    OBVIOUS
  <2>2. Len(chunks) - k <= Len(chunks) - j
    BY <2>1, <1>3, <1>4
  <2> QED
    BY <2>2, <1>1, <1>4
<1> QED
  BY <1>4, <1>5

\* What an upsert leaves under an id: a placed chunk, or what was there
LEMMA UpsertedAt ==
  ASSUME ChunksAssumption, NEW chunks \in Seq(PlacedChunk), NEW id \in ChunkId
  PROVE  \/ /\ \E k \in DOMAIN chunks : Id(chunks[k]) = id
            /\ \E c \in PlacedChunk :
                 Id(c) = id /\ Upserted(chunks)[id] = [ver |-> c.ver, piece |-> c.piece]
         \/ /\ ~\E k \in DOMAIN chunks : Id(chunks[k]) = id
            /\ Upserted(chunks)[id] = points[id]
<1>1. CASE \E k \in DOMAIN chunks : Id(chunks[k]) = id
  <2> DEFINE last == CHOOSE k \in DOMAIN chunks :
                       Id(chunks[k]) = id /\ \A j \in DOMAIN chunks : Id(chunks[j]) = id => j <= k
  <2>1. last \in DOMAIN chunks /\ Id(chunks[last]) = id
    BY <1>1, LastChunk
  <2>2. Upserted(chunks)[id] = [ver |-> chunks[last].ver, piece |-> chunks[last].piece]
    BY <1>1, Zenon DEF Upserted
  <2> HIDE DEF last
  <2>3. chunks[last] \in PlacedChunk
    BY <2>1
  <2> QED
    BY <1>1, <2>1, <2>2, <2>3
<1>2. CASE ~\E k \in DOMAIN chunks : Id(chunks[k]) = id
  BY <1>2 DEF Upserted
<1> QED
  BY <1>1, <1>2

\* A placed chunk is not nothing.
LEMMA PlacedPresent ==
  ASSUME ChunksAssumption, NEW c \in PlacedChunk
  PROVE  /\ [ver |-> c.ver, piece |-> c.piece] \in Text
         /\ [ver |-> c.ver, piece |-> c.piece] # Absent
         /\ Id(c) \in ChunkId
         /\ c.piece = Id(c)[2] /\ Id(c)[2] <= Length[c.ver]
<1>1. c.ver \in Version /\ c.piece \in Piece /\ c.index = c.piece /\ c.page \in Page
  BY DEF PlacedChunk, Chunk
<1>2. c.ver # 0
  BY <1>1 DEF Version, ChunksAssumption
<1> QED
  BY <1>1, <1>2 DEF Text, Absent, Id, ChunkId, PlacedChunk

\* After an upsert its chunks are stored, what was stored is stored, and all is of its type.
LEMMA UpsertedPoints ==
  ASSUME ChunksAssumption, TypeOK, NEW chunks \in Seq(PlacedChunk)
  PROVE  /\ Upserted(chunks) \in [ChunkId -> Text \cup {Absent}]
         /\ \A id \in ChunkId : points[id] # Absent => Upserted(chunks)[id] # Absent
         /\ \A k \in DOMAIN chunks : Upserted(chunks)[Id(chunks[k])] # Absent
<1>1. ASSUME NEW id \in ChunkId, \E k \in DOMAIN chunks : Id(chunks[k]) = id
      PROVE  Upserted(chunks)[id] \in Text /\ Upserted(chunks)[id] # Absent
  <2>1. PICK c \in PlacedChunk :
          Id(c) = id /\ Upserted(chunks)[id] = [ver |-> c.ver, piece |-> c.piece]
    BY <1>1, UpsertedAt
  <2>2. /\ [ver |-> c.ver, piece |-> c.piece] \in Text
        /\ [ver |-> c.ver, piece |-> c.piece] # Absent
    BY PlacedPresent
  <2> QED
    BY <2>1, <2>2
<1>2. ASSUME NEW id \in ChunkId, ~\E k \in DOMAIN chunks : Id(chunks[k]) = id
      PROVE  Upserted(chunks)[id] = points[id]
  BY <1>2, UpsertedAt
<1>3. \A id \in ChunkId : points[id] \in Text \cup {Absent}
  BY DEF TypeOK
<1>4. ASSUME NEW k \in DOMAIN chunks
      PROVE  Upserted(chunks)[Id(chunks[k])] # Absent
  <2>1. chunks[k] \in PlacedChunk
    OBVIOUS
  <2>2. Id(chunks[k]) \in ChunkId
    BY <2>1, PlacedPresent
  <2> QED
    BY <2>2, <1>1
<1>5. DOMAIN Upserted(chunks) = ChunkId /\ Upserted(chunks) = [id \in ChunkId |-> Upserted(chunks)[id]]
  BY DEF Upserted
<1>6. \A id \in ChunkId : Upserted(chunks)[id] \in Text \cup {Absent}
  BY <1>1, <1>2, <1>3
<1>7. Upserted(chunks) \in [ChunkId -> Text \cup {Absent}]
  BY <1>5, <1>6
<1> QED
  BY <1>1, <1>2, <1>4, <1>7

\* The part of the list that is written, and the rest, are placed chunks.
LEMMA PartType ==
  ASSUME ChunksAssumption, NEW r \in Run, todo[r] \in Seq(PlacedChunk)
  PROVE  LET n == Least(Batch, Len(todo[r])) IN
         /\ n \in 0..Len(todo[r])
         /\ Part(r) \in Seq(PlacedChunk) /\ Len(Part(r)) = n
         /\ \A k \in 1..n : Part(r)[k] = todo[r][k]
         /\ SubSeq(todo[r], n + 1, Len(todo[r])) \in Seq(PlacedChunk)
         /\ Len(SubSeq(todo[r], n + 1, Len(todo[r]))) = Len(todo[r]) - n
         /\ \A k \in 1..(Len(todo[r]) - n) : SubSeq(todo[r], n + 1, Len(todo[r]))[k] = todo[r][n + k]
<1> DEFINE n == Least(Batch, Len(todo[r]))
           rest == SubSeq(todo[r], n + 1, Len(todo[r]))
<1>1. Len(todo[r]) \in Nat /\ \A i \in 1..Len(todo[r]) : todo[r][i] \in PlacedChunk
  OBVIOUS
<1>2. n \in 0..Len(todo[r])
  BY <1>1 DEF ChunksAssumption, Least
<1> HIDE DEF n
<1>3. /\ SubSeq(todo[r], 1, n) \in Seq(PlacedChunk)
      /\ Len(SubSeq(todo[r], 1, n)) = n
      /\ \A k \in 1..n : SubSeq(todo[r], 1, n)[k] = todo[r][k]
  <2>1. \A i \in 1..n : todo[r][i] \in PlacedChunk
    BY <1>1, <1>2
  <2>2. /\ SubSeq(todo[r], 1, n) \in Seq(PlacedChunk)
        /\ Len(SubSeq(todo[r], 1, n)) = IF 1 <= n THEN n - 1 + 1 ELSE 0
        /\ \A k \in 1..(n - 1 + 1) : SubSeq(todo[r], 1, n)[k] = todo[r][1 + k - 1]
    BY <1>2, <2>1, SubSeqProperties
  <2> QED
    BY <1>2, <2>2
<1>4. /\ rest \in Seq(PlacedChunk)
      /\ Len(rest) = Len(todo[r]) - n
      /\ \A k \in 1..(Len(todo[r]) - n) : rest[k] = todo[r][n + k]
  <2>1. \A i \in (n+1)..Len(todo[r]) : todo[r][i] \in PlacedChunk
    BY <1>1, <1>2
  <2>2. n + 1 \in Int /\ Len(todo[r]) \in Int
    BY <1>1, <1>2
  <2>3. /\ rest \in Seq(PlacedChunk)
        /\ Len(rest) = IF n + 1 <= Len(todo[r]) THEN Len(todo[r]) - (n + 1) + 1 ELSE 0
        /\ \A k \in 1..(Len(todo[r]) - (n + 1) + 1) : rest[k] = todo[r][n + 1 + k - 1]
    BY <2>1, <2>2, SubSeqProperties
  <2> QED
    BY <1>1, <1>2, <2>3
<1> QED
  BY <1>2, <1>3, <1>4 DEF n, Part

-----------------------------------------------------------------------------
(* The collection *)

\* Who may create it: CollectionIsMadeOnce, and its creator has an index to create.
Making ==
  /\ CollectionIsMadeOnce
  /\ \A r \in Run : thread[r] = "fields" => indexes < FieldCount

\* The chunks that are to be written are placed, and only runs at work have something to show.
Standing ==
  \A r \in Run :
    /\ todo[r] \in Seq(PlacedChunk)
    /\ pc[r] \in {"new", "research"} => thread[r] = "none" /\ written[r] = 0
    /\ pc[r] = "waiting" => thread[r] # "none"
    /\ pc[r] # "over" => reported[r] = 0

Base == TypeOK /\ Making /\ Standing

\* It holds at the beginning.
LEMMA BaseInit ==
  ASSUME ChunksAssumption, Init
  PROVE  Base
<1>1. 1 \in Version
  BY DEF ChunksAssumption, Version
<1>2. <<>> \in Seq(Doc) /\ <<>> \in Seq(Chunk) /\ <<>> \in Seq(PlacedChunk)
  OBVIOUS
<1>3. TypeOK
  <2>1. 0 \in 0..FieldCount /\ 0 \in 0..MaxFaults /\ 0 \in Nat
    BY DEF ChunksAssumption
  <2>2. live \in [Page -> Version] /\ points \in [ChunkId -> Text \cup {Absent}]
    BY <1>1 DEF Init
  <2>3. docs \in [Run -> Seq(Doc)] /\ todo \in [Run -> Seq(Chunk)]
    BY <1>2 DEF Init
  <2>4. \A id \in ChunkId : points[id] = Absent
    BY DEF Init
  <2> QED
    BY <2>1, <2>2, <2>3, <2>4 DEF Init, TypeOK
<1>4. Making
  BY DEF Init, Making, CollectionIsMadeOnce
<1>5. Standing
  BY <1>2 DEF Init, Standing
<1> QED
  BY <1>3, <1>4, <1>5 DEF Base

\* What Standing says of the lists makes them lists of chunks.
LEMMA PlacedAreChunks ==
  ASSUME NEW s \in Seq(PlacedChunk)
  PROVE  s \in Seq(Chunk)
<1>1. PlacedChunk \subseteq Chunk
  BY DEF PlacedChunk
<1> QED
  BY <1>1, SeqMonotonic

\* The steps of a run other than its thread's keep it.
LEMMA RunKeepsBase ==
  ASSUME ChunksAssumption, Base, NEW r \in Run,
         \/ Retrieve(r) \/ NotRetrieved(r) \/ (\E p \in Page : Fetch(r, p))
         \/ Ingest(r) \/ SkipIngest(r) \/ Return(r) \/ GiveUp(r)
  PROVE  Base'
<1> USE DEF Base, server
<1>1. CASE Retrieve(r) \/ NotRetrieved(r)
  <2>1. PICK d \in Seq(Doc) : Starts(r, d)
    <3>1. CASE Retrieve(r)
      <4>1. PICK S \in Candidates : \E T \in Kept(S) : \E relevant \in Relevant(T) :
              Starts(r, Found(relevant))
        BY <3>1 DEF Retrieve
      <4>2. PICK T \in Kept(S) : \E relevant \in Relevant(T) : Starts(r, Found(relevant))
        BY <4>1
      <4>3. PICK relevant \in Relevant(T) : Starts(r, Found(relevant))
        BY <4>2
      <4>4. Found(relevant) \in Seq(Doc)
        BY FoundType
      <4> QED
        BY <4>3, <4>4
    <3>2. CASE NotRetrieved(r)
      <4>1. <<>> \in Seq(Doc)
        OBVIOUS
      <4> QED
        BY <3>2, <4>1 DEF NotRetrieved
    <3> QED
      BY <1>1, <3>1, <3>2
  <2>2. TypeOK'
    BY <2>1 DEF TypeOK, Starts
  <2>3. Making'
    BY <2>1 DEF Making, CollectionIsMadeOnce, Starts
  <2>4. Standing'
    BY <2>1 DEF TypeOK, Standing, Starts
  <2> QED
    BY <2>2, <2>3, <2>4
<1>2. CASE \E p \in Page : Fetch(r, p)
  <2>1. PICK p \in Page : Fetch(r, p)
    BY <1>2
  <2>2. TypeOK'
    <3>1. Whole(p) \in Doc
      BY DEF Whole, Doc, TypeOK
    <3>2. Append(docs[r], Whole(p)) \in Seq(Doc)
      BY <3>1 DEF TypeOK
    <3> QED
      BY <2>1, <3>2 DEF TypeOK, Fetch
  <2>3. Making'
    BY <2>1 DEF Making, CollectionIsMadeOnce, Fetch
  <2>4. Standing'
    BY <2>1 DEF Standing, Fetch
  <2> QED
    BY <2>2, <2>3, <2>4
<1>3. CASE Ingest(r)
  <2>1. AllChunks(docs[r]) \in Seq(PlacedChunk)
    BY AllChunksPlaced DEF TypeOK
  <2>2. TypeOK'
    <3>1. AllChunks(docs[r]) \in Seq(Chunk)
      BY <2>1, PlacedAreChunks
    <3> QED
      BY <1>3, <3>1 DEF TypeOK, Ingest
  <2>3. Making'
    BY <1>3 DEF TypeOK, Making, CollectionIsMadeOnce, Ingest
  <2>4. Standing'
    BY <1>3, <2>1 DEF TypeOK, Standing, Ingest
  <2> QED
    BY <2>2, <2>3, <2>4
<1>4. CASE SkipIngest(r) \/ Return(r) \/ GiveUp(r)
  <2>1. PICK n \in Nat : Ends(r, n)
    BY <1>4 DEF TypeOK, SkipIngest, Return, GiveUp
  <2>2. TypeOK'
    BY <2>1 DEF TypeOK, Ends
  <2>3. Making'
    BY <2>1 DEF Making, CollectionIsMadeOnce, Ends
  <2>4. Standing'
    BY <2>1 DEF TypeOK, Standing, Ends
  <2> QED
    BY <2>2, <2>3, <2>4
<1> QED
  BY <1>1, <1>2, <1>3, <1>4

\* The steps of a thread keep it.
LEMMA ThreadKeepsBase ==
  ASSUME ChunksAssumption, Base, NEW r \in Run, Work(r)
  PROVE  Base'
<1> USE DEF Base, server, Goes
<1>t. /\ thread \in [Run -> {"none", "ensure", "exists", "create", "fields", "upsert", "done", "failed"}]
      /\ indexes \in Nat /\ FieldCount \in Nat \ {0} /\ faults \in Nat /\ MaxFaults \in Nat
  BY DEF TypeOK, ChunksAssumption
<1>1. CASE Ensure(r) \/ CheckExists(r)
  <2>1. TypeOK'
    BY <1>1 DEF TypeOK, Ensure, CheckExists
  <2>2. Making'
    BY <1>1, <1>t DEF Making, CollectionIsMadeOnce, Ensure, CheckExists
  <2>3. Standing'
    BY <1>1, <1>t DEF Standing, Ensure, CheckExists
  <2> QED
    BY <2>1, <2>2, <2>3
<1>2. CASE Create(r) \/ CreateUnanswered(r)
  <2>1. TypeOK'
    <3>1. CASE Create(r)
      BY <3>1 DEF TypeOK, Create
    <3>2. CASE CreateUnanswered(r)
      <4>1. faults' \in 0..MaxFaults
        BY <3>2, <1>t DEF CreateUnanswered, Fails
      <4> QED
        BY <3>2, <4>1 DEF TypeOK, CreateUnanswered, Fails
    <3> QED
      BY <1>2, <3>1, <3>2
  <2>2. Making'
    <3>1. ~exists => indexes = 0
      BY DEF TypeOK
    <3> QED
      BY <1>2, <1>t, <3>1 DEF Making, CollectionIsMadeOnce, Create, CreateUnanswered, Fails
  <2>3. Standing'
    BY <1>2, <1>t DEF Standing, Create, CreateUnanswered, Fails
  <2> QED
    BY <2>1, <2>2, <2>3
<1>3. CASE CreateIndex(r) \/ IndexUnanswered(r)
  <2>1. thread[r] = "fields" /\ exists /\ indexes < FieldCount
    BY <1>3 DEF Making, CollectionIsMadeOnce, CreateIndex, IndexUnanswered
  <2>2. TypeOK'
    <3>0. indexes' = indexes + 1
      BY <1>3 DEF CreateIndex, IndexUnanswered
    <3>1. indexes' \in 0..FieldCount
      BY <3>0, <1>t, <2>1
    <3>2. CASE CreateIndex(r)
      <4>1. ready' \in BOOLEAN
        BY <3>2 DEF TypeOK, CreateIndex
      <4>2. thread' \in [Run -> {"none", "ensure", "exists", "create", "fields", "upsert", "done", "failed"}]
        BY <3>2, <1>t DEF CreateIndex
      <4> QED
        BY <3>1, <3>2, <4>1, <4>2, <2>1 DEF TypeOK, CreateIndex
    <3>3. CASE IndexUnanswered(r)
      <4>1. faults' \in 0..MaxFaults
        BY <3>3, <1>t DEF IndexUnanswered, Fails
      <4> QED
        BY <3>1, <3>3, <4>1, <2>1 DEF TypeOK, IndexUnanswered, Fails
    <3> QED
      BY <1>3, <3>2, <3>3
  <2>3. Making'
    <3>1. \A s \in Run : thread[s] = "fields" => s = r
      BY <2>1 DEF Making, CollectionIsMadeOnce
    <3>2. \A s \in Run : s # r => thread'[s] # "fields"
      BY <1>3, <1>t, <3>1 DEF CreateIndex, IndexUnanswered, Fails
    <3>3. thread'[r] = "fields" => indexes' < FieldCount
      <4>1. indexes' = indexes + 1
        BY <1>3 DEF CreateIndex, IndexUnanswered
      <4>2. thread'[r] = "fields" => indexes' # FieldCount
        BY <1>3, <1>t DEF CreateIndex, IndexUnanswered, Fails
      <4> QED
        BY <4>1, <4>2, <1>t, <2>1
    <3>4. exists'
      BY <1>3, <2>1 DEF CreateIndex, IndexUnanswered
    <3> QED
      BY <3>2, <3>3, <3>4 DEF Making, CollectionIsMadeOnce
  <2>4. Standing'
    BY <1>3, <1>t DEF Standing, CreateIndex, IndexUnanswered, Fails
  <2> QED
    BY <2>2, <2>3, <2>4
<1>4. CASE Upsert(r) \/ UpsertUnanswered(r)
  <2> DEFINE rest == SubSeq(todo[r], Len(Part(r)) + 1, Len(todo[r]))
  <2>1. exists
    BY <1>4 DEF Making, CollectionIsMadeOnce, Upsert, UpsertUnanswered
  <2>2. /\ Part(r) \in Seq(PlacedChunk) /\ Len(Part(r)) \in Nat
        /\ rest \in Seq(PlacedChunk)
    BY PartType DEF Standing
  <2>3. rest \in Seq(Chunk)
    BY <2>2, PlacedAreChunks
  <2>4. Upserted(Part(r)) \in [ChunkId -> Text \cup {Absent}]
    BY <2>2, UpsertedPoints
  <2>5. TypeOK'
    <3>1. CASE Upsert(r)
      <4>1. /\ points' \in [ChunkId -> Text \cup {Absent}]
            /\ UNCHANGED <<live, exists, indexes, ready, pc, docs, reported, faults>>
        BY <3>1, <2>4 DEF Upsert
      <4>2. todo' \in [Run -> Seq(Chunk)]
        BY <3>1, <2>3 DEF TypeOK, Upsert
      <4>3. written' \in [Run -> Nat]
        BY <3>1, <2>2 DEF TypeOK, Upsert
      <4>4. \E to \in {"upsert", "done"} : thread' = [thread EXCEPT ![r] = to]
        BY <3>1 DEF Upsert, Goes
      <4> QED BY <2>1, <4>1, <4>2, <4>3, <4>4 DEF TypeOK
    <3>2. CASE UpsertUnanswered(r)
      BY <3>2, <1>t, <2>1, <2>4 DEF TypeOK, UpsertUnanswered, Fails
    <3> QED
      BY <1>4, <3>1, <3>2
  <2>6. Making'
    BY <1>4, <1>t, <2>1 DEF Making, CollectionIsMadeOnce, Upsert, UpsertUnanswered, Fails
  <2>7. Standing'
    <3>1. CASE Upsert(r)
      BY <3>1, <1>t, <2>2 DEF TypeOK, Standing, Upsert
    <3>2. CASE UpsertUnanswered(r)
      BY <3>2, <1>t DEF Standing, UpsertUnanswered, Fails
    <3> QED
      BY <1>4, <3>1, <3>2
  <2> QED
    BY <2>5, <2>6, <2>7
<1>5. CASE RequestFails(r)
  <2>1. TypeOK'
    BY <1>5, <1>t DEF TypeOK, RequestFails, Fails
  <2>2. Making'
    BY <1>5, <1>t DEF Making, CollectionIsMadeOnce, RequestFails, Fails
  <2>3. Standing'
    BY <1>5, <1>t DEF Standing, RequestFails, Fails
  <2> QED
    BY <2>1, <2>2, <2>3
<1> QED
  BY <1>1, <1>2, <1>3, <1>4, <1>5 DEF Work

\* So do all steps.
LEMMA BaseStep ==
  ASSUME ChunksAssumption, Base, [Next]_vars
  PROVE  Base'
<1>1. ASSUME NEW p \in Page, Publish(p)
      PROVE  Base'
  <2>1. TypeOK'
    BY <1>1 DEF Base, TypeOK, Publish, server
  <2>2. Making'
    BY <1>1 DEF Base, Making, CollectionIsMadeOnce, Publish, server
  <2>3. Standing'
    BY <1>1 DEF Base, Standing, Publish
  <2> QED
    BY <2>1, <2>2, <2>3 DEF Base
<1>2. CASE Crash
  <2>1. TypeOK'
    <3>1. faults' \in 0..MaxFaults
      BY <1>2 DEF Base, TypeOK, Crash, ChunksAssumption
    <3>2. pc' \in [Run -> {"new", "research", "waiting", "over", "gone"}]
      BY <1>2 DEF Base, TypeOK, Crash
    <3>3. thread' \in [Run -> {"none", "ensure", "exists", "create", "fields", "upsert", "done", "failed"}]
      BY <1>2 DEF Crash
    <3> QED
      BY <1>2, <3>1, <3>2, <3>3 DEF Base, TypeOK, Crash, server
  <2>2. Making'
    BY <1>2 DEF Base, Making, CollectionIsMadeOnce, Crash, server
  <2>3. Standing'
    BY <1>2 DEF Base, TypeOK, Standing, Crash
  <2> QED
    BY <2>1, <2>2, <2>3 DEF Base
<1>3. CASE UNCHANGED vars
  BY <1>3 DEF Base, TypeOK, Making, CollectionIsMadeOnce, Standing, vars, server
<1> QED
  BY <1>1, <1>2, <1>3, RunKeepsBase, ThreadKeepsBase DEF Next

\* Types, the collection, and the lists of the threads.
THEOREM BaseInvariant == Spec => []Base
<1>1. Init => Base
  BY ChunksAssumption, BaseInit
<1>2. Base /\ [Next]_vars => Base'
  BY ChunksAssumption, BaseStep
<1> QED
  BY <1>1, <1>2, PTL DEF Spec

\* TypeOK is an invariant: nothing is in a collection that is not there.
THEOREM ChunksTypeCorrect == Spec => []TypeOK
<1>1. Base => TypeOK
  BY DEF Base
<1> QED
  BY <1>1, BaseInvariant, PTL

\* CollectionIsMadeOnce is an invariant: no thread writes into a missing collection, and only one
\* creates it.
THEOREM CollectionMadeOnce == Spec => []CollectionIsMadeOnce
<1>1. Base => CollectionIsMadeOnce
  BY DEF Base, Making
<1> QED
  BY <1>1, BaseInvariant, PTL

-----------------------------------------------------------------------------
(* The indexes *)

\* Without a failure or a crash, a collection whose indexes nobody is creating has them all.
Complete ==
  faults = 0 /\ exists /\ (\A r \in Run : thread[r] # "fields") => indexes = FieldCount

\* A fault is not forgotten.
LEMMA FaultsStay ==
  ASSUME Base, [Next]_vars, faults' = 0
  PROVE  /\ faults = 0 /\ ~Crash
         /\ \A r \in Run : ~(RequestFails(r) \/ CreateUnanswered(r) \/ IndexUnanswered(r) \/ UpsertUnanswered(r))
<1>1. faults \in Nat /\ (faults' = faults + 1 => faults' # 0)
  BY DEF Base, TypeOK
<1>2. ~Crash
  BY <1>1 DEF Crash
<1>3. \A r \in Run : ~(RequestFails(r) \/ CreateUnanswered(r) \/ IndexUnanswered(r) \/ UpsertUnanswered(r))
  BY <1>1 DEF RequestFails, CreateUnanswered, IndexUnanswered, UpsertUnanswered, Fails
<1>4. faults' = faults
  BY <1>2, <1>3 DEF Next, Work, Publish, Retrieve, NotRetrieved, Starts, Fetch, Ingest, SkipIngest,
     Return, GiveUp, Ends, Ensure, CheckExists, Create, CreateIndex, Upsert, vars
<1> QED
  BY <1>2, <1>3, <1>4

\* Threads may overtake each other, but whoever creates the collection also creates its indexes.
LEMMA CompleteStep ==
  ASSUME Base, Complete, [Next]_vars
  PROVE  Complete'
<1> SUFFICES ASSUME faults' = 0, exists', \A r \in Run : thread'[r] # "fields"
             PROVE  indexes' = FieldCount
  BY DEF Complete
<1>t. thread \in [Run -> {"none", "ensure", "exists", "create", "fields", "upsert", "done", "failed"}]
  BY DEF Base, TypeOK
<1>0. /\ faults = 0 /\ ~Crash
      /\ \A r \in Run : ~(RequestFails(r) \/ CreateUnanswered(r) \/ IndexUnanswered(r) \/ UpsertUnanswered(r))
  BY FaultsStay
<1>1. ASSUME exists' = exists, indexes' = indexes, NEW s \in Run, thread[s] # "fields",
             \A r \in Run : r # s => thread'[r] = thread[r]
      PROVE  indexes' = FieldCount
  <2>1. \A r \in Run : thread[r] # "fields"
    BY <1>1
  <2> QED
    BY <1>0, <1>1, <2>1 DEF Complete
<1>2. ASSUME NEW r \in Run, CreateIndex(r)
      PROVE  indexes' = FieldCount
  BY <1>2, <1>t DEF CreateIndex, Goes
<1>3. ASSUME NEW r \in Run, Create(r)
      PROVE  indexes' = FieldCount
  <2>1. exists
    BY <1>3, <1>t DEF Create, Goes
  <2> QED
    BY <1>1, <1>3, <1>t, <2>1 DEF Create, Goes
<1>4. ASSUME NEW r \in Run, Ensure(r) \/ CheckExists(r) \/ Upsert(r)
      PROVE  indexes' = FieldCount
  BY <1>1, <1>4, <1>t DEF Ensure, CheckExists, Upsert, Goes, server
<1>5. ASSUME NEW r \in Run, Ingest(r)
      PROVE  indexes' = FieldCount
  <2>1. thread[r] = "none"
    BY <1>5 DEF Ingest, Base, Standing
  <2> QED
    BY <1>1, <1>5, <1>t, <2>1 DEF Ingest, server
<1>6. CASE UNCHANGED <<exists, indexes, thread>>
  BY <1>0, <1>6 DEF Complete
<1> QED
  BY <1>0, <1>2, <1>3, <1>4, <1>5, <1>6 DEF Next, Work, Publish, Retrieve, NotRetrieved, Starts, Fetch,
     SkipIngest, Return, GiveUp, Ends, server, vars

\* What threads do to each other never leaves a ready store without its indexes: that takes a
\* request that fails or goes unanswered, or a crash (store.py, ensure_collection).
THEOREM IndexesUnlessFaults == Spec => [](faults = 0 => ReadyHasIndexes)
<1>1. Init => Complete
  BY DEF Init, Complete
<1>2. Base /\ Complete /\ [Next]_vars => Complete'
  BY CompleteStep
<1>3. Base /\ Complete => (faults = 0 => ReadyHasIndexes)
  BY DEF Base, Making, CollectionIsMadeOnce, Complete, ReadyHasIndexes
<1> QED
  BY <1>1, <1>2, <1>3, BaseInvariant, PTL DEF Spec

-----------------------------------------------------------------------------
(* The chunks *)

\* Only upserts change the stored chunks.
LEMMA PointsStep ==
  ASSUME [Next]_vars
  PROVE  points' = points \/ \E r \in Run : points' = Upserted(Part(r))
<1>1. ASSUME NEW r \in Run, Work(r)
      PROVE  points' = points \/ points' = Upserted(Part(r))
  BY <1>1 DEF Work, Ensure, CheckExists, Create, CreateIndex, Upsert, RequestFails,
              CreateUnanswered, IndexUnanswered, UpsertUnanswered, server
<1>2. ASSUME NEW r \in Run,
             \/ Retrieve(r) \/ NotRetrieved(r) \/ (\E p \in Page : Fetch(r, p))
             \/ Ingest(r) \/ SkipIngest(r) \/ Return(r) \/ GiveUp(r)
      PROVE  points' = points
  BY <1>2 DEF Retrieve, NotRetrieved, Starts, Fetch, Ingest, SkipIngest, Return, GiveUp, Ends, server
<1>3. CASE (\E p \in Page : Publish(p)) \/ Crash \/ UNCHANGED vars
  BY <1>3 DEF Publish, Crash, server, vars
<1> QED
  BY <1>1, <1>2, <1>3 DEF Next

\* What is stored stays stored.
LEMMA PointsStay ==
  ASSUME ChunksAssumption, Base, [Next]_vars, NEW id \in ChunkId, points[id] # Absent
  PROVE  points'[id] # Absent
<1>1. CASE points' = points
  BY <1>1
<1>2. ASSUME NEW r \in Run, points' = Upserted(Part(r))
      PROVE  points'[id] # Absent
  <2>1. Part(r) \in Seq(PlacedChunk)
    BY PartType DEF Base, Standing
  <2> QED
    BY <1>2, <2>1, UpsertedPoints DEF Base
<1> QED
  BY <1>1, <1>2, PointsStep

\* Chunks stay where they belong, because placed chunks are all that is written.
LEMMA PlaceStep ==
  ASSUME ChunksAssumption, Base, ChunksInPlace, [Next]_vars
  PROVE  ChunksInPlace'
<1>1. CASE points' = points
  BY <1>1 DEF ChunksInPlace
<1>2. ASSUME NEW r \in Run, points' = Upserted(Part(r)), NEW id \in ChunkId, points'[id] # Absent
      PROVE  points'[id].piece = id[2] /\ id[2] <= Length[points'[id].ver]
  <2>1. Part(r) \in Seq(PlacedChunk)
    BY PartType DEF Base, Standing
  <2>2. CASE \E k \in DOMAIN Part(r) : Id(Part(r)[k]) = id
    <3>1. PICK c \in PlacedChunk :
            Id(c) = id /\ Upserted(Part(r))[id] = [ver |-> c.ver, piece |-> c.piece]
      BY <2>1, <2>2, UpsertedAt
    <3>2. c.piece = Id(c)[2] /\ Id(c)[2] <= Length[c.ver]
      BY PlacedPresent
    <3> QED
      BY <1>2, <3>1, <3>2
  <2>3. CASE ~\E k \in DOMAIN Part(r) : Id(Part(r)[k]) = id
    <3>1. points'[id] = points[id]
      BY <1>2, <2>1, <2>3, UpsertedAt
    <3> QED
      BY <1>2, <3>1 DEF ChunksInPlace
  <2> QED
    BY <2>2, <2>3
<1> QED
  BY <1>1, <1>2, PointsStep DEF ChunksInPlace

\* Whatever is retrieved, indexed again and overwritten, chunk i of a page is the i-th piece of a
\* text of that page (chunk_id_for, indexable).
THEOREM ChunksStayInPlace == Spec => []ChunksInPlace
<1>1. Init => ChunksInPlace
  BY DEF Init, ChunksInPlace
<1>2. Base /\ ChunksInPlace /\ [Next]_vars => ChunksInPlace'
  BY ChunksAssumption, PlaceStep
<1> QED
  BY <1>1, <1>2, BaseInvariant, PTL DEF Spec

-----------------------------------------------------------------------------
(* What is reported *)

\* The thread a run waits for: the chunks of the run's documents are written up to a point and
\* to be written from there on, and what is written is stored.
Halfway(r) ==
  LET all == AllChunks(docs[r]) IN
  /\ written[r] + Len(todo[r]) = Len(all)
  /\ \A k \in 1..Len(todo[r]) : todo[r][k] = all[written[r] + k]
  /\ \A k \in 1..written[r] : points[Id(all[k])] # Absent
  /\ thread[r] = "done" => todo[r] = <<>>

Progress == \A r \in Run : pc[r] = "waiting" => Halfway(r)

\* A step that leaves the lists of a run alone keeps its progress.
LEMMA HalfwayKept ==
  ASSUME ChunksAssumption, Base, [Next]_vars, NEW r \in Run, Halfway(r),
         docs'[r] = docs[r], todo'[r] = todo[r], written'[r] = written[r],
         thread'[r] = "done" => thread[r] = "done"
  PROVE  Halfway(r)'
<1> DEFINE all == AllChunks(docs[r])
<1>1. all \in Seq(PlacedChunk) /\ written[r] \in Nat /\ Len(todo[r]) \in Nat
  BY AllChunksPlaced DEF Base, TypeOK
<1>2. AllChunks(docs[r])' = all
  BY DEF AllChunks, Indexable, Chunks, Split
<1>3. \A k \in 1..written[r] : points'[Id(all[k])] # Absent
  <2> SUFFICES ASSUME NEW k \in 1..written[r]
               PROVE  points'[Id(all[k])] # Absent
    OBVIOUS
  <2>1. k \in 1..Len(all) /\ points[Id(all[k])] # Absent
    BY <1>1 DEF Halfway
  <2>2. all[k] \in PlacedChunk
    BY <2>1, <1>1, ElementOfSeq
  <2>3. Id(all[k]) \in ChunkId
    BY <2>2, PlacedPresent
  <2> QED
    BY <2>1, <2>3, PointsStay
<1> HIDE DEF all
<1>4. /\ written[r] + Len(todo[r]) = Len(all)
      /\ \A k \in 1..Len(todo[r]) : todo[r][k] = all[written[r] + k]
      /\ thread[r] = "done" => todo[r] = <<>>
  BY DEF Halfway, all
<1> QED
  BY <1>2, <1>3, <1>4 DEF Halfway

\* An upsert moves on by the chunks it stores.
LEMMA HalfwayUpsert ==
  ASSUME ChunksAssumption, Base, [Next]_vars, NEW r \in Run, Halfway(r), Upsert(r)
  PROVE  Halfway(r)'
<1> DEFINE all == AllChunks(docs[r])
           n == Len(Part(r))
           rest == SubSeq(todo[r], n + 1, Len(todo[r]))
<1>1. all \in Seq(PlacedChunk) /\ written[r] \in Nat /\ Len(todo[r]) \in Nat
  BY AllChunksPlaced DEF Base, TypeOK
<1>2. AllChunks(docs[r])' = all
  BY DEF Upsert, AllChunks, Indexable, Chunks, Split
<1>3. /\ n \in 0..Len(todo[r])
      /\ Part(r) \in Seq(PlacedChunk)
      /\ \A k \in 1..n : Part(r)[k] = todo[r][k]
      /\ rest \in Seq(PlacedChunk)
      /\ Len(rest) = Len(todo[r]) - n
      /\ \A k \in 1..(Len(todo[r]) - n) : rest[k] = todo[r][n + k]
  BY PartType DEF Base, Standing
<1>4. written'[r] = written[r] + n /\ todo'[r] = rest
  BY DEF Upsert, Base, TypeOK
<1>5. /\ written[r] + Len(todo[r]) = Len(all)
      /\ \A k \in 1..Len(todo[r]) : todo[r][k] = all[written[r] + k]
      /\ \A k \in 1..written[r] : points[Id(all[k])] # Absent
  BY DEF Halfway
<1>6. thread'[r] = "done" => todo'[r] = <<>>
  BY DEF Upsert, Goes, Base, TypeOK
<1>7. points' = Upserted(Part(r))
  BY DEF Upsert
<1> HIDE DEF all, n, rest
<1>8. written'[r] + Len(todo'[r]) = Len(all)
  BY <1>1, <1>3, <1>4, <1>5
<1>9. ASSUME NEW k \in 1..Len(todo'[r])
      PROVE  todo'[r][k] = all[written'[r] + k]
  <2>1. k \in 1..(Len(todo[r]) - n) /\ n + k \in 1..Len(todo[r])
    BY <1>1, <1>3, <1>4, <1>9
  <2>2. todo'[r][k] = todo[r][n + k]
    BY <2>1, <1>3, <1>4
  <2>3. todo[r][n + k] = all[written[r] + (n + k)]
    BY <2>1, <1>5
  <2>4. written[r] + (n + k) = written'[r] + k
    BY <1>1, <1>3, <1>4, <2>1
  <2> QED
    BY <2>2, <2>3, <2>4
<1>10. ASSUME NEW k \in 1..written'[r]
       PROVE  points'[Id(all[k])] # Absent
  <2>1. CASE k \in 1..written[r]
    <3>1. k \in 1..Len(all)
      BY <1>1, <1>5, <2>1
    <3>2. all[k] \in PlacedChunk
      BY <3>1, <1>1, ElementOfSeq
    <3>3. Id(all[k]) \in ChunkId
      BY <3>2, PlacedPresent
    <3> QED
      BY <2>1, <3>3, <1>5, PointsStay
  <2>2. CASE k \notin 1..written[r]
    <3> DEFINE j == k - written[r]
    <3>1. j \in 1..n /\ j \in 1..Len(todo[r]) /\ k = written[r] + j
      <4>1. k \in 1..(written[r] + n) /\ n \in 0..Len(todo[r])
        BY <1>3, <1>4
      <4>2. written[r] \in Nat /\ Len(todo[r]) \in Nat
        BY <1>1
      <4>3. k > written[r]
        BY <4>1, <4>2, <2>2
      <4> QED
        BY <4>1, <4>2, <4>3
    <3>2. Part(r)[j] = all[k]
      BY <3>1, <1>3, <1>5
    <3>3. j \in DOMAIN Part(r)
      BY <3>1, <1>3 DEF n
    <3>4. Upserted(Part(r))[Id(Part(r)[j])] # Absent
      BY <3>3, <1>3, UpsertedPoints DEF Base
    <3> QED
      BY <3>2, <3>4, <1>7
  <2> QED
    BY <2>1, <2>2
<1> QED
  BY <1>2, <1>6, <1>8, <1>9, <1>10 DEF Halfway

\* Every step keeps the progress of the threads that are waited for.
LEMMA ProgressStep ==
  ASSUME ChunksAssumption, Base, Progress, [Next]_vars
  PROVE  Progress'
<1> SUFFICES ASSUME NEW r \in Run, pc'[r] = "waiting"
             PROVE  Halfway(r)'
  BY DEF Progress
<1>1. CASE Upsert(r)
  <2>1. pc[r] = "waiting"
    BY <1>1 DEF Upsert
  <2> QED
    BY <1>1, <2>1, HalfwayUpsert DEF Progress
<1>2. CASE Ingest(r)
  <2> DEFINE all == AllChunks(docs[r])
  <2>1. todo'[r] = all /\ written'[r] = 0 /\ thread'[r] = "ensure" /\ AllChunks(docs[r])' = all
    BY <1>2 DEF Ingest, Base, TypeOK, Standing, AllChunks, Indexable, Chunks, Split
  <2>2. all \in Seq(PlacedChunk)
    BY AllChunksPlaced DEF Base, TypeOK
  <2> HIDE DEF all
  <2>3. Len(all) \in Nat /\ 0 + Len(all) = Len(all) /\ \A k \in 1..Len(all) : all[k] = all[0 + k]
    BY <2>2
  <2>4. \A k \in 1..0 : points'[Id(all[k])] # Absent
    OBVIOUS
  <2> QED
    BY <2>1, <2>3, <2>4 DEF Halfway
<1>3. CASE ~Upsert(r) /\ ~Ingest(r)
  <2>1. /\ pc[r] = "waiting"
        /\ docs'[r] = docs[r] /\ todo'[r] = todo[r] /\ written'[r] = written[r]
        /\ thread'[r] = "done" => thread[r] = "done"
    <3>t. /\ pc \in [Run -> {"new", "research", "waiting", "over", "gone"}]
          /\ docs \in [Run -> Seq(Doc)] /\ todo \in [Run -> Seq(Chunk)] /\ written \in [Run -> Nat]
          /\ thread \in [Run -> {"none", "ensure", "exists", "create", "fields", "upsert", "done", "failed"}]
      BY DEF Base, TypeOK
    <3>1. ASSUME NEW s \in Run, Work(s)
          PROVE  /\ pc[r] = "waiting"
                 /\ docs'[r] = docs[r] /\ todo'[r] = todo[r] /\ written'[r] = written[r]
                 /\ thread'[r] = "done" => thread[r] = "done"
      <4>1. CASE Upsert(s)
        BY <4>1, <1>3, <3>t DEF Upsert, Goes
      <4>2. CASE ~Upsert(s)
        BY <3>1, <4>2, <3>t DEF Work, Ensure, CheckExists, Create, CreateIndex, RequestFails, Goes,
             CreateUnanswered, IndexUnanswered, UpsertUnanswered, Fails
      <4> QED
        BY <4>1, <4>2
    <3>2. ASSUME NEW s \in Run, Ingest(s)
          PROVE  /\ pc[r] = "waiting"
                 /\ docs'[r] = docs[r] /\ todo'[r] = todo[r] /\ written'[r] = written[r]
                 /\ thread'[r] = "done" => thread[r] = "done"
      BY <3>2, <1>3, <3>t DEF Ingest
    <3>3. ASSUME NEW s \in Run,
                 \/ Retrieve(s) \/ NotRetrieved(s) \/ (\E p \in Page : Fetch(s, p))
                 \/ SkipIngest(s) \/ Return(s) \/ GiveUp(s)
          PROVE  /\ pc[r] = "waiting"
                 /\ docs'[r] = docs[r] /\ todo'[r] = todo[r] /\ written'[r] = written[r]
                 /\ thread'[r] = "done" => thread[r] = "done"
      <4>1. CASE Retrieve(s) \/ NotRetrieved(s)
        BY <4>1, <3>t DEF Retrieve, NotRetrieved, Starts
      <4>2. CASE \E p \in Page : Fetch(s, p)
        BY <4>2, <3>t DEF Fetch
      <4>3. CASE SkipIngest(s) \/ Return(s) \/ GiveUp(s)
        BY <4>3, <3>t DEF SkipIngest, Return, GiveUp, Ends
      <4> QED
        BY <3>3, <4>1, <4>2, <4>3
    <3>4. CASE (\E p \in Page : Publish(p)) \/ Crash \/ UNCHANGED vars
      BY <3>4, <3>t DEF Publish, Crash, vars
    <3> QED
      BY <3>1, <3>2, <3>3, <3>4 DEF Next
  <2>2. Halfway(r)
    BY <2>1 DEF Progress
  <2> QED
    BY <2>1, <2>2, HalfwayKept
<1> QED
  BY <1>1, <1>2, <1>3

\* Whatever a run has reported stays stored, and a run that reports now has a thread that is done.
LEMMA ReportStep ==
  ASSUME ChunksAssumption, Base, Progress, ReportedIsStored, [Next]_vars
  PROVE  ReportedIsStored'
<1> SUFFICES ASSUME NEW r \in Run, pc'[r] = "over", reported'[r] > 0
             PROVE  /\ reported'[r] = Len(AllChunks(docs[r])')
                    /\ \A k \in DOMAIN (AllChunks(docs[r])') :
                         points'[Id((AllChunks(docs[r])')[k])] # Absent
  BY DEF ReportedIsStored, Id
<1> DEFINE all == AllChunks(docs[r])
<1>t. /\ pc \in [Run -> {"new", "research", "waiting", "over", "gone"}]
      /\ docs \in [Run -> Seq(Doc)] /\ reported \in [Run -> Nat]
  BY DEF Base, TypeOK
<1>1. all \in Seq(PlacedChunk)
  BY AllChunksPlaced, <1>t
<1>2. \/ pc[r] = "over" /\ reported'[r] = reported[r] /\ docs'[r] = docs[r]
      \/ Return(r) /\ docs'[r] = docs[r]
  <2>1. ASSUME NEW s \in Run, Work(s)
        PROVE  pc' = pc /\ reported' = reported /\ docs' = docs
    BY <2>1 DEF Work, Ensure, CheckExists, Create, CreateIndex, Upsert, RequestFails,
                CreateUnanswered, IndexUnanswered, UpsertUnanswered, Fails
  <2>2. ASSUME NEW s \in Run, Return(s)
        PROVE  \/ pc[r] = "over" /\ reported'[r] = reported[r] /\ docs'[r] = docs[r]
               \/ Return(r) /\ docs'[r] = docs[r]
    BY <2>2, <1>t DEF Return, Ends
  <2>3. ASSUME NEW s \in Run, SkipIngest(s) \/ GiveUp(s)
        PROVE  pc[r] = "over" /\ reported'[r] = reported[r] /\ docs'[r] = docs[r]
    BY <2>3, <1>t DEF SkipIngest, GiveUp, Ends
  <2>4. ASSUME NEW s \in Run, Retrieve(s) \/ NotRetrieved(s)
        PROVE  pc[r] = "over" /\ reported'[r] = reported[r] /\ docs'[r] = docs[r]
    BY <2>4, <1>t DEF Retrieve, NotRetrieved, Starts
  <2>5. ASSUME NEW s \in Run, (\E p \in Page : Fetch(s, p)) \/ Ingest(s)
        PROVE  pc[r] = "over" /\ reported'[r] = reported[r] /\ docs'[r] = docs[r]
    BY <2>5, <1>t DEF Fetch, Ingest
  <2>6. CASE (\E p \in Page : Publish(p)) \/ Crash \/ UNCHANGED vars
    BY <2>6, <1>t DEF Publish, Crash, vars
  <2> QED
    BY <2>1, <2>2, <2>3, <2>4, <2>5, <2>6 DEF Next
<1>3. AllChunks(docs[r])' = all
  BY <1>2 DEF AllChunks, Indexable, Chunks, Split
<1>4. reported'[r] = Len(all) /\ \A k \in 1..Len(all) : points[Id(all[k])] # Absent
  <2>1. CASE pc[r] = "over" /\ reported'[r] = reported[r]
    <3>1. reported[r] > 0
      BY <2>1
    <3>2. reported[r] = Len(all) /\ \A k \in DOMAIN all : points[Id(all[k])] # Absent
      BY <2>1, <3>1 DEF ReportedIsStored
    <3> QED
      BY <2>1, <3>2, <1>1
  <2>2. CASE Return(r)
    <3>1. reported'[r] = (IF thread[r] = "done" THEN written[r] ELSE 0)
      BY <2>2, <1>t DEF Return, Ends
    <3>2. thread[r] = "done" /\ reported'[r] = written[r]
      BY <3>1
    <3>3. Halfway(r)
      BY <2>2 DEF Return, Progress
    <3>4. written[r] \in Nat
      BY DEF Base, TypeOK
    <3>5. Len(todo[r]) = 0
      BY <3>2, <3>3 DEF Halfway
    <3> QED
      BY <3>2, <3>3, <3>4, <3>5 DEF Halfway
  <2> QED
    BY <1>2, <2>1, <2>2
<1> HIDE DEF all
<1>5. ASSUME NEW k \in DOMAIN all
      PROVE  points'[Id(all[k])] # Absent
  <2>1. k \in 1..Len(all)
    BY <1>1, <1>5
  <2>2. all[k] \in PlacedChunk
    BY <1>1, <2>1, ElementOfSeq
  <2>3. Id(all[k]) \in ChunkId
    BY <2>2, PlacedPresent
  <2> QED
    BY <1>4, <2>1, <2>3, PointsStay
<1> QED
  BY <1>3, <1>4, <1>5

\* What a run reports as indexed is stored, all of it, and stays (SourceIndexer.index, upsert).
THEOREM ReportedStored == Spec => []ReportedIsStored
<1>1. Init => Progress /\ ReportedIsStored
  BY DEF Init, Progress, ReportedIsStored
<1>2. Base /\ Progress /\ ReportedIsStored /\ [Next]_vars => Progress' /\ ReportedIsStored'
  BY ChunksAssumption, ProgressStep, ReportStep
<1> QED
  BY <1>1, <1>2, BaseInvariant, PTL DEF Spec

-----------------------------------------------------------------------------
(* The archive *)

\* What run r has seen, and the chunks of the whole texts among D
Docs(r) == {docs[r][i] : i \in DOMAIN docs[r]}
SeenChunk(D) == {c \in PlacedChunk : [page |-> c.page, ver |-> c.ver, piece |-> 0] \in D}

\* A run writes only chunks of texts that it has seen whole; a new run has seen nothing.
Learned ==
  \A r \in Run : /\ todo[r] \in Seq(SeenChunk(Docs(r)))
                 /\ pc[r] = "new" => docs[r] = <<>>

\* A list is over every set that has its elements.
LEMMA ListOver ==
  ASSUME NEW S, NEW T, NEW s \in Seq(T), \A k \in 1..Len(s) : s[k] \in S
  PROVE  s \in Seq(S)
<1>1. Len(s) \in Nat /\ s = [k \in 1..Len(s) |-> s[k]]
  OBVIOUS
<1>2. [k \in 1..Len(s) |-> s[k]] \in [1..Len(s) -> S]
  OBVIOUS
<1>3. s \in [1..Len(s) -> S]
  BY <1>1, <1>2, Zenon
<1>4. \A n \in Nat : \A f \in [1..n -> S] : f \in Seq(S)
  OBVIOUS
<1> QED
  BY <1>1, <1>3, <1>4

\* All chunks of a list of documents are chunks of whole texts in the list.
LEMMA AllChunksSeen ==
  ASSUME ChunksAssumption, NEW d \in Seq(Doc)
  PROVE  AllChunks(d) \in Seq(SeenChunk({d[i] : i \in DOMAIN d}))
<1> DEFINE S == SeenChunk({d[i] : i \in DOMAIN d})
           part(i) == IF i \in Indexable(d) THEN Chunks(d[i]) ELSE <<>>
<1>1. ASSUME NEW i \in DOMAIN d
      PROVE  part(i) \in Seq(S)
  <2>1. CASE i \in Indexable(d)
    <3>1. d[i] \in Doc /\ d[i].piece = 0 /\ d[i] = [page |-> d[i].page, ver |-> d[i].ver, piece |-> 0]
      <4>1. d[i] \in Doc /\ d[i].piece = 0
        BY <1>1, <2>1, ElementOfSeq DEF Indexable
      <4>2. \A x \in Doc : x.piece = 0 => x = [page |-> x.page, ver |-> x.ver, piece |-> 0]
        BY DEF Doc
      <4> QED
        BY <4>1, <4>2
    <3>2. Chunks(d[i]) \in Seq(PlacedChunk)
      BY <3>1, ChunksPlaced
    <3>3. \A k \in 1..Len(Chunks(d[i])) : Chunks(d[i])[k] \in S
      <4>1. Chunks(d[i]) = [k \in 1..Length[d[i].ver] |->
                              [page |-> d[i].page, index |-> k, ver |-> d[i].ver, piece |-> k]]
        BY <3>1 DEF Chunks, Split
      <4>2. Len(Chunks(d[i])) = Length[d[i].ver]
        BY <3>1, <4>1 DEF Doc, ChunksAssumption, Version
      <4>3. \A k \in 1..Len(Chunks(d[i])) :
              /\ Chunks(d[i])[k] \in PlacedChunk
              /\ Chunks(d[i])[k].page = d[i].page /\ Chunks(d[i])[k].ver = d[i].ver
        <5> SUFFICES ASSUME NEW k \in 1..Len(Chunks(d[i]))
                     PROVE  /\ Chunks(d[i])[k] \in PlacedChunk
                            /\ Chunks(d[i])[k].page = d[i].page /\ Chunks(d[i])[k].ver = d[i].ver
          OBVIOUS
        <5>1. Chunks(d[i])[k] \in PlacedChunk
          BY <3>2, ElementOfSeq
        <5>2. Chunks(d[i])[k] = [page |-> d[i].page, index |-> k, ver |-> d[i].ver, piece |-> k]
          <6>1. k \in 1..Length[d[i].ver]
            BY <4>2
          <6> QED
            BY <4>1, <6>1
        <5> QED
          BY <5>1, <5>2
      <4> QED
        BY <1>1, <3>1, <4>3 DEF SeenChunk
    <3>4. Chunks(d[i]) \in Seq(S)
      BY <3>2, <3>3, ListOver
    <3> QED
      BY <2>1, <3>4
  <2>2. CASE i \notin Indexable(d)
    BY <2>2
  <2> QED
    BY <2>1, <2>2
<1> HIDE DEF part, S
<1>2. [i \in DOMAIN d |-> part(i)] \in Seq(Seq(S))
  <2>1. DOMAIN d = 1..Len(d) /\ Len(d) \in Nat
    OBVIOUS
  <2> QED
    BY <1>1, <2>1
<1>3. FlattenSeq([i \in DOMAIN d |-> part(i)]) \in Seq(S)
  BY <1>2, FlattenType
<1> QED
  BY <1>3 DEF AllChunks, part, S

\* Who has seen more may write more.
LEMMA SeenMore ==
  ASSUME NEW C, NEW D, C \subseteq D, NEW s \in Seq(SeenChunk(C))
  PROVE  s \in Seq(SeenChunk(D))
<1>1. SeenChunk(C) \subseteq SeenChunk(D)
  BY DEF SeenChunk
<1> QED
  BY <1>1, SeqMonotonic

\* The part that is written, and the rest, are as the list was.
LEMMA PartSeen ==
  ASSUME ChunksAssumption, Base, Learned, NEW r \in Run
  PROVE  /\ Part(r) \in Seq(PlacedChunk)
         /\ \A k \in DOMAIN Part(r) : Part(r)[k] \in SeenChunk(Docs(r))
         /\ SubSeq(todo[r], Len(Part(r)) + 1, Len(todo[r])) \in Seq(SeenChunk(Docs(r)))
<1> DEFINE S == SeenChunk(Docs(r))
           n == Len(Part(r))
           rest == SubSeq(todo[r], n + 1, Len(todo[r]))
<1>1. todo[r] \in Seq(S) /\ Len(todo[r]) \in Nat
  BY DEF Learned
<1>2. /\ n \in 0..Len(todo[r])
      /\ Part(r) \in Seq(PlacedChunk)
      /\ \A k \in 1..n : Part(r)[k] = todo[r][k]
      /\ rest \in Seq(PlacedChunk)
      /\ Len(rest) = Len(todo[r]) - n
      /\ \A k \in 1..(Len(todo[r]) - n) : rest[k] = todo[r][n + k]
  BY PartType DEF Base, Standing
<1> HIDE DEF S, n, rest
<1>0. \A k \in 1..Len(todo[r]) : todo[r][k] \in S
  BY <1>1, ElementOfSeq
<1>3. ASSUME NEW k \in 1..n
      PROVE  Part(r)[k] \in S
  <2>1. k \in 1..Len(todo[r])
    BY <1>1, <1>2
  <2>2. Part(r)[k] = todo[r][k]
    BY <1>2
  <2> QED
    BY <1>0, <2>1, <2>2
<1>4. ASSUME NEW k \in 1..Len(rest)
      PROVE  rest[k] \in S
  <2>1. k \in 1..(Len(todo[r]) - n) /\ n + k \in 1..Len(todo[r])
    BY <1>1, <1>2
  <2>2. rest[k] = todo[r][n + k]
    BY <1>2, <2>1
  <2> QED
    BY <1>0, <2>1, <2>2
<1>5. rest \in Seq(S)
  BY <1>2, <1>4, ListOver
<1>6. DOMAIN Part(r) = 1..n
  BY <1>2 DEF n
<1> QED
  BY <1>2, <1>3, <1>5, <1>6 DEF S, n, rest

\* What a run finds is a set of documents made of stored chunks, or nothing.
LEMMA FoundIsStored ==
  ASSUME TypeOK, NEW S \in Candidates, NEW T \in Kept(S), NEW relevant \in Relevant(T)
  PROVE  /\ Found(relevant) \in Seq(Doc)
         /\ \A i \in DOMAIN Found(relevant) :
              \E id \in ChunkId : points[id] # Absent /\ Found(relevant)[i] = StoredDoc(id)
<1> DEFINE D == {StoredDoc(id) : id \in relevant}
<1>1. relevant \subseteq {id \in ChunkId : points[id] # Absent} /\ IsFiniteSet(relevant)
  <2>1. S \subseteq {id \in ChunkId : points[id] # Absent} /\ IsFiniteSet(S)
    BY DEF Candidates
  <2>2. relevant \subseteq S
    BY DEF Kept, Relevant
  <2> QED
    BY <2>1, <2>2, FS_Subset
<1>2. IsFiniteSet(D)
  <2> DEFINE f == [id \in relevant |-> StoredDoc(id)]
  <2>1. f \in Surjection(relevant, D)
    BY DEF Surjection
  <2> HIDE DEF f, D
  <2> QED
    BY <1>1, <2>1, FS_Surjection
<1>3. \A x \in D : \E id \in ChunkId : points[id] # Absent /\ x = StoredDoc(id)
  BY <1>1
<1> HIDE DEF D
<1>4. SetToSeq(D) \in Seq(D)
  BY <1>2, SetToSeqType
<1>5. \A i \in DOMAIN SetToSeq(D) : SetToSeq(D)[i] \in D
  BY <1>4
<1>6. Found(relevant) = SetToSeq(D) \/ Found(relevant) = <<>>
  BY DEF Found, D
<1>7. DOMAIN <<>> = {}
  OBVIOUS
<1>8. \A i \in DOMAIN Found(relevant) :
        \E id \in ChunkId : points[id] # Absent /\ Found(relevant)[i] = StoredDoc(id)
  BY <1>3, <1>5, <1>6, <1>7
<1> QED
  BY <1>8, FoundType

\* Which documents a run may begin with
LEMMA RetrieveStarts ==
  ASSUME TypeOK, NEW r \in Run, Retrieve(r)
  PROVE  \E d \in Seq(Doc) :
           /\ Starts(r, d)
           /\ \A i \in DOMAIN d : \E id \in ChunkId : points[id] # Absent /\ d[i] = StoredDoc(id)
<1>1. PICK S \in Candidates : \E T \in Kept(S) : \E relevant \in Relevant(T) :
        Starts(r, Found(relevant))
  BY DEF Retrieve
<1>2. PICK T \in Kept(S) : \E relevant \in Relevant(T) : Starts(r, Found(relevant))
  BY <1>1
<1>3. PICK relevant \in Relevant(T) : Starts(r, Found(relevant))
  BY <1>2
<1> QED
  BY <1>3, FoundIsStored

\* Only retrieval and fetching change what runs have seen, and only the web changes the web.
LEMMA SeenStep ==
  ASSUME Base, [Next]_vars
  PROVE  \/ \E p \in Page : Publish(p)
         \/ \E r \in Run : Retrieve(r) \/ \E p \in Page : Fetch(r, p)
         \/ \E r \in Run : Upsert(r) \/ UpsertUnanswered(r)
         \/ \E r \in Run : Ingest(r)
         \/ UNCHANGED <<live, points, docs, todo>> /\ \A r \in Run : pc'[r] = "new" => pc[r] = "new"
         \/ \E r \in Run : NotRetrieved(r)
<1>t. pc \in [Run -> {"new", "research", "waiting", "over", "gone"}]
  BY DEF Base, TypeOK
<1>1. ASSUME NEW r \in Run, Work(r)
      PROVE  \/ Upsert(r) \/ UpsertUnanswered(r)
             \/ UNCHANGED <<live, points, docs, todo, pc>>
  BY <1>1 DEF Work, Ensure, CheckExists, Create, CreateIndex, RequestFails,
              CreateUnanswered, IndexUnanswered, Fails, server
<1>2. ASSUME NEW r \in Run, SkipIngest(r) \/ Return(r) \/ GiveUp(r)
      PROVE  UNCHANGED <<live, points, docs, todo>> /\ \A s \in Run : pc'[s] = "new" => pc[s] = "new"
  BY <1>2, <1>t DEF SkipIngest, Return, GiveUp, Ends, server
<1>3. CASE Crash
  BY <1>3, <1>t DEF Crash, server
<1>4. CASE UNCHANGED vars
  BY <1>4 DEF vars, server
<1> QED
  BY <1>1, <1>2, <1>3, <1>4 DEF Next

\* Every step keeps it.
LEMMA LearnedStep ==
  ASSUME ChunksAssumption, Base, Learned, [Next]_vars
  PROVE  Learned'
<1>t. /\ pc \in [Run -> {"new", "research", "waiting", "over", "gone"}]
      /\ docs \in [Run -> Seq(Doc)] /\ todo \in [Run -> Seq(Chunk)]
  BY DEF Base, TypeOK
<1>l. \A r \in Run : todo[r] \in Seq(SeenChunk(Docs(r))) /\ (pc[r] = "new" => docs[r] = <<>>)
  BY DEF Learned
<1> SUFFICES ASSUME NEW r \in Run
             PROVE  /\ todo'[r] \in Seq(SeenChunk(Docs(r)'))
                    /\ pc'[r] = "new" => docs'[r] = <<>>
  BY DEF Learned, SeenChunk
<1>1. CASE docs'[r] = docs[r] /\ todo'[r] = todo[r] /\ (pc'[r] = "new" => pc[r] = "new")
  <2>1. Docs(r)' = Docs(r)
    BY <1>1 DEF Docs
  <2> QED
    BY <1>1, <1>l, <2>1
<1>2. ASSUME NEW s \in Run, Retrieve(s) \/ NotRetrieved(s)
      PROVE  /\ todo'[r] \in Seq(SeenChunk(Docs(r)'))
             /\ pc'[r] = "new" => docs'[r] = <<>>
  <2>1. todo' = todo /\ pc[s] = "new" /\ pc'[s] = "research"
    BY <1>2, <1>t DEF Retrieve, NotRetrieved, Starts
  <2>2. r # s => docs'[r] = docs[r] /\ pc'[r] = pc[r]
    BY <1>2, <1>t DEF Retrieve, NotRetrieved, Starts
  <2>3. CASE r = s
    <3>1. Docs(r) = {}
      <4>1. docs[r] = <<>> /\ DOMAIN <<>> = {}
        BY <1>l, <2>1, <2>3
      <4> QED
        BY <4>1 DEF Docs
    <3>2. todo[r] \in Seq(SeenChunk(Docs(r)'))
      BY <1>l, <3>1, SeenMore
    <3> QED
      BY <2>1, <2>3, <3>2
  <2> QED
    BY <1>1, <2>1, <2>2, <2>3
<1>3. ASSUME NEW s \in Run, NEW p \in Page, Fetch(s, p)
      PROVE  /\ todo'[r] \in Seq(SeenChunk(Docs(r)'))
             /\ pc'[r] = "new" => docs'[r] = <<>>
  <2>1. todo' = todo /\ pc' = pc /\ pc[s] = "research"
    BY <1>3 DEF Fetch
  <2>2. r # s => docs'[r] = docs[r]
    BY <1>3, <1>t DEF Fetch
  <2>3. CASE r = s
    <3>1. docs'[r] = Append(docs[r], Whole(p)) /\ docs[r] \in Seq(Doc)
      BY <1>3, <1>t, <2>3 DEF Fetch
    <3>2. Docs(r) \subseteq Docs(r)'
      <4>1. /\ DOMAIN docs[r] \subseteq DOMAIN docs'[r]
            /\ \A i \in DOMAIN docs[r] : docs'[r][i] = docs[r][i]
        BY <3>1
      <4> QED
        BY <4>1 DEF Docs
    <3>3. todo[r] \in Seq(SeenChunk(Docs(r)'))
      BY <1>l, <3>2, SeenMore
    <3> QED
      BY <2>1, <2>3, <3>3
  <2> QED
    BY <1>1, <2>1, <2>2, <2>3
<1>4. ASSUME NEW s \in Run, Ingest(s)
      PROVE  /\ todo'[r] \in Seq(SeenChunk(Docs(r)'))
             /\ pc'[r] = "new" => docs'[r] = <<>>
  <2>1. docs' = docs /\ pc[s] = "research" /\ pc'[s] = "waiting"
    BY <1>4, <1>t DEF Ingest
  <2>2. r # s => todo'[r] = todo[r] /\ pc'[r] = pc[r]
    BY <1>4, <1>t DEF Ingest
  <2>3. CASE r = s
    <3>1. todo'[r] = AllChunks(docs[r]) /\ Docs(r)' = Docs(r)
      BY <1>4, <1>t, <2>1, <2>3 DEF Ingest, Docs
    <3>2. AllChunks(docs[r]) \in Seq(SeenChunk(Docs(r)))
      BY <1>t, AllChunksSeen DEF Docs
    <3> QED
      BY <2>1, <2>3, <3>1, <3>2
  <2> QED
    BY <1>1, <2>1, <2>2, <2>3
<1>5. ASSUME NEW s \in Run, Upsert(s) \/ UpsertUnanswered(s)
      PROVE  /\ todo'[r] \in Seq(SeenChunk(Docs(r)'))
             /\ pc'[r] = "new" => docs'[r] = <<>>
  <2>1. docs' = docs /\ pc' = pc
    BY <1>5 DEF Upsert, UpsertUnanswered, Fails
  <2>2. CASE r = s /\ Upsert(s)
    <3>1. todo'[r] = SubSeq(todo[r], Len(Part(r)) + 1, Len(todo[r]))
      BY <2>2, <1>t DEF Upsert
    <3>2. Docs(r)' = Docs(r)
      BY <2>1 DEF Docs
    <3> QED
      BY <1>l, <2>1, <3>1, <3>2, PartSeen
  <2>3. CASE ~(r = s /\ Upsert(s))
    <3>1. todo'[r] = todo[r]
      BY <1>5, <2>3, <1>t DEF Upsert, UpsertUnanswered, Fails
    <3> QED
      BY <1>1, <2>1, <3>1
  <2> QED
    BY <2>2, <2>3
<1>6. ASSUME NEW p \in Page, Publish(p)
      PROVE  /\ todo'[r] \in Seq(SeenChunk(Docs(r)'))
             /\ pc'[r] = "new" => docs'[r] = <<>>
  BY <1>1, <1>6 DEF Publish
<1> QED
  BY <1>1, <1>2, <1>3, <1>4, <1>5, <1>6, SeenStep

\* An upsert keeps pieces of texts the run has seen.
LEMMA UpsertKeeps ==
  ASSUME ChunksAssumption, Base, Learned, NEW r \in Run, Upsert(r) \/ UpsertUnanswered(r)
  PROVE  Archive!Keep(r)
<1>1. points' = Upserted(Part(r)) /\ UNCHANGED <<live, docs>>
  BY DEF Upsert, UpsertUnanswered, Fails
<1>2. /\ Part(r) \in Seq(PlacedChunk)
      /\ \A k \in DOMAIN Part(r) : Part(r)[k] \in SeenChunk(Docs(r))
  BY PartSeen
<1>3. ASSUME NEW id \in ChunkId, \E k \in DOMAIN Part(r) : Id(Part(r)[k]) = id
      PROVE  \E v \in Version : /\ [page |-> id[1], ver |-> v, piece |-> 0] \in Docs(r)
                                /\ id[2] <= Length[v]
                                /\ points'[id] = [ver |-> v, piece |-> id[2]]
  <2> DEFINE last == CHOOSE k \in DOMAIN Part(r) :
                       /\ Id(Part(r)[k]) = id
                       /\ \A j \in DOMAIN Part(r) : Id(Part(r)[j]) = id => j <= k
  <2>1. last \in DOMAIN Part(r) /\ Id(Part(r)[last]) = id
    BY <1>2, <1>3, LastChunk
  <2>2. points'[id] = [ver |-> Part(r)[last].ver, piece |-> Part(r)[last].piece]
    BY <1>1, <1>3, Zenon DEF Upserted
  <2> HIDE DEF last
  <2>3. PICK c \in SeenChunk(Docs(r)) : Id(c) = id /\ points'[id] = [ver |-> c.ver, piece |-> c.piece]
    BY <1>2, <2>1, <2>2
  <2>4. c \in PlacedChunk /\ [page |-> c.page, ver |-> c.ver, piece |-> 0] \in Docs(r)
    BY DEF SeenChunk
  <2>5. c.ver \in Version /\ c.page = id[1] /\ c.piece = id[2] /\ id[2] <= Length[c.ver]
    BY <2>3, <2>4 DEF PlacedChunk, Chunk, Id
  <2> QED
    BY <2>3, <2>4, <2>5
<1>4. ASSUME NEW id \in ChunkId, ~\E k \in DOMAIN Part(r) : Id(Part(r)[k]) = id
      PROVE  points'[id] = points[id]
  BY <1>1, <1>4 DEF Upserted
<1>5. points' = [id \in ChunkId |-> points'[id]]
  BY <1>1 DEF Upserted
<1>6. Archive!Cell = ChunkId /\ Archive!Version = Version
  BY DEF Archive!Cell, Archive!Numbers, Archive!Version, ChunkId, Piece, Pieces, Version
<1>7. [s \in Run |-> Docs(s)]' = [s \in Run |-> Docs(s)]
  BY <1>1 DEF Docs
<1>8. \A id \in ChunkId :
        \/ points'[id] = points[id]
        \/ \E v \in Version : /\ [page |-> id[1], ver |-> v, piece |-> 0] \in Docs(r)
                              /\ id[2] <= Length[v]
                              /\ points'[id] = [ver |-> v, piece |-> id[2]]
  BY <1>3, <1>4
<1> QED
  BY <1>1, <1>5, <1>6, <1>7, <1>8 DEF Archive!Keep, Archive!Text, Docs

\* What a run finds is kept in the archive.
LEMMA RetrieveRecalls ==
  ASSUME ChunksAssumption, Base, ChunksInPlace, Learned, NEW r \in Run, Retrieve(r)
  PROVE  Archive!Recall(r)
<1>1. PICK d \in Seq(Doc) :
        /\ Starts(r, d)
        /\ \A i \in DOMAIN d : \E id \in ChunkId : points[id] # Absent /\ d[i] = StoredDoc(id)
  BY RetrieveStarts DEF Base
<1>2. docs[r] = <<>> /\ docs' = [docs EXCEPT ![r] = d] /\ UNCHANGED <<live, points>>
  BY <1>1 DEF Starts, Learned, server
<1> DEFINE E == {d[i] : i \in DOMAIN d}
<1>3. \A i \in DOMAIN d : d[i] \in Archive!Kept
  <2> SUFFICES ASSUME NEW i \in DOMAIN d
               PROVE  d[i] \in Archive!Kept
    OBVIOUS
  <2>1. PICK id \in ChunkId : points[id] # Absent /\ d[i] = StoredDoc(id)
    BY <1>1
  <2>2. points[id].piece = id[2]
    BY <2>1 DEF ChunksInPlace
  <2>3. d[i] = [page |-> id[1], ver |-> points[id].ver, piece |-> id[2]]
    BY <2>1, <2>2 DEF StoredDoc
  <2>4. id \in Archive!Cell /\ points[id] # Archive!Nothing
    BY <2>1 DEF Archive!Cell, Archive!Numbers, Archive!Version, ChunkId, Piece, Pieces, Version,
                Archive!Nothing, Absent
  <2> QED
    BY <2>3, <2>4 DEF Archive!Kept, Archive!Text
<1>4. E \in SUBSET Archive!Kept
  BY <1>3
<1>5. [s \in Run |-> Docs(s)]' = [[s \in Run |-> Docs(s)] EXCEPT ![r] = @ \cup E]
  <2>1. \A s \in Run : docs'[s] = IF s = r THEN d ELSE docs[s]
    BY <1>2 DEF Base, TypeOK
  <2>2. Docs(r) = {}
    BY <1>2 DEF Docs
  <2>3. \A s \in Run : Docs(s)' = IF s = r THEN E ELSE Docs(s)
    BY <2>1 DEF Docs
  <2> QED
    BY <2>2, <2>3
<1> HIDE DEF E
<1> QED
  BY <1>2, <1>4, <1>5 DEF Archive!Recall, Docs

\* A page that is fetched is seen as it is on the web.
LEMMA FetchFetches ==
  ASSUME Base, NEW r \in Run, NEW p \in Page, Fetch(r, p)
  PROVE  Archive!Fetch(r, p)
<1>1. docs' = [docs EXCEPT ![r] = Append(docs[r], Whole(p))] /\ UNCHANGED <<live, points>>
  BY DEF Fetch, server
<1>2. docs[r] \in Seq(Doc)
  BY DEF Base, TypeOK
<1>3. [s \in Run |-> Docs(s)]' = [[s \in Run |-> Docs(s)] EXCEPT ![r] = @ \cup {Whole(p)}]
  <2>1. \A s \in Run : docs'[s] = IF s = r THEN Append(docs[r], Whole(p)) ELSE docs[s]
    BY <1>1 DEF Base, TypeOK
  <2>2. Docs(r)' = Docs(r) \cup {Whole(p)}
    <3>1. docs'[r] = Append(docs[r], Whole(p))
      BY <2>1
    <3>2. /\ DOMAIN docs'[r] = DOMAIN docs[r] \cup {Len(docs[r]) + 1}
          /\ \A i \in DOMAIN docs[r] : docs'[r][i] = docs[r][i]
          /\ docs'[r][Len(docs[r]) + 1] = Whole(p)
      BY <1>2, <3>1
    <3> QED
      BY <3>2 DEF Docs
  <2>3. \A s \in Run : s # r => Docs(s)' = Docs(s)
    BY <2>1 DEF Docs
  <2> QED
    BY <2>2, <2>3
<1> QED
  BY <1>1, <1>3 DEF Archive!Fetch, Archive!Text, Whole, Docs

\* Every step is one of the archive, or none.
LEMMA ArchiveStep ==
  ASSUME ChunksAssumption, Base, ChunksInPlace, Learned, [Next]_vars
  PROVE  [Archive!Next]_(Archive!vars)
<1>1. ASSUME NEW p \in Page, Publish(p)
      PROVE  Archive!Next
  <2>1. [s \in Run |-> Docs(s)]' = [s \in Run |-> Docs(s)]
    BY <1>1 DEF Publish, Docs
  <2>2. Archive!Publish(p)
    BY <1>1, <2>1 DEF Publish, server, Archive!Publish, Archive!Version, Version, Docs
  <2> QED
    BY <2>2 DEF Archive!Next
<1>2. ASSUME NEW r \in Run, Retrieve(r) \/ \E p \in Page : Fetch(r, p)
      PROVE  Archive!Next
  BY <1>2, RetrieveRecalls, FetchFetches DEF Archive!Next
<1>3. ASSUME NEW r \in Run, Upsert(r) \/ UpsertUnanswered(r)
      PROVE  Archive!Next
  BY <1>3, UpsertKeeps DEF Archive!Next
<1>4. ASSUME UNCHANGED <<live, points>>, \A r \in Run : Docs(r)' = Docs(r)
      PROVE  UNCHANGED Archive!vars
  <2>1. [s \in Run |-> Docs(s)]' = [s \in Run |-> Docs(s)]
    BY <1>4
  <2> QED
    BY <1>4, <2>1 DEF Archive!vars, Docs
<1>5. ASSUME NEW r \in Run, NotRetrieved(r)
      PROVE  UNCHANGED Archive!vars
  <2>1. UNCHANGED <<live, points>> /\ docs[r] = <<>> /\ docs' = [docs EXCEPT ![r] = <<>>]
    BY <1>5 DEF NotRetrieved, Starts, server, Learned
  <2>2. docs' = docs
    BY <2>1 DEF Base, TypeOK
  <2> QED
    BY <1>4, <2>1, <2>2 DEF Docs
<1>6. ASSUME NEW r \in Run, Ingest(r)
      PROVE  UNCHANGED Archive!vars
  BY <1>4, <1>6 DEF Ingest, server, Docs
<1>7. CASE UNCHANGED <<live, points, docs, todo>>
  BY <1>4, <1>7 DEF Docs
<1> QED
  BY <1>1, <1>2, <1>3, <1>5, <1>6, <1>7, SeenStep

\* The store is an archive: what a run finds in it are pieces, each in its place, of texts that some
\* run saw whole, and nothing is lost (chunk_id_for, indexable, upsert).
THEOREM StoreImplementsArchive == Spec => StoreIsArchive
<1>1. Init => Archive!Init /\ Learned
  <2> SUFFICES ASSUME Init PROVE Archive!Init /\ Learned
    OBVIOUS
  <2>1. \A r \in Run : Docs(r) = {} /\ todo[r] = <<>> /\ docs[r] = <<>>
    BY DEF Init, Docs
  <2>2. [r \in Run |-> Docs(r)] = [r \in Run |-> {}]
    BY <2>1
  <2>3. Archive!Cell = ChunkId /\ Archive!Nothing = Absent
    BY DEF Archive!Cell, Archive!Numbers, Archive!Version, ChunkId, Piece, Pieces, Version,
           Archive!Nothing, Absent
  <2>4. Learned
    <3>1. \A S : <<>> \in Seq(S)
      OBVIOUS
    <3> QED
      BY <2>1, <3>1 DEF Learned
  <2> QED
    BY <2>2, <2>3, <2>4 DEF Init, Archive!Init, Docs
<1>2. Base /\ Learned /\ [Next]_vars => Learned'
  BY ChunksAssumption, LearnedStep
<1>3. Base /\ ChunksInPlace /\ Learned /\ [Next]_vars => [Archive!Next]_(Archive!vars)
  BY ChunksAssumption, ArchiveStep
<1> QED
  BY <1>1, <1>2, <1>3, BaseInvariant, ChunksStayInPlace, PTL DEF Spec, StoreIsArchive, Archive!Spec
=============================================================================

--------------------------- MODULE CompletionProofs ---------------------------
(***************************************************************************)
(* Proofs about Completion, for any turns of the provider, cut into any    *)
(* pieces, and any amount of foreign chunks.                               *)
(***************************************************************************)
EXTENDS Completion, SetLemmas, SequenceTheorems

-----------------------------------------------------------------------------
(* The fold over the parts of a chunk.                                     *)

Folded(out, chunk) ==
    FoldLeft(LAMBDA o, k : Merge(o, chunk, k), out, [k \in DOMAIN chunk.parts |-> k])

LEMMA MaxOf ==
    ASSUME NEW n \in Nat, NEW s \in SUBSET (1 .. n), s # {}
    PROVE  Max(s) \in s /\ \A y \in s : y <= Max(s)
  <1>1. s \in SUBSET (0 .. n)
    OBVIOUS
  <1>2. PICK x \in s : \A y \in s : y <= x
    BY <1>1, GreatestOf
  <1>3. s \in SUBSET Int
    OBVIOUS
  <1>4. Max(s) = x
    BY <1>2, <1>3, MaxIs
  <1> QED BY <1>2, <1>4

\* What g merges of a set of the first n parts it merges in their order.
MergesInOrder(g, chunk, out, n) ==
    /\ g[{}] = out
    /\ \A s \in SUBSET (1 .. n) : s # {} => g[s] = Merge(g[s \ {Max(s)}], chunk, Max(s))

\* A function that merges the parts of every set in order is the fold.
LEMMA FoldIs ==
    ASSUME NEW chunk, NEW out, NEW n \in Nat, DOMAIN chunk.parts = 1 .. n, NEW g,
           MergesInOrder(g, chunk, out, n)
    PROVE  Folded(out, chunk) = g[1 .. n]
  <1> DEFINE S == 1 .. n
             parts == [k \in DOMAIN chunk.parts |-> k]
             Step(h) == [s \in SUBSET S |->
                            IF s = {} THEN out ELSE Merge(h[s \ {Max(s)}], chunk, parts[Max(s)])]
             iter == CHOOSE h : h = Step(h)
  <1>1. Folded(out, chunk) = iter[S]
    BY DEF Folded, FoldLeft, MapThenFoldSet
  <1>2. \A s \in SUBSET S : s # {} => Max(s) \in s /\ parts[Max(s)] = Max(s)
    BY MaxOf
  <1> DEFINE h == [s \in SUBSET S |-> g[s]]
  <1>3. h = Step(h)
    <2>1. ASSUME NEW s \in SUBSET S
          PROVE  g[s] = IF s = {} THEN out ELSE Merge(h[s \ {Max(s)}], chunk, parts[Max(s)])
      <3>1. s \ {Max(s)} \in SUBSET S
        OBVIOUS
      <3>2. h[s \ {Max(s)}] = g[s \ {Max(s)}]
        BY <3>1
      <3> QED BY <1>2, <3>2 DEF MergesInOrder
    <2> QED BY <2>1
  <1>4. iter = Step(iter)
    BY <1>3
  <1> DEFINE differ == {s \in SUBSET S : iter[s] # g[s]}
  <1> HIDE DEF iter
  <1>5. differ = {}
    <2>1. SUFFICES ASSUME differ # {} PROVE FALSE
      OBVIOUS
    <2>2. PICK s \in differ : \A r \in differ : ~(r \subseteq s /\ r # s)
      <3>1. differ \in SUBSET SUBSET S /\ IsFiniteSet(S)
        BY FS_Interval
      <3> HIDE DEF differ, S
      <3> QED BY <2>1, <3>1, SmallestSet
    <2>3. s # {}
      BY <1>4 DEF MergesInOrder
    <2>4. s \ {Max(s)} \in SUBSET S /\ s \ {Max(s)} \subseteq s /\ s \ {Max(s)} # s
      BY <1>2, <2>3
    <2>5. iter[s \ {Max(s)}] = g[s \ {Max(s)}]
      BY <2>2, <2>4
    <2>6. /\ iter[s] = Merge(iter[s \ {Max(s)}], chunk, Max(s))
          /\ g[s] = Merge(g[s \ {Max(s)}], chunk, Max(s))
      BY <1>2, <1>3, <1>4, <2>3 DEF MergesInOrder
    <2> QED BY <2>5, <2>6
  <1>6. iter[S] = g[S]
    BY <1>5
  <1> QED BY <1>1, <1>6

LEMMA NoParts ==
    ASSUME NEW chunk, NEW out, chunk.parts = <<>>
    PROVE  Folded(out, chunk) = out
  <1> DEFINE g == [s \in SUBSET (1 .. 0) |-> out]
  <1>1. DOMAIN chunk.parts = 1 .. 0 /\ 1 .. 0 = {}
    OBVIOUS
  <1>2. g[{}] = out /\ \A s \in SUBSET (1 .. 0) : s = {}
    BY <1>1
  <1> HIDE DEF g
  <1>3. MergesInOrder(g, chunk, out, 0)
    BY <1>2 DEF MergesInOrder
  <1>4. Folded(out, chunk) = g[1 .. 0]
    BY <1>1, <1>3, FoldIs
  <1> QED BY <1>1, <1>2, <1>4

LEMMA OnePart ==
    ASSUME NEW chunk, NEW out, NEW part, chunk.parts = <<part>>
    PROVE  Folded(out, chunk) = Merge(out, chunk, 1)
  <1> DEFINE g == [s \in SUBSET (1 .. 1) |-> IF s = {} THEN out ELSE Merge(out, chunk, 1)]
  <1>1. DOMAIN chunk.parts = 1 .. 1
    OBVIOUS
  <1>2. ASSUME NEW s \in SUBSET (1 .. 1), s # {}
        PROVE  Max(s) = 1 /\ s \ {Max(s)} = {}
    <2>1. \A y \in s : y = 1
      OBVIOUS
    <2>2. Max(s) \in s
      BY <1>2, MaxOf
    <2> QED BY <2>1, <2>2
  <1>3. g[{}] = out /\ g[1 .. 1] = Merge(out, chunk, 1)
    OBVIOUS
  <1>4. MergesInOrder(g, chunk, out, 1)
    <2>1. \A s \in SUBSET (1 .. 1) : s # {} => g[s] = Merge(g[s \ {Max(s)}], chunk, Max(s))
      BY <1>2, <1>3
    <2> QED BY <1>3, <2>1 DEF MergesInOrder
  <1> HIDE DEF g
  <1>5. Folded(out, chunk) = g[1 .. 1]
    BY <1>1, <1>4, FoldIs
  <1> QED BY <1>3, <1>5

\* The calls of a whole message, as they are decoded.
Whole(c) == [id |-> c.id, type |-> "function", name |-> <<>> \o c.name, args |-> <<>> \o c.args]

LEMMA AllParts ==
    ASSUME NEW chunk, NEW out, NEW calls, NEW n \in Nat, DOMAIN calls = 1 .. n,
           out = [error |-> FALSE, content |-> out.content, calls |-> <<>>, finish |-> out.finish],
           ~chunk.delta,
           chunk.parts = [i \in 1 .. n |-> Piece(0, calls[i].id, "function", calls[i].name, calls[i].args)]
    PROVE  Folded(out, chunk) = [out EXCEPT !.calls = [i \in 1 .. n |-> Whole(calls[i])]]
  <1> DEFINE g == [s \in SUBSET (1 .. n) |-> [out EXCEPT !.calls = [i \in s |-> Whole(calls[i])]]]
  <1>1. [i \in {} |-> Whole(calls[i])] = <<>>
    OBVIOUS
  <1>2. [out EXCEPT !.calls = [i \in {} |-> Whole(calls[i])]] = out
    BY <1>1
  <1>3. ASSUME NEW s \in SUBSET (1 .. n), s # {}
        PROVE  g[s] = Merge(g[s \ {Max(s)}], chunk, Max(s))
    <2> DEFINE m == Max(s)
               r == s \ {m}
    <2>1. m \in s /\ m \in 1 .. n /\ r \in SUBSET (1 .. n) /\ s = r \cup {m} /\ m \notin r
      BY <1>3, MaxOf
    <2> HIDE DEF m
    <2>2. g[r].calls = [i \in r |-> Whole(calls[i])] /\ g[r].error = FALSE
      BY <2>1
    <2>3. /\ IndexOf(chunk, m) = m
          /\ chunk.parts[m] = Piece(0, calls[m].id, "function", calls[m].name, calls[m].args)
      BY <2>1 DEF IndexOf
    <2>4. m \notin DOMAIN g[r].calls /\ DOMAIN g[r].calls = r
      BY <2>1, <2>2
    <2>5. ~Conflicts(NoCall, chunk.parts[m])
      BY DEF Conflicts, NoCall
    <2> DEFINE part == chunk.parts[m]
               merged == [id |-> IF part.id # <<>> THEN part.id ELSE NoCall.id,
                          type |-> IF part.type # "none" THEN part.type ELSE NoCall.type,
                          name |-> NoCall.name \o part.name, args |-> NoCall.args \o part.args]
    <2>6. merged = Whole(calls[m])
      <3>1. /\ part.id = calls[m].id /\ part.type = "function"
            /\ part.name = calls[m].name /\ part.args = calls[m].args
        BY <2>3 DEF Piece
      <3>2. NoCall.id = <<>> /\ NoCall.name = <<>> /\ NoCall.args = <<>>
        BY DEF NoCall
      <3> HIDE DEF part
      <3>3. /\ (IF part.id # <<>> THEN part.id ELSE NoCall.id) = calls[m].id
            /\ (IF part.type # "none" THEN part.type ELSE NoCall.type) = "function"
        BY <3>1, <3>2
      <3> QED BY <3>1, <3>2, <3>3 DEF Whole
    <2>7. Merge(g[r], chunk, m)
            = [g[r] EXCEPT !.calls = [j \in r \cup {m} |->
                                         IF j = m THEN merged ELSE g[r].calls[j]]]
      BY <2>2, <2>3, <2>4, <2>5 DEF Merge
    <2>8. [j \in r \cup {m} |-> IF j = m THEN merged ELSE g[r].calls[j]]
            = [i \in s |-> Whole(calls[i])]
      BY <2>1, <2>2, <2>6
    <2>9. [g[r] EXCEPT !.calls = [i \in s |-> Whole(calls[i])]] = g[s]
      BY <2>1
    <2> QED BY <2>7, <2>8, <2>9 DEF m
  <1>4. MergesInOrder(g, chunk, out, n)
    <2>1. g[{}] = out
      BY <1>2
    <2> HIDE DEF g
    <2> QED BY <1>3, <2>1 DEF MergesInOrder
  <1>5. DOMAIN chunk.parts = 1 .. n
    OBVIOUS
  <1>6. g[1 .. n] = [out EXCEPT !.calls = [i \in 1 .. n |-> Whole(calls[i])]]
    OBVIOUS
  <1> HIDE DEF g
  <1>7. Folded(out, chunk) = g[1 .. n]
    BY <1>4, <1>5, FoldIs
  <1> QED BY <1>6, <1>7

-----------------------------------------------------------------------------
(* The order of the calls.                                                 *)

Below(D, i) == {j \in D : j < i}

LEMMA FiniteIndexes ==
    ASSUME NEW m \in Nat, NEW D \in SUBSET (1 .. m)
    PROVE  IsFiniteSet(D)
  <1>1. IsFiniteSet(1 .. m)
    BY FS_Interval
  <1> QED BY <1>1, FS_Subset

\* Every rank is taken.
LEMMA RankTaken ==
    ASSUME NEW m \in Nat, NEW D \in SUBSET (1 .. m), NEW n \in 1 .. Cardinality(D)
    PROVE  \E i \in D : Cardinality(Below(D, i)) = n - 1
  <1> DEFINE Lacks(d, k) == \A i \in d : Cardinality(Below(d, i)) # k - 1
             bad == {d \in SUBSET D : \E k \in 1 .. Cardinality(d) : Lacks(d, k)}
  <1>0. IsFiniteSet(D)
    BY FiniteIndexes
  <1>1. \A d \in SUBSET D : IsFiniteSet(d)
    BY <1>0, FS_Subset
  <1>2. SUFFICES ASSUME bad # {} PROVE FALSE
    OBVIOUS
  <1>3. PICK s \in bad : \A r \in bad : ~(r \subseteq s /\ r # s)
    <2> DEFINE all == D
    <2>1. bad \in SUBSET SUBSET all /\ IsFiniteSet(all)
      BY <1>0
    <2> HIDE DEF all, bad
    <2> QED BY <1>2, <2>1, SmallestSet
  <1>4. PICK k \in 1 .. Cardinality(s) : Lacks(s, k)
    BY <1>3
  <1>5. s \in SUBSET (1 .. m) /\ IsFiniteSet(s) /\ Cardinality(s) \in Nat
    BY <1>1, FS_CardinalityType
  <1>6. s # {}
    BY <1>4, FS_EmptySet
  <1> DEFINE x == Max(s)
             r == s \ {x}
  <1>7. x \in s /\ \A y \in s : y <= x
    BY <1>5, <1>6, MaxOf
  <1> HIDE DEF x
  <1>8. Cardinality(r) = Cardinality(s) - 1
    BY <1>5, <1>7, FS_RemoveElement
  <1>9. CASE k = Cardinality(s)
    <2>1. Below(s, x) = r
      <3>1. \A y \in s : y \in Int
        BY <1>5
      <3>2. \A y \in s : y < x <=> y # x
        BY <1>7, <3>1
      <3> QED BY <3>2 DEF Below
    <2> QED BY <1>4, <1>7, <1>8, <1>9, <2>1
  <1>10. CASE k # Cardinality(s)
    <2>1. k \in 1 .. Cardinality(r)
      BY <1>5, <1>8, <1>10
    <2>2. r \notin bad
      BY <1>3, <1>7
    <2>3. PICK i \in r : Cardinality(Below(r, i)) = k - 1
      BY <2>1, <2>2
    <2>4. Below(s, i) = Below(r, i)
      <3>1. i \in Int /\ x \in Int /\ i <= x /\ i # x
        BY <1>5, <1>7
      <3> QED BY <3>1 DEF Below
    <2> QED BY <1>4, <2>3, <2>4
  <1> QED BY <1>9, <1>10

LEMMA PlacesAreIndexes ==
    ASSUME NEW m \in Nat, NEW calls, DOMAIN calls \subseteq 1 .. m
    PROVE  /\ Cardinality(DOMAIN calls) \in Nat
           /\ DOMAIN Places(calls) = 1 .. Cardinality(DOMAIN calls)
           /\ \A n \in DOMAIN Places(calls) : Places(calls)[n] \in DOMAIN calls
           /\ \A n, l \in DOMAIN Places(calls) : Places(calls)[n] = Places(calls)[l] => n = l
  <1> DEFINE D == DOMAIN calls
  <1>1. Cardinality(D) \in Nat
    BY FiniteIndexes, FS_CardinalityType
  <1>2. ASSUME NEW n \in 1 .. Cardinality(D)
        PROVE  /\ Places(calls)[n] \in D
               /\ Cardinality(Below(D, Places(calls)[n])) = n - 1
    <2>1. Places(calls)[n] = CHOOSE i \in D : Cardinality(Below(D, i)) = n - 1
      BY DEF Places, Below
    <2>2. \E i \in D : Cardinality(Below(D, i)) = n - 1
      <3> HIDE DEF D
      <3>1. D \in SUBSET (1 .. m)
        BY DEF D
      <3> QED BY <3>1, RankTaken
    <2> QED BY <2>1, <2>2
  <1>3. DOMAIN Places(calls) = 1 .. Cardinality(D)
    BY DEF Places
  <1>4. ASSUME NEW n \in 1 .. Cardinality(D), NEW l \in 1 .. Cardinality(D),
               Places(calls)[n] = Places(calls)[l]
        PROVE  n = l
    <2>1. n - 1 = l - 1
      BY <1>2, <1>4
    <2> QED BY <1>1, <2>1
  <1> QED BY <1>1, <1>2, <1>3, <1>4

\* When none is missing, each call is at its index.
LEMMA PlacesOfAll ==
    ASSUME NEW m \in Nat, NEW calls, DOMAIN calls = 1 .. m
    PROVE  DOMAIN Places(calls) = 1 .. m /\ \A n \in 1 .. m : Places(calls)[n] = n
  <1>1. Cardinality(1 .. m) = m
    BY FS_Interval
  <1>2. DOMAIN Places(calls) = 1 .. m
    BY <1>1 DEF Places
  <1>3. ASSUME NEW n \in 1 .. m PROVE Places(calls)[n] = n
    <2>1. Places(calls)[n] = CHOOSE i \in 1 .. m : Cardinality(Below(1 .. m, i)) = n - 1
      BY <1>1 DEF Places, Below
    <2>2. ASSUME NEW i \in 1 .. m PROVE Cardinality(Below(1 .. m, i)) = i - 1
      <3>1. Below(1 .. m, i) = 1 .. i - 1
        BY DEF Below
      <3>2. i - 1 \in Nat
        OBVIOUS
      <3>3. Cardinality(1 .. i - 1) = i - 1
        BY <3>2, FS_Interval
      <3> QED BY <3>1, <3>3
    <2>3. \A i \in 1 .. m : Cardinality(Below(1 .. m, i)) = n - 1 => i = n
      BY <2>2
    <2> QED BY <2>1, <2>2, <2>3
  <1> QED BY <1>2, <1>3

-----------------------------------------------------------------------------
(* The inductive invariant.                                                *)

Transients == {s \in Statuses : Transient(s)}

\* The loop: while it goes on, nothing has happened that ends it.
LoopInv ==
    /\ api \in Apis /\ attempt \in 0 .. 2 /\ expired \in BOOLEAN /\ seen \subseteq Statuses
    /\ phase \in {"sending", "receiving", "pausing", "ended"}
    /\ result.kind \in {"none", "turn", "timeout", "provider_configuration",
                        "provider_protocol", "provider_transport"}
    /\ phase = "pausing" => attempt < 2
    /\ phase # "ended" => result = Pending /\ seen \subseteq Transients
    /\ phase = "ended" => result.kind # "none"
    /\ TransientIsMasked

Noises == {"unindexed", "error", "junk", "choice"}
SaidAll == /\ said = Len(turn.content)
           /\ \A i \in DOMAIN turn.calls : given[i] = Len(turn.calls[i].args)

\* The provider says a turn from its beginning.
ProviderInv ==
    /\ turn \in Turns /\ (api # "native" => turn.calls = <<>>)
    /\ given \in [DOMAIN turn.calls -> Nat]
    /\ \A i \in DOMAIN turn.calls : given[i] <= Len(turn.calls[i].args)
    /\ said \in 0 .. Len(turn.content)
    /\ finish \in {"none", "stop", "length"} /\ (finish = "stop" => SaidAll)
    /\ noise \subseteq Noises /\ Cardinality(noise) <= MaxNoise

\* Call i with the first n of its pieces.
Begun(i, n) ==
    [id |-> turn.calls[i].id, type |-> "function", name |-> turn.calls[i].name,
     args |-> SubSeq(turn.calls[i].args, 1, n)]

\* The first piece of call w came without its index, before any of call 1, and
\* was taken for the first call.
Misplaced(w) ==
    /\ w \in DOMAIN turn.calls /\ w # 1 /\ OwnIds
    /\ given[w] > 0 /\ given[1] = 0
    /\ 1 \in DOMAIN decoded.calls /\ decoded.calls[1] = Begun(w, 1)

\* Each call that has begun is decoded as far as it was said; of a misplaced one
\* the rest has no name, so that no turn is made of it.
CallsDecoded ==
    /\ decoded.calls = [i \in DOMAIN decoded.calls |-> decoded.calls[i]]
    /\ \A i \in DOMAIN turn.calls : given[i] > 0 =>
          \/ i \in DOMAIN decoded.calls /\ decoded.calls[i] = Begun(i, given[i])
          \/ Misplaced(i) /\ (i \in DOMAIN decoded.calls => decoded.calls[i].name = <<>>)
    /\ \A i \in DOMAIN decoded.calls :
          /\ i \in DOMAIN turn.calls
          /\ given[i] = 0 => i = 1 /\ \E w \in DOMAIN turn.calls : Misplaced(w)

DecodedAsSaid ==
    /\ decoded.finish = finish
    /\ decoded.content = SubSeq(turn.content, 1, said)
    /\ CallsDecoded

DecoderInv ==
    /\ decoded = [error |-> decoded.error, content |-> decoded.content,
                  calls |-> decoded.calls, finish |-> decoded.finish]
    /\ decoded.error \in BOOLEAN
    /\ api # "complete" /\ ~decoded.error => DecodedAsSaid
    /\ api = "complete" /\ "choice" \notin noise => decoded.content = SubSeq(turn.content, 1, said)
    /\ phase = "sending" => decoded = Decoded

IInv ==
    /\ LoopInv /\ ProviderInv /\ DecoderInv
    /\ result.kind = "turn" => result = Answer(decoded)

-----------------------------------------------------------------------------
(* Texts.                                                                  *)

LEMMA TextTypes ==
    ASSUME NEW s, IsText(s)
    PROVE  /\ Len(s) \in Nat /\ DOMAIN s = 1 .. Len(s)
           /\ SubSeq(s, 1, 0) = <<>> /\ SubSeq(s, 1, Len(s)) = s /\ <<>> \o s = s
           /\ \A n \in 0 .. Len(s) : /\ SubSeq(s, 1, n) \o <<>> = SubSeq(s, 1, n)
                                     /\ Len(SubSeq(s, 1, n)) = n
           /\ \A n \in 0 .. Len(s) - 1 :
                 SubSeq(s, 1, n) \o <<s[n + 1]>> = SubSeq(s, 1, n + 1)
  <1> DEFINE S == {s[i] : i \in DOMAIN s}
  <1>1. s \in Seq(S)
    BY DEF IsText
  <1> HIDE DEF S
  <1>2. Len(s) \in Nat /\ DOMAIN s = 1 .. Len(s)
    BY <1>1, LenProperties
  <1>3. SubSeq(s, 1, 0) = <<>> /\ SubSeq(s, 1, Len(s)) = s /\ <<>> \o s = s
    BY <1>1, <1>2
  <1>4. \A n \in 0 .. Len(s) : /\ SubSeq(s, 1, n) \o <<>> = SubSeq(s, 1, n)
                               /\ Len(SubSeq(s, 1, n)) = n
    BY <1>1, <1>2
  <1>5. \A n \in 0 .. Len(s) - 1 :
           SubSeq(s, 1, n) \o <<s[n + 1]>> = SubSeq(s, 1, n + 1)
    BY <1>1, <1>2
  <1> QED BY <1>2, <1>3, <1>4, <1>5

LEMMA PrefixOfPrefix ==
    ASSUME NEW s, IsText(s), NEW n \in 0 .. Len(s)
    PROVE  SubSeq(SubSeq(s, 1, n), 1, n) = SubSeq(s, 1, n)
  <1> DEFINE S == {s[i] : i \in DOMAIN s}
  <1>1. s \in Seq(S)
    BY DEF IsText
  <1> HIDE DEF S
  <1>2. Len(s) \in Nat /\ n \in Nat
    BY <1>1, LenProperties
  <1>3. SubSeq(s, 1, n) \in Seq(S) /\ Len(SubSeq(s, 1, n)) = n
    BY <1>1, <1>2
  <1> DEFINE p == SubSeq(s, 1, n)
  <1> HIDE DEF p
  <1>4. SubSeq(p, 1, Len(p)) = p
    BY <1>3 DEF p
  <1> QED BY <1>3, <1>4 DEF p

LEMMA TurnTypes ==
    ASSUME turn \in Turns
    PROVE  /\ IsText(turn.content) /\ IsText(turn.calls)
           /\ \A i \in DOMAIN turn.calls :
                 /\ IsText(turn.calls[i].name) /\ IsText(turn.calls[i].args)
                 /\ Len(turn.calls[i].args) \in Nat \ {0}
                 /\ turn.calls[i] = [id |-> turn.calls[i].id, name |-> turn.calls[i].name,
                                     args |-> turn.calls[i].args]
  <1>1. /\ IsText(turn.content) /\ IsText(turn.calls)
        /\ \A i \in DOMAIN turn.calls :
              /\ IsText(turn.calls[i].name) /\ IsText(turn.calls[i].args)
              /\ turn.calls[i].args # <<>>
              /\ turn.calls[i] = [id |-> turn.calls[i].id, name |-> turn.calls[i].name,
                                  args |-> turn.calls[i].args]
    BY CompletionAssumption
  <1>2. ASSUME NEW i \in DOMAIN turn.calls PROVE Len(turn.calls[i].args) \in Nat \ {0}
    <2> DEFINE s == turn.calls[i].args
    <2>1. IsText(s) /\ s # <<>>
      BY <1>1
    <2> HIDE DEF s
    <2>2. Len(s) \in Nat /\ SubSeq(s, 1, 0) = <<>> /\ SubSeq(s, 1, Len(s)) = s
      BY <2>1, TextTypes
    <2>3. Len(s) # 0
      BY <2>1, <2>2
    <2> QED BY <2>2, <2>3 DEF s
  <1> QED BY <1>1, <1>2

-----------------------------------------------------------------------------
(* The loop.                                                               *)

LEMMA AnswerKinds == Answer(decoded).kind \in {"turn", "provider_protocol"}
  <1>1. \A out : Assistant(out).kind \in {"turn", "provider_protocol"}
    BY DEF Assistant, Failed, Pending
  <1>2. Legacy(Assistant(decoded)).kind \in {"turn", "provider_protocol"}
    BY <1>1 DEF Legacy, Failed, Pending
  <1>3. Text(decoded).kind \in {"turn", "provider_protocol"}
    BY DEF Text, Failed, Pending
  <1> QED BY <1>1, <1>2, <1>3 DEF Answer

\* What an answer is made of.
LEMMA SameAnswer ==
    ASSUME UNCHANGED <<api, decoded>>
    PROVE  Answer(decoded)' = Answer(decoded)
  BY DEF Answer, Assistant, Legacy, Text

LEMMA FailLoop ==
    ASSUME LoopInv, phase # "ended", NEW status \in Statuses, Fail(status),
           status \in {"none", "4xx", "429", "5xx", "broken"}
    PROVE  LoopInv' /\ result'.kind # "turn"
  <1>1. /\ seen' = seen \cup {status} /\ UNCHANGED <<api, attempt, expired, providerVars>>
        /\ result = Pending /\ seen \subseteq Transients
    BY DEF LoopInv, Fail
  <1>2. Transients' = Transients
    BY <1>1 DEF Transients, Transient
  <1>3. CASE ~Transient(status)
    <2>1. phase' = "ended" /\ result' = Failed("provider_configuration")
      BY <1>3 DEF Fail, End
    <2>2. status = "4xx" \/ (status = "broken" /\ api' # "complete")
      BY <1>1, <1>3 DEF Transient
    <2>3. result'.kind = "provider_configuration"
      BY <2>1 DEF Failed, Pending
    <2>4. TransientIsMasked'
      BY <1>1, <2>2, <2>3 DEF TransientIsMasked
    <2> QED BY <1>1, <2>1, <2>3, <2>4 DEF LoopInv
  <1>4. CASE Transient(status) /\ (attempt = 2 \/ (api = "complete" /\ expired))
    <2>1. phase' = "ended" /\ result' = Failed("provider_transport")
      BY <1>4 DEF Fail, End
    <2>2. "4xx" \notin seen'
      BY <1>1, <1>4 DEF Transient, Transients
    <2>3. result'.kind = "provider_transport"
      BY <2>1 DEF Failed, Pending
    <2>4. TransientIsMasked'
      BY <1>1, <1>4, <2>2, <2>3 DEF TransientIsMasked
    <2> QED BY <1>1, <2>1, <2>3, <2>4 DEF LoopInv
  <1>5. CASE Transient(status) /\ ~(attempt = 2 \/ (api = "complete" /\ expired))
    <2>1. phase' = "pausing" /\ result' = Pending /\ attempt < 2
      BY <1>1, <1>5 DEF Fail, LoopInv
    <2>2. seen' \subseteq Transients
      BY <1>1, <1>5 DEF Transients
    <2>3. "4xx" \notin seen'
      BY <2>2 DEF Transients, Transient
    <2>4. result'.kind = "none"
      BY <2>1 DEF Pending
    <2>5. TransientIsMasked'
      BY <2>3, <2>4 DEF TransientIsMasked
    <2> QED BY <1>1, <1>2, <2>1, <2>2, <2>4, <2>5 DEF LoopInv
  <1> QED BY <1>3, <1>4, <1>5

\* The end of an attempt that was answered, or of a pause.
LEMMA EndLoop ==
    ASSUME LoopInv, phase # "ended", NEW r, End(r), UNCHANGED <<api, attempt, expired, seen>>,
           r.kind \in {"turn", "provider_protocol", "timeout"}
    PROVE  LoopInv'
  <1>1. phase' = "ended" /\ result' = r /\ seen \subseteq Transients
    BY DEF End, LoopInv
  <1>2. "4xx" \notin seen'
    BY <1>1 DEF Transients, Transient
  <1>3. "broken" \in seen' => api' = "complete"
    BY <1>1 DEF Transients, Transient
  <1>4. TransientIsMasked'
    BY <1>1, <1>2, <1>3 DEF TransientIsMasked
  <1> QED BY <1>1, <1>4 DEF LoopInv

LEMMA GoOnLoop ==
    ASSUME LoopInv, phase # "ended", phase' \in {"sending", "receiving", "pausing"},
           phase' = "pausing" => phase = "pausing" /\ UNCHANGED attempt,
           attempt' \in 0 .. 2, expired' \in BOOLEAN, UNCHANGED <<api, result, seen>>
    PROVE  LoopInv'
  <1>1. result = Pending /\ seen \subseteq Transients
    BY DEF LoopInv
  <1>2. Transients' = Transients
    BY DEF Transients, Transient
  <1>3. "4xx" \notin seen' /\ result'.kind = "none"
    BY <1>1 DEF Transients, Transient, Pending
  <1>4. TransientIsMasked'
    BY <1>3 DEF TransientIsMasked
  <1> QED BY <1>1, <1>2, <1>3, <1>4 DEF LoopInv

\* A step that changes nothing that was received.
LEMMA KeepsDecoded ==
    ASSUME IInv, UNCHANGED <<api, providerVars>>, phase' # "sending" \/ phase = "sending"
    PROVE  ProviderInv' /\ DecoderInv'
  <1>1. UNCHANGED <<api, turn, given, said, finish, noise, decoded>>
    BY DEF providerVars
  <1>2. ProviderInv'
    BY <1>1 DEF IInv, ProviderInv, SaidAll
  <1>3. CallsDecoded' = CallsDecoded
    BY <1>1 DEF CallsDecoded, Misplaced, Begun, OwnIds
  <1>4. DecoderInv'
    BY <1>1, <1>3 DEF IInv, DecoderInv, DecodedAsSaid
  <1> QED BY <1>2, <1>4

LEMMA RestartDecoded ==
    ASSUME IInv, Restart
    PROVE  ProviderInv' /\ DecoderInv'
  <1>1. api' = api /\ turn' = turn /\ finish' = "none" /\ decoded' = Decoded
    BY DEF Restart
  <1>a. said' = 0
    BY DEF Restart
  <1>b. noise' = {}
    BY DEF Restart
  <1>2. IsText(turn.content) /\ \A i \in DOMAIN turn.calls : Len(turn.calls[i].args) \in Nat \ {0}
    BY TurnTypes DEF IInv, ProviderInv
  <1>3. Len(turn.content) \in Nat /\ SubSeq(turn.content, 1, 0) = <<>>
    BY <1>2, TextTypes
  <1>4. given' \in [DOMAIN turn.calls -> Nat] /\ \A i \in DOMAIN turn.calls : given'[i] = 0
    BY DEF IInv, ProviderInv, Restart
  <1>5. Cardinality({}) = 0 /\ MaxNoise \in Nat
    BY FS_EmptySet, CompletionAssumption
  <1>6. ProviderInv'
    <2>1. turn' \in Turns /\ (api' # "native" => turn'.calls = <<>>)
      BY <1>1 DEF IInv, ProviderInv
    <2>2. /\ given' \in [DOMAIN turn'.calls -> Nat]
          /\ \A i \in DOMAIN turn'.calls : given'[i] <= Len(turn'.calls[i].args)
      BY <1>1, <1>2, <1>4
    <2>3. said' \in 0 .. Len(turn'.content)
      BY <1>1, <1>a, <1>3
    <2>4. finish' \in {"none", "stop", "length"} /\ finish' # "stop"
      BY <1>1
    <2>5. noise' \subseteq Noises /\ Cardinality(noise') <= MaxNoise
      BY <1>b, <1>5
    <2> QED BY <2>1, <2>2, <2>3, <2>4, <2>5 DEF ProviderInv
  <1>7. CallsDecoded'
    <2>1. decoded'.calls = <<>> /\ DOMAIN decoded'.calls = {}
      BY <1>1, 1 .. 0 = {} DEF Decoded
    <2>2. <<>> = [i \in {} |-> decoded'.calls[i]]
      OBVIOUS
    <2>3. ~(\E i \in DOMAIN turn'.calls : given'[i] > 0)
      BY <1>1, <1>4
    <2> QED BY <2>1, <2>2, <2>3 DEF CallsDecoded
  <1>8. DecoderInv'
    BY <1>1, <1>a, <1>3, <1>7 DEF DecoderInv, DecodedAsSaid, Decoded
  <1> QED BY <1>6, <1>8

LEMMA ClientStep ==
    ASSUME IInv, Client \/ Expire
    PROVE  IInv'
  <1> USE DEF IInv
  <1>1. ASSUME NEW status \in Statuses, Fail(status), phase # "ended" PROVE IInv'
    <2>1. LoopInv' /\ result'.kind # "turn"
      BY <1>1, FailLoop DEF Statuses
    <2>2. UNCHANGED <<api, providerVars>> /\ phase' # "sending"
      BY <1>1 DEF Fail, End, LoopInv
    <2> QED BY <2>1, <2>2, KeepsDecoded
  <1>2. CASE NoAnswer \/ (\E status \in {"4xx", "429", "5xx"} : Refused(status)) \/ BodyBreaks
    BY <1>1, <1>2 DEF NoAnswer, Refused, BodyBreaks, Statuses
  <1>3. CASE Answered \/ Expire
    <2>1. /\ phase # "ended" /\ phase' \in {"sending", "receiving", "pausing"}
          /\ UNCHANGED <<api, attempt, result, seen, providerVars>> /\ expired' \in BOOLEAN
          /\ phase' = "pausing" => phase = "pausing"
          /\ phase' # "sending" \/ phase = "sending"
      BY <1>3 DEF Answered, Expire, LoopInv
    <2>2. attempt \in 0 .. 2 /\ result.kind # "turn"
      BY <2>1 DEF LoopInv, Pending
    <2>3. LoopInv'
      BY <2>1, <2>2, GoOnLoop
    <2> QED BY <2>1, <2>2, <2>3, KeepsDecoded
  <1>4. CASE BodyEnds
    <2>1. /\ phase # "ended" /\ End(Answer(decoded))
          /\ UNCHANGED <<api, attempt, expired, providerVars, seen>>
      BY <1>4 DEF BodyEnds
    <2>2. LoopInv'
      BY <2>1, AnswerKinds, EndLoop
    <2>3. UNCHANGED decoded /\ result' = Answer(decoded) /\ phase' = "ended"
      BY <2>1 DEF providerVars, End
    <2>4. result' = Answer(decoded)'
      BY <2>1, <2>3, SameAnswer
    <2> QED BY <2>1, <2>2, <2>3, <2>4, KeepsDecoded
  <1>5. CASE BodyTooLong \/ GiveUp
    <2>1. PICK kind \in {"provider_protocol", "timeout"} : End(Failed(kind))
      BY <1>5 DEF BodyTooLong, GiveUp
    <2>2. phase # "ended" /\ UNCHANGED <<api, attempt, expired, providerVars, seen>>
      BY <1>5 DEF BodyTooLong, GiveUp
    <2>3. Failed(kind).kind = kind
      BY DEF Failed, Pending
    <2>4. LoopInv'
      BY <2>1, <2>2, <2>3, EndLoop
    <2>5. phase' = "ended" /\ result'.kind # "turn"
      BY <2>1, <2>3 DEF End
    <2> QED BY <2>2, <2>4, <2>5, KeepsDecoded
  <1>6. CASE Again
    <2>1. Restart /\ attempt' = attempt + 1
      BY <1>6 DEF Again
    <2>0. phase = "pausing" /\ phase' = "sending" /\ UNCHANGED <<api, expired, result, seen>>
      BY <2>1 DEF Restart
    <2>2. attempt < 2 /\ attempt \in 0 .. 2 /\ expired \in BOOLEAN /\ result.kind # "turn"
      BY <2>0 DEF LoopInv, Pending
    <2>3. attempt' \in 0 .. 2
      BY <2>1, <2>2
    <2>4. LoopInv'
      BY <2>0, <2>2, <2>3, GoOnLoop
    <2> QED BY <2>0, <2>1, <2>2, <2>4, RestartDecoded
  <1> QED BY <1>2, <1>3, <1>4, <1>5, <1>6 DEF Client

-----------------------------------------------------------------------------
(* The provider: what its chunks do to the loop and to an attempt that is   *)
(* lost already.                                                           *)

LEMMA SendLoop ==
    ASSUME IInv, NEW chunk, Send(chunk)
    PROVE  LoopInv' /\ result'.kind # "turn" /\ phase' = "receiving"
  <1>1. /\ phase = "receiving" /\ UNCHANGED <<api, phase, attempt, expired, result, turn, seen>>
    BY DEF Send
  <1>2. attempt \in 0 .. 2 /\ expired \in BOOLEAN /\ result.kind # "turn"
    BY <1>1 DEF IInv, LoopInv, Pending
  <1>3. LoopInv'
    BY <1>1, <1>2, GoOnLoop DEF IInv
  <1> QED BY <1>1, <1>2, <1>3

\* The end of a chunk's treatment: the noise and the rest of the invariant.
LEMMA NoiseGrows ==
    ASSUME ProviderInv, NEW kind \in Noises, Cardinality(noise) < MaxNoise
    PROVE  noise \cup {kind} \subseteq Noises /\ Cardinality(noise \cup {kind}) <= MaxNoise
  <1>1. MaxNoise \in Nat
    BY CompletionAssumption
  <1>2. IsFiniteSet(Noises)
    <2>1. Noises = (({"unindexed"} \cup {"error"}) \cup {"junk"}) \cup {"choice"}
      BY DEF Noises
    <2>2. \A x : IsFiniteSet({x})
      BY FS_Singleton
    <2>3. IsFiniteSet({"unindexed"} \cup {"error"})
      BY <2>2, FS_Union
    <2>4. IsFiniteSet(({"unindexed"} \cup {"error"}) \cup {"junk"})
      BY <2>2, <2>3, FS_Union
    <2> QED BY <2>1, <2>2, <2>4, FS_Union
  <1>3. IsFiniteSet(noise) /\ Cardinality(noise) \in Nat
    BY <1>2, FS_Subset, FS_CardinalityType DEF ProviderInv
  <1>4. Cardinality(noise \cup {kind}) \in {Cardinality(noise), Cardinality(noise) + 1}
    BY <1>3, FS_AddElement
  <1> QED BY <1>1, <1>3, <1>4 DEF ProviderInv

LEMMA LostStaysLost ==
    ASSUME IInv, NEW chunk, Send(chunk), api # "complete", decoded.error
    PROVE  DecoderInv'
  <1>1. decoded' = [decoded EXCEPT !.error = TRUE] /\ phase' = "receiving" /\ api' = api
    BY DEF Send, Consume
  <1>2. decoded = [error |-> decoded.error, content |-> decoded.content,
                   calls |-> decoded.calls, finish |-> decoded.finish]
    BY DEF IInv, DecoderInv
  <1>3. decoded' = [error |-> TRUE, content |-> decoded.content,
                    calls |-> decoded.calls, finish |-> decoded.finish]
    BY <1>1, <1>2
  <1> QED BY <1>1, <1>3 DEF DecoderInv

\* Complete takes the texts alone.
LEMMA CompleteText ==
    ASSUME IInv, NEW chunk, Send(chunk), api = "complete",
           "choice" \in noise'
           \/ (noise \subseteq noise' /\ UNCHANGED said /\ chunk.kind # "completion")
           \/ (/\ noise \subseteq noise' /\ chunk.kind = "completion"
               /\ SubSeq(turn.content, 1, said') = SubSeq(turn.content, 1, said) \o chunk.content)
    PROVE  DecoderInv'
  <1>1. decoded' = ConsumeText(decoded, chunk) /\ phase' = "receiving" /\ api' = api /\ turn' = turn
    BY DEF Send
  <1>2. /\ decoded = [error |-> decoded.error, content |-> decoded.content,
                      calls |-> decoded.calls, finish |-> decoded.finish]
        /\ decoded.error \in BOOLEAN
        /\ "choice" \notin noise => decoded.content = SubSeq(turn.content, 1, said)
    BY DEF IInv, DecoderInv
  <1>3. /\ decoded' = [error |-> decoded'.error, content |-> decoded'.content,
                       calls |-> decoded'.calls, finish |-> decoded'.finish]
        /\ decoded'.error = decoded.error
        /\ decoded'.content = IF chunk.kind = "completion" THEN decoded.content \o chunk.content
                              ELSE decoded.content
    BY <1>1, <1>2 DEF ConsumeText
  <1>4. "choice" \notin noise' => decoded'.content = SubSeq(turn.content, 1, said')
    BY <1>2, <1>3
  <1> QED BY <1>1, <1>2, <1>3, <1>4 DEF DecoderInv

\* The other two begin with the content and the finish_reason of the chunk.
LEMMA Consumed ==
    ASSUME IInv, api # "complete", ~decoded.error,
           NEW delta, NEW content, NEW parts, NEW reason,
           Send(Chunk(0, delta, content, parts, reason))
    PROVE  /\ decoded' = Folded([error |-> FALSE, content |-> SubSeq(turn.content, 1, said) \o content,
                                 calls |-> decoded.calls, finish |-> reason],
                                Chunk(0, delta, content, parts, reason))
           /\ finish' = reason
  <1> DEFINE chunk == Chunk(0, delta, content, parts, reason)
  <1>1. /\ finish = "none" /\ decoded' = Consume(decoded, chunk) /\ finish' = reason
        /\ chunk.kind = "completion" /\ chunk.choice = 0 /\ chunk.finish = reason
        /\ chunk.content = content
    BY DEF Send, Chunk
  <1>2. /\ decoded = [error |-> FALSE, content |-> SubSeq(turn.content, 1, said),
                      calls |-> decoded.calls, finish |-> "none"]
    BY <1>1 DEF IInv, DecoderInv, DecodedAsSaid
  <1> HIDE DEF chunk
  <1>3. decoded' = Folded([error |-> FALSE, content |-> decoded.content \o chunk.content,
                           calls |-> decoded.calls,
                           finish |-> IF chunk.finish # "none" THEN chunk.finish ELSE decoded.finish],
                          chunk)
    BY <1>1 DEF Consume, Folded
  <1>4. /\ decoded.content = SubSeq(turn.content, 1, said)
        /\ (IF chunk.finish # "none" THEN chunk.finish ELSE decoded.finish) = reason
    BY <1>1, <1>2
  <1> QED BY <1>1, <1>3, <1>4 DEF chunk

LEMMA SameCalls ==
    ASSUME CallsDecoded, UNCHANGED <<turn, given>>, decoded'.calls = decoded.calls
    PROVE  CallsDecoded'
  BY DEF CallsDecoded, Misplaced, Begun, OwnIds

-----------------------------------------------------------------------------
(* Contents, ends and foreign chunks.                                      *)

LEMMA SendContentStep ==
    ASSUME IInv, SendContent
    PROVE  IInv'
  <1> DEFINE piece == turn.content[said + 1]
             chunk == Chunk(0, TRUE, <<piece>>, <<>>, "none")
  <1>1. Send(chunk) /\ said < Len(turn.content) /\ said' = said + 1 /\ UNCHANGED <<given, noise, turn, api>>
    BY DEF SendContent, Send
  <1>2. IsText(turn.content) /\ said \in 0 .. Len(turn.content) /\ Len(turn.content) \in Nat
    BY TurnTypes, TextTypes DEF IInv, ProviderInv
  <1>3. SubSeq(turn.content, 1, said') = SubSeq(turn.content, 1, said) \o <<piece>>
    <2>1. said \in 0 .. Len(turn.content) - 1
      BY <1>1, <1>2
    <2> QED BY <1>1, <1>2, <2>1, TextTypes
  <1>4. chunk.kind = "completion" /\ chunk.content = <<piece>> /\ chunk.parts = <<>>
        /\ chunk.choice = 0 /\ chunk.finish = "none"
    BY DEF Chunk
  <1>5. finish' = "none"
    BY <1>1, <1>4 DEF Send
  <1>6. ProviderInv'
    <2>1. said' \in 0 .. Len(turn'.content)
      BY <1>1, <1>2
    <2> QED BY <1>1, <1>5, <2>1 DEF IInv, ProviderInv
  <1>7. CASE api = "complete"
    <2> HIDE DEF chunk
    <2>1. DecoderInv'
      BY <1>1, <1>3, <1>4, <1>7, CompleteText
    <2> QED BY <1>1, <1>6, <2>1, SendLoop DEF IInv
  <1>8. CASE api # "complete" /\ decoded.error
    <2> HIDE DEF chunk
    <2> QED BY <1>1, <1>6, <1>8, SendLoop, LostStaysLost DEF IInv
  <1>9. CASE api # "complete" /\ ~decoded.error
    <2> DEFINE out == [error |-> FALSE, content |-> SubSeq(turn.content, 1, said) \o <<piece>>,
                       calls |-> decoded.calls, finish |-> "none"]
    <2>1. decoded' = Folded(out, chunk)
      BY <1>1, <1>9, Consumed
    <2>2. decoded' = out
      <3> HIDE DEF out, chunk
      <3> QED BY <1>4, <2>1, NoParts
    <2>3. CallsDecoded'
      BY <1>1, <1>9, <2>2, SameCalls DEF IInv, DecoderInv, DecodedAsSaid
    <2>4. DecodedAsSaid'
      BY <1>1, <1>3, <1>5, <2>2, <2>3 DEF DecodedAsSaid
    <2>5. LoopInv' /\ result'.kind # "turn" /\ phase' = "receiving"
      BY <1>1, SendLoop
    <2>6. DecoderInv'
      BY <1>1, <1>9, <2>2, <2>4, <2>5 DEF DecoderInv
    <2> QED BY <1>6, <2>5, <2>6 DEF IInv
  <1> QED BY <1>7, <1>8, <1>9

LEMMA SendFinishStep ==
    ASSUME IInv, NEW reason \in {"stop", "length"}, SendFinish(reason)
    PROVE  IInv'
  <1> DEFINE chunk == Chunk(0, TRUE, <<>>, <<>>, reason)
  <1>1. Send(chunk) /\ UNCHANGED <<given, said, noise, turn, api>> /\ (reason = "stop" => SaidAll)
    <2>1. given \in [DOMAIN turn.calls -> Nat]
      BY DEF IInv, ProviderInv
    <2> QED BY <2>1 DEF SendFinish, Send, SaidAll
  <1>2. IsText(turn.content) /\ said \in 0 .. Len(turn.content) /\ Len(turn.content) \in Nat
    BY TurnTypes, TextTypes DEF IInv, ProviderInv
  <1>3. SubSeq(turn.content, 1, said') = SubSeq(turn.content, 1, said) \o <<>>
    BY <1>1, <1>2, TextTypes
  <1>4. chunk.kind = "completion" /\ chunk.content = <<>> /\ chunk.parts = <<>>
        /\ chunk.choice = 0 /\ chunk.finish = reason
    BY DEF Chunk
  <1>5. finish' = reason
    BY <1>1, <1>4 DEF Send
  <1>6. ProviderInv'
    BY <1>1, <1>5 DEF IInv, ProviderInv, SaidAll
  <1>7. CASE api = "complete"
    <2> HIDE DEF chunk
    <2>1. DecoderInv'
      BY <1>1, <1>3, <1>4, <1>7, CompleteText
    <2> QED BY <1>1, <1>6, <2>1, SendLoop DEF IInv
  <1>8. CASE api # "complete" /\ decoded.error
    <2> HIDE DEF chunk
    <2> QED BY <1>1, <1>6, <1>8, SendLoop, LostStaysLost DEF IInv
  <1>9. CASE api # "complete" /\ ~decoded.error
    <2> DEFINE out == [error |-> FALSE, content |-> SubSeq(turn.content, 1, said) \o <<>>,
                       calls |-> decoded.calls, finish |-> reason]
    <2>1. decoded' = Folded(out, chunk)
      BY <1>1, <1>9, Consumed
    <2>2. decoded' = out
      <3> HIDE DEF out, chunk
      <3> QED BY <1>4, <2>1, NoParts
    <2>3. CallsDecoded'
      BY <1>1, <1>9, <2>2, SameCalls DEF IInv, DecoderInv, DecodedAsSaid
    <2>4. DecodedAsSaid'
      BY <1>1, <1>3, <1>5, <2>2, <2>3 DEF DecodedAsSaid
    <2>5. LoopInv' /\ result'.kind # "turn" /\ phase' = "receiving"
      BY <1>1, SendLoop
    <2>6. DecoderInv'
      BY <1>1, <1>9, <2>2, <2>4, <2>5 DEF DecoderInv
    <2> QED BY <1>6, <2>5, <2>6 DEF IInv
  <1> QED BY <1>7, <1>8, <1>9

LEMMA SendNoiseStep ==
    ASSUME IInv, NEW kind \in {"error", "junk", "choice"}, SendNoise(kind)
    PROVE  IInv'
  <1> DEFINE other == Chunk(1, TRUE, <<"other">>, <<Piece(1, <<"other">>, "function", <<"other">>, <<>>)>>, "none")
             chunk == IF kind # "choice" THEN [kind |-> kind] ELSE other
  <1>1. /\ Send(chunk) /\ noise' = noise \cup {kind} /\ Cardinality(noise) < MaxNoise
        /\ UNCHANGED <<given, said, turn, api>>
    BY DEF SendNoise, Send
  <1>2. kind # "choice" => chunk.kind = kind
    OBVIOUS
  <1>3. kind = "choice" => chunk.kind = "completion" /\ chunk.choice = 1
    BY DEF Chunk
  <1> HIDE DEF chunk
  <1>4. UNCHANGED finish
    BY <1>1, <1>2, <1>3 DEF Send
  <1>5. ProviderInv'
    <2>1. noise' \subseteq Noises /\ Cardinality(noise') <= MaxNoise
      BY <1>1, NoiseGrows DEF IInv, Noises
    <2> QED BY <1>1, <1>4, <2>1 DEF IInv, ProviderInv, SaidAll
  <1>6. LoopInv' /\ result'.kind # "turn" /\ phase' = "receiving"
    BY <1>1, SendLoop
  <1>7. CASE api = "complete"
    <2>1. "choice" \in noise' \/ (noise \subseteq noise' /\ UNCHANGED said /\ chunk.kind # "completion")
      BY <1>1, <1>2
    <2>2. DecoderInv'
      BY <1>1, <1>7, <2>1, CompleteText
    <2> QED BY <1>5, <1>6, <2>2 DEF IInv
  <1>8. CASE api # "complete" /\ decoded.error
    BY <1>1, <1>5, <1>6, <1>8, LostStaysLost DEF IInv
  <1>9. CASE api # "complete" /\ ~decoded.error /\ kind # "choice"
    <2>1. decoded' = [decoded EXCEPT !.error = TRUE]
      BY <1>1, <1>2, <1>9 DEF Send, Consume
    <2>2. decoded = [error |-> decoded.error, content |-> decoded.content,
                     calls |-> decoded.calls, finish |-> decoded.finish]
      BY DEF IInv, DecoderInv
    <2>3. decoded' = [error |-> TRUE, content |-> decoded.content,
                      calls |-> decoded.calls, finish |-> decoded.finish]
      BY <2>1, <2>2
    <2>4. DecoderInv'
      BY <1>1, <1>6, <1>9, <2>3 DEF DecoderInv
    <2> QED BY <1>5, <1>6, <2>4 DEF IInv
  <1>10. CASE api # "complete" /\ ~decoded.error /\ kind = "choice"
    <2>1. decoded' = Consume(decoded, chunk)
      BY <1>1, <1>10 DEF Send
    <2>2. ~(decoded.error \/ chunk.kind # "completion") /\ chunk.choice # 0
      BY <1>3, <1>10
    <2>3. decoded' = decoded
      BY <2>1, <2>2, Zenon DEF Consume
    <2>4. CallsDecoded'
      BY <1>1, <1>10, <2>3, SameCalls DEF IInv, DecoderInv, DecodedAsSaid
    <2>5. DecoderInv'
      BY <1>1, <1>4, <1>6, <1>10, <2>3, <2>4 DEF IInv, DecoderInv, DecodedAsSaid
    <2> QED BY <1>5, <1>6, <2>5 DEF IInv
  <1> QED BY <1>7, <1>8, <1>9, <1>10

-----------------------------------------------------------------------------
(* A whole message.                                                        *)

LEMMA SendMessageStep ==
    ASSUME IInv, SendMessage
    PROVE  IInv'
  <1> DEFINE parts == [i \in DOMAIN turn.calls |->
                          Piece(0, turn.calls[i].id, "function", turn.calls[i].name, turn.calls[i].args)]
             chunk == Chunk(0, FALSE, turn.content, parts, "stop")
             N == Len(turn.calls)
  <1>1. /\ Send(chunk) /\ said = 0 /\ (\A i \in DOMAIN given : given[i] = 0)
        /\ said' = Len(turn.content) /\ UNCHANGED <<noise, turn, api>>
        /\ given' = [i \in DOMAIN given |-> Len(turn.calls[i].args)]
    BY DEF SendMessage, Send
  <1>2. /\ IsText(turn.content) /\ IsText(turn.calls)
        /\ \A i \in DOMAIN turn.calls :
              /\ IsText(turn.calls[i].name) /\ IsText(turn.calls[i].args)
              /\ Len(turn.calls[i].args) \in Nat \ {0}
    BY TurnTypes DEF IInv, ProviderInv
  <1>3. DOMAIN given = DOMAIN turn.calls
    BY DEF IInv, ProviderInv
  <1>4. DOMAIN turn.calls = 1 .. N /\ N \in Nat
    BY <1>2, TextTypes
  <1>5. /\ Len(turn.content) \in Nat /\ SubSeq(turn.content, 1, 0) = <<>>
        /\ SubSeq(turn.content, 1, Len(turn.content)) = turn.content
        /\ <<>> \o turn.content = turn.content
    BY <1>2, TextTypes
  <1>6. /\ chunk.kind = "completion" /\ chunk.content = turn.content /\ chunk.parts = parts
        /\ chunk.choice = 0 /\ chunk.finish = "stop" /\ ~chunk.delta
    BY DEF Chunk
  <1>7. SubSeq(turn.content, 1, said') = SubSeq(turn.content, 1, said) \o turn.content
    BY <1>1, <1>5
  <1> HIDE DEF parts
  <1>8. finish' = "stop"
    BY <1>1, <1>6 DEF Send
  <1>9. ProviderInv'
    <2>1. /\ given' \in [DOMAIN turn'.calls -> Nat]
          /\ \A i \in DOMAIN turn'.calls : given'[i] <= Len(turn'.calls[i].args)
      <3>1. \A i \in DOMAIN turn.calls : given'[i] = Len(turn.calls[i].args)
        BY <1>1, <1>3
      <3>2. given' = [i \in DOMAIN turn.calls |-> Len(turn.calls[i].args)]
        BY <1>1, <1>3
      <3>3. given' \in [DOMAIN turn.calls -> Nat]
        BY <1>2, <3>2
      <3> QED BY <1>1, <1>2, <3>1, <3>3
    <2>2. said' \in 0 .. Len(turn'.content)
      BY <1>1, <1>5
    <2>3. SaidAll'
      BY <1>1, <1>3 DEF SaidAll
    <2> QED BY <1>1, <1>8, <2>1, <2>2, <2>3 DEF IInv, ProviderInv
  <1>10. LoopInv' /\ result'.kind # "turn" /\ phase' = "receiving"
    BY <1>1, SendLoop
  <1>11. CASE api = "complete"
    <2> HIDE DEF chunk
    <2>1. DecoderInv'
      BY <1>1, <1>6, <1>7, <1>11, CompleteText
    <2> QED BY <1>9, <1>10, <2>1 DEF IInv
  <1>12. CASE api # "complete" /\ decoded.error
    <2> HIDE DEF chunk
    <2> QED BY <1>1, <1>9, <1>10, <1>12, LostStaysLost DEF IInv
  <1>13. CASE api # "complete" /\ ~decoded.error
    <2> DEFINE text == SubSeq(turn.content, 1, said) \o turn.content
               out == [error |-> FALSE, content |-> text, calls |-> decoded.calls, finish |-> "stop"]
    <2>1. decoded' = Folded(out, chunk)
      BY <1>1, <1>13, Consumed
    <2>2. decoded.calls = <<>>
      <3>1. CallsDecoded
        BY <1>13 DEF IInv, DecoderInv, DecodedAsSaid
      <3>2. ASSUME NEW i \in DOMAIN decoded.calls PROVE FALSE
        <4>1. i \in DOMAIN turn.calls /\ given[i] = 0
          BY <1>1, <1>3, <3>1 DEF CallsDecoded
        <4>2. PICK w \in DOMAIN turn.calls : Misplaced(w)
          BY <3>1, <4>1 DEF CallsDecoded
        <4>3. given[w] > 0 /\ given[w] = 0
          BY <1>1, <1>3, <4>2 DEF Misplaced
        <4> QED BY <4>3
      <3>3. decoded.calls = [i \in {} |-> decoded.calls[i]]
        <4>1. DOMAIN decoded.calls = {}
          BY <3>2
        <4>2. decoded.calls = [i \in DOMAIN decoded.calls |-> decoded.calls[i]]
          BY <3>1 DEF CallsDecoded
        <4> QED BY <4>1, <4>2
      <3>4. [i \in {} |-> decoded.calls[i]] = <<>>
        OBVIOUS
      <3> QED BY <3>3, <3>4
    <2>3. out = [error |-> FALSE, content |-> out.content, calls |-> <<>>, finish |-> out.finish]
      <3> HIDE DEF text
      <3> QED BY <2>2
    <2>4. chunk.parts = [i \in 1 .. N |-> Piece(0, turn.calls[i].id, "function",
                                                turn.calls[i].name, turn.calls[i].args)]
      <3> HIDE DEF chunk, N
      <3> QED BY <1>4, <1>6 DEF parts
    <2>5. decoded' = [out EXCEPT !.calls = [i \in 1 .. N |-> Whole(turn.calls[i])]]
      <3> HIDE DEF out, chunk, N
      <3> QED BY <1>4, <1>6, <2>1, <2>3, <2>4, AllParts
    <2>6. /\ decoded' = [error |-> FALSE, content |-> text,
                         calls |-> [i \in 1 .. N |-> Whole(turn.calls[i])], finish |-> "stop"]
      <3> DEFINE all == [i \in 1 .. N |-> Whole(turn.calls[i])]
      <3> HIDE DEF text, all
      <3>1. decoded' = [out EXCEPT !.calls = all]
        BY <2>5 DEF all
      <3> QED BY <3>1 DEF all
    <2>7. ASSUME NEW i \in 1 .. N PROVE Whole(turn.calls[i]) = Begun(i, Len(turn.calls[i].args))
      <3>1. /\ <<>> \o turn.calls[i].name = turn.calls[i].name
            /\ <<>> \o turn.calls[i].args = turn.calls[i].args
            /\ SubSeq(turn.calls[i].args, 1, Len(turn.calls[i].args)) = turn.calls[i].args
        BY <1>2, <1>4, TextTypes
      <3> QED BY <3>1 DEF Whole, Begun
    <2>8. CallsDecoded'
      <3>1. DOMAIN decoded'.calls = 1 .. N /\ DOMAIN turn'.calls = 1 .. N
        BY <1>1, <1>4, <2>6
      <3>2. decoded'.calls = [i \in DOMAIN decoded'.calls |-> decoded'.calls[i]]
        BY <2>6, <3>1
      <3>3. ASSUME NEW i \in 1 .. N
            PROVE  decoded'.calls[i] = Begun(i, given[i])' /\ given'[i] # 0
        <4>1. given'[i] = Len(turn.calls[i].args) /\ given'[i] # 0
          BY <1>1, <1>2, <1>3, <1>4
        <4>2. decoded'.calls[i] = Begun(i, Len(turn.calls[i].args))
          BY <2>6, <2>7
        <4> QED BY <1>1, <4>1, <4>2 DEF Begun
      <3> QED BY <3>1, <3>2, <3>3 DEF CallsDecoded
    <2>9. DecodedAsSaid'
      <3>1. decoded'.finish = "stop" /\ decoded'.content = text
        BY <2>6
      <3> QED BY <1>1, <1>7, <1>8, <2>8, <3>1 DEF DecodedAsSaid
    <2>10. DecoderInv'
      <3> DEFINE all == [i \in 1 .. N |-> Whole(turn.calls[i])]
      <3> HIDE DEF all, text
      <3>1. decoded' = [error |-> FALSE, content |-> text, calls |-> all, finish |-> "stop"]
        BY <2>6 DEF all
      <3>2. /\ decoded' = [error |-> decoded'.error, content |-> decoded'.content,
                           calls |-> decoded'.calls, finish |-> decoded'.finish]
            /\ decoded'.error = FALSE
        BY <3>1
      <3> QED BY <1>1, <1>10, <1>13, <2>9, <3>2 DEF DecoderInv
    <2> QED BY <1>9, <1>10, <2>10 DEF IInv
  <1> QED BY <1>11, <1>12, <1>13


-----------------------------------------------------------------------------
(* A piece of a call.                                                      *)

Slot(calls, j) == IF j \in DOMAIN calls THEN calls[j] ELSE NoCall

Merged(old, part) ==
    [id |-> IF part.id # <<>> THEN part.id ELSE old.id,
     type |-> IF part.type # "none" THEN part.type ELSE old.type,
     name |-> old.name \o part.name, args |-> old.args \o part.args]

Written(calls, j, call) ==
    [k \in DOMAIN calls \cup {j} |-> IF k = j THEN call ELSE calls[k]]

LEMMA FieldReplaced ==
    ASSUME NEW out, NEW r, NEW new,
           out = [error |-> out.error, content |-> out.content,
                  calls |-> out.calls, finish |-> out.finish]
    PROVE  /\ r = [out EXCEPT !.error = TRUE] =>
                r = [error |-> TRUE, content |-> out.content, calls |-> out.calls, finish |-> out.finish]
           /\ r = [out EXCEPT !.calls = new] =>
                r = [error |-> out.error, content |-> out.content, calls |-> new, finish |-> out.finish]
  OBVIOUS

\* An attempt in which nothing has gone wrong.
Sound(out) ==
    /\ ~out.error
    /\ out = [error |-> out.error, content |-> out.content,
              calls |-> out.calls, finish |-> out.finish]

Lost(out) ==
    [error |-> TRUE, content |-> out.content, calls |-> out.calls, finish |-> out.finish]
WithCalls(out, calls) ==
    [error |-> out.error, content |-> out.content, calls |-> calls, finish |-> out.finish]

\* What a chunk with one piece makes of it.
LEMMA PieceMerged ==
    ASSUME NEW out, NEW part, NEW text, NEW reason, Sound(out)
    PROVE  Folded(out, Chunk(0, TRUE, text, <<part>>, reason)) =
              IF Conflicts(Slot(out.calls, part.index), part) THEN Lost(out)
              ELSE WithCalls(out, Written(out.calls, part.index,
                                          Merged(Slot(out.calls, part.index), part)))
  <1> DEFINE chunk == Chunk(0, TRUE, text, <<part>>, reason)
             j == part.index
             wrote == Written(out.calls, j, Merged(Slot(out.calls, j), part))
             r == Folded(out, chunk)
  <1>1. chunk.parts = <<part>> /\ chunk.parts[1] = part /\ IndexOf(chunk, 1) = j
    BY DEF Chunk, IndexOf
  <1> HIDE DEF chunk, j
  <1>2. r = Merge(out, chunk, 1)
    BY <1>1, OnePart
  <1>3. Merge(out, chunk, 1)
          = IF out.error \/ Conflicts(Slot(out.calls, IndexOf(chunk, 1)), chunk.parts[1])
            THEN [out EXCEPT !.error = TRUE]
            ELSE [out EXCEPT !.calls = Written(out.calls, IndexOf(chunk, 1),
                     Merged(Slot(out.calls, IndexOf(chunk, 1)), chunk.parts[1]))]
    BY DEF Merge, Slot, Merged, Written
  <1>4. r = IF Conflicts(Slot(out.calls, j), part)
            THEN [out EXCEPT !.error = TRUE] ELSE [out EXCEPT !.calls = wrote]
    BY <1>1, <1>2, <1>3 DEF Sound
  <1> HIDE DEF r, wrote
  <1>5. CASE Conflicts(Slot(out.calls, j), part)
    <2>1. r = [out EXCEPT !.error = TRUE]
      BY <1>4, <1>5
    <2>2. r = Lost(out)
      BY <2>1, FieldReplaced DEF Sound, Lost
    <2> QED BY <1>5, <2>2 DEF j, chunk, r, wrote
  <1>6. CASE ~Conflicts(Slot(out.calls, j), part)
    <2>1. r = [out EXCEPT !.calls = wrote]
      BY <1>4, <1>6
    <2>2. r = WithCalls(out, wrote)
      BY <2>1, FieldReplaced DEF Sound, WithCalls
    <2> QED BY <1>6, <2>2 DEF j, chunk, r, wrote
  <1> QED BY <1>5, <1>6

\* The three ways in which a call's next piece is taken: where it belongs; after
\* the first was misplaced; or misplaced itself.
LEMMA SlotWritten ==
    ASSUME ProviderInv, CallsDecoded, NEW i \in DOMAIN turn.calls, NEW j \in DOMAIN turn.calls,
           NEW call, UNCHANGED turn, given' = [given EXCEPT ![i] = given[i] + 1],
           decoded'.calls = Written(decoded.calls, j, call),
           \/ /\ j = i /\ call = Begun(i, given[i] + 1)
              /\ i = 1 => \A w \in DOMAIN turn.calls : ~Misplaced(w)
           \/ j = i /\ Misplaced(i) /\ call.name = <<>>
           \/ /\ j = 1 /\ i # 1 /\ 1 \notin DOMAIN decoded.calls
              /\ given[i] = 0 /\ OwnIds /\ call = Begun(i, 1)
    PROVE  CallsDecoded'
  <1>1. /\ given \in [DOMAIN turn.calls -> Nat] /\ given' \in [DOMAIN turn.calls -> Nat]
        /\ given'[i] = given[i] + 1 /\ given'[i] > 0
        /\ \A k \in DOMAIN turn.calls : k # i => given'[k] = given[k]
    <2>1. given \in [DOMAIN turn.calls -> Nat]
      BY DEF ProviderInv
    <2> QED BY <2>1
  <1>2. /\ DOMAIN decoded'.calls = DOMAIN decoded.calls \cup {j}
        /\ decoded'.calls[j] = call
        /\ \A k \in DOMAIN decoded.calls : k # j => decoded'.calls[k] = decoded.calls[k]
        /\ decoded'.calls = [k \in DOMAIN decoded'.calls |-> decoded'.calls[k]]
    BY DEF Written
  <1>3. /\ OwnIds' = OwnIds
        /\ \A k, n : Begun(k, n)' = [id |-> turn.calls[k].id, type |-> "function",
                                     name |-> turn.calls[k].name, args |-> SubSeq(turn.calls[k].args, 1, n)]
    BY DEF OwnIds, Begun
  <1>4. \A k \in DOMAIN turn.calls : /\ Begun(k, 1)' = Begun(k, 1)
                                     /\ Begun(k, given[k])' = [id |-> turn.calls[k].id, type |-> "function",
                                          name |-> turn.calls[k].name, args |-> SubSeq(turn.calls[k].args, 1, given'[k])]
    BY DEF Begun
  \* Only a piece of the first call ends a misplacement, by a conflict.
  <1>5. ASSUME NEW w \in DOMAIN turn.calls, Misplaced(w) PROVE Misplaced(w)'
    <2>1. /\ w # 1 /\ OwnIds /\ given[w] > 0 /\ given[1] = 0
          /\ 1 \in DOMAIN decoded.calls /\ decoded.calls[1] = Begun(w, 1)
          /\ 1 \in DOMAIN turn.calls
      BY <1>5 DEF Misplaced, CallsDecoded
    <2>2. i # 1 /\ j # 1
      BY <1>5, <2>1 DEF Misplaced
    <2>3. given'[w] > 0 /\ given'[1] = 0
      BY <1>1, <2>1, <2>2
    <2>4. 1 \in DOMAIN decoded'.calls /\ decoded'.calls[1] = Begun(w, 1)
      BY <1>2, <2>1, <2>2
    <2> QED BY <1>3, <1>4, <2>1, <2>3, <2>4 DEF Misplaced
  <1>6. CASE \/ /\ j = i /\ call = Begun(i, given[i] + 1)
                /\ i = 1 => \A w \in DOMAIN turn.calls : ~Misplaced(w)
             \/ j = i /\ Misplaced(i) /\ call.name = <<>>
    <2>1. \/ decoded'.calls[i] = Begun(i, given[i])'
          \/ Misplaced(i)' /\ decoded'.calls[i].name = <<>>
      BY <1>1, <1>2, <1>4, <1>5, <1>6 DEF Begun
    <2>2. ASSUME NEW k \in DOMAIN turn.calls, k # i, given'[k] > 0
          PROVE  \/ k \in DOMAIN decoded'.calls /\ decoded'.calls[k] = Begun(k, given[k])'
                 \/ Misplaced(k)' /\ (k \in DOMAIN decoded'.calls => decoded'.calls[k].name = <<>>)
      <3>1. \/ k \in DOMAIN decoded.calls /\ decoded.calls[k] = Begun(k, given[k])
            \/ Misplaced(k) /\ (k \in DOMAIN decoded.calls => decoded.calls[k].name = <<>>)
        BY <1>1, <2>2 DEF CallsDecoded
      <3>2. Begun(k, given[k])' = Begun(k, given[k])
        BY <1>1, <2>2 DEF Begun
      <3> QED BY <1>2, <1>5, <1>6, <2>2, <3>1, <3>2
    <2>3. ASSUME NEW k \in DOMAIN decoded'.calls
          PROVE  /\ k \in DOMAIN turn.calls
                 /\ given'[k] = 0 => k = 1 /\ \E w \in DOMAIN turn.calls : Misplaced(w)'
      <3>1. CASE k = j
        BY <1>1, <1>6, <3>1
      <3>2. CASE k # j
        <4>1. /\ k \in DOMAIN turn.calls
              /\ given[k] = 0 => k = 1 /\ \E w \in DOMAIN turn.calls : Misplaced(w)
          BY <1>2, <3>2 DEF CallsDecoded
        <4>2. k # i
          BY <1>6, <3>2
        <4> QED BY <1>1, <1>5, <4>1, <4>2
      <3> QED BY <3>1, <3>2
    <2> QED BY <1>2, <1>6, <2>1, <2>2, <2>3 DEF CallsDecoded
  <1>7. CASE /\ j = 1 /\ i # 1 /\ 1 \notin DOMAIN decoded.calls
             /\ given[i] = 0 /\ OwnIds /\ call = Begun(i, 1)
    <2>1. \A w : ~Misplaced(w)
      BY <1>7 DEF Misplaced
    <2>2. given[1] = 0 /\ given'[1] = 0
      <3>1. ~(given[1] > 0)
        BY <1>7, <2>1 DEF CallsDecoded
      <3> QED BY <1>1, <1>7, <3>1
    <2>3. i \notin DOMAIN decoded.calls
      BY <1>7 DEF CallsDecoded
    <2>4. Misplaced(i)'
      BY <1>1, <1>2, <1>3, <1>4, <1>7, <2>2 DEF Misplaced
    <2>5. ASSUME NEW k \in DOMAIN turn.calls, k # i, given'[k] > 0
          PROVE  k \in DOMAIN decoded'.calls /\ decoded'.calls[k] = Begun(k, given[k])'
      <3>1. k \in DOMAIN decoded.calls /\ decoded.calls[k] = Begun(k, given[k])
        BY <1>1, <2>1, <2>5 DEF CallsDecoded
      <3>2. Begun(k, given[k])' = Begun(k, given[k])
        BY <1>1, <2>5 DEF Begun
      <3> QED BY <1>2, <1>7, <3>1, <3>2
    <2>6. ASSUME NEW k \in DOMAIN decoded'.calls
          PROVE  /\ k \in DOMAIN turn.calls
                 /\ given'[k] = 0 => k = 1 /\ \E w \in DOMAIN turn.calls : Misplaced(w)'
      <3>1. CASE k = 1
        BY <1>7, <2>4, <3>1
      <3>2. CASE k # 1
        <4>1. k \in DOMAIN turn.calls /\ given[k] # 0 /\ k # i
          BY <1>2, <1>7, <2>3, <3>2 DEF CallsDecoded
        <4> QED BY <1>1, <4>1
      <3> QED BY <3>1, <3>2
    <2>7. i \notin DOMAIN decoded'.calls
      BY <1>2, <1>7, <2>3
    <2> QED BY <1>2, <2>4, <2>5, <2>6, <2>7 DEF CallsDecoded
  <1> QED BY <1>6, <1>7

\* The piece of call i that SendPart sends, with index j.
PieceOf(i, j, repeated) ==
    LET c == turn.calls[i]
        n == given[i] + 1
        opens == n = 1
    IN  Piece(j,
              IF opens \/ repeated THEN c.id ELSE <<>>,
              IF opens THEN "function" ELSE "none",
              IF opens THEN c.name ELSE <<>>, <<c.args[n]>>)

\* Where the pieces come to lie that do not conflict.
LEMMA FirstPieceFits ==
    ASSUME ProviderInv, CallsDecoded, NEW i \in DOMAIN turn.calls,
           NEW indexed \in BOOLEAN, NEW repeated \in BOOLEAN,
           given[i] = 0, ~indexed => OwnIds,
           NEW part, part = PieceOf(i, IF indexed THEN i ELSE 1, repeated),
           ~Conflicts(Slot(decoded.calls, part.index), part)
    PROVE  \/ /\ part.index = i /\ Merged(Slot(decoded.calls, part.index), part) = Begun(i, given[i] + 1)
              /\ i = 1 => \A w \in DOMAIN turn.calls : ~Misplaced(w)
           \/ /\ part.index = 1 /\ i # 1 /\ 1 \notin DOMAIN decoded.calls
              /\ OwnIds /\ Merged(Slot(decoded.calls, part.index), part) = Begun(i, 1)
  <1> DEFINE s == turn.calls[i].args
             j == part.index
  <1>1. /\ j = IF indexed THEN i ELSE 1
        /\ part.id = turn.calls[i].id /\ part.type = "function" /\ part.name = turn.calls[i].name
        /\ part.args = <<s[1]>>
    BY DEF PieceOf, Piece
  <1>2. /\ IsText(turn.calls) /\ IsText(turn.calls[i].name) /\ IsText(s) /\ Len(s) \in Nat \ {0}
    BY TurnTypes DEF ProviderInv
  <1> HIDE DEF j
  \* A place that is taken belongs to a call with another id.
  <1>3. j \notin DOMAIN decoded.calls
    <2>1. SUFFICES ASSUME j \in DOMAIN decoded.calls PROVE FALSE
      OBVIOUS
    <2>2. j \in DOMAIN turn.calls
      BY <2>1 DEF CallsDecoded
    <2>3. CASE given[j] = 0
      <3>1. PICK w \in DOMAIN turn.calls : Misplaced(w) /\ j = 1
        BY <2>1, <2>3 DEF CallsDecoded
      <3>2. w # i /\ OwnIds /\ decoded.calls[1].id = turn.calls[w].id
        BY <3>1 DEF Misplaced, Begun
      <3>3. Conflicts(Slot(decoded.calls, j), part)
        BY <1>1, <2>1, <3>1, <3>2 DEF Conflicts, Slot, OwnIds
      <3> QED BY <3>3 DEF j
    <2>4. CASE given[j] # 0
      <3>1. j # i /\ j = 1 /\ OwnIds
        BY <1>1, <2>4
      <3>2. ~Misplaced(1)
        BY DEF Misplaced
      <3>3. given[j] > 0
        BY <2>2, <2>4 DEF ProviderInv
      <3>4. decoded.calls[j] = Begun(j, given[j])
        BY <2>2, <3>1, <3>2, <3>3 DEF CallsDecoded
      <3>5. decoded.calls[j].id = turn.calls[j].id
        BY <3>4 DEF Begun
      <3>6. Conflicts(Slot(decoded.calls, j), part)
        BY <1>1, <2>1, <2>2, <3>1, <3>5 DEF Conflicts, Slot, OwnIds
      <3> QED BY <3>6 DEF j
    <2> QED BY <2>3, <2>4
  <1>4. Merged(Slot(decoded.calls, j), part) = Begun(i, 1)
    <2>1. Slot(decoded.calls, j) = NoCall
      BY <1>3 DEF Slot
    <2>2. NoCall.id = <<>> /\ NoCall.name = <<>> /\ NoCall.args = <<>>
      BY DEF NoCall
    <2>3. <<>> \o turn.calls[i].name = turn.calls[i].name
      BY <1>2, TextTypes
    <2>4. <<>> \o <<s[1]>> = SubSeq(s, 1, 1)
      <3>1. SubSeq(s, 1, 0) \o <<s[0 + 1]>> = SubSeq(s, 1, 0 + 1) /\ SubSeq(s, 1, 0) = <<>>
        <4>1. 0 \in 0 .. Len(s) - 1
          BY <1>2
        <4> QED BY <1>2, <4>1, TextTypes
      <3> QED BY <3>1
    <2>5. /\ (IF part.id # <<>> THEN part.id ELSE NoCall.id) = turn.calls[i].id
          /\ (IF part.type # "none" THEN part.type ELSE NoCall.type) = "function"
      BY <1>1, <2>2
    <2>6. /\ NoCall.name \o part.name = turn.calls[i].name
          /\ NoCall.args \o part.args = SubSeq(s, 1, 1)
      BY <1>1, <2>2, <2>3, <2>4
    <2> HIDE DEF s
    <2> QED BY <2>1, <2>5, <2>6 DEF Merged, Begun, s
  <1>5. CASE j = i
    <2>1. i = 1 => \A w \in DOMAIN turn.calls : ~Misplaced(w)
      BY <1>3, <1>5 DEF Misplaced
    <2>2. given[i] + 1 = 1
      OBVIOUS
    <2> QED BY <1>4, <1>5, <2>1, <2>2 DEF j
  <1>6. CASE j # i
    <2>1. j = 1 /\ i # 1 /\ OwnIds
      BY <1>1, <1>6
    <2> QED BY <1>3, <1>4, <2>1 DEF j
  <1> QED BY <1>5, <1>6

LEMMA LaterPieceFits ==
    ASSUME ProviderInv, CallsDecoded, NEW i \in DOMAIN turn.calls, NEW repeated \in BOOLEAN,
           given[i] # 0, given[i] + 1 <= Len(turn.calls[i].args)
    PROVE  LET part == PieceOf(i, i, repeated) IN
           /\ part.index = i
           /\ \/ /\ Merged(Slot(decoded.calls, i), part) = Begun(i, given[i] + 1)
                 /\ i = 1 => \A w \in DOMAIN turn.calls : ~Misplaced(w)
              \/ Misplaced(i) /\ Merged(Slot(decoded.calls, i), part).name = <<>>
  <1> DEFINE s == turn.calls[i].args
             g == given[i]
             part == PieceOf(i, i, repeated)
  <1>1. /\ part.index = i
        /\ part.id \in {turn.calls[i].id, <<>>} /\ part.type = "none" /\ part.name = <<>>
        /\ part.args = <<s[g + 1]>>
    <2>1. g + 1 # 1
      BY DEF ProviderInv
    <2> QED BY <2>1 DEF PieceOf, Piece
  <1>2. /\ IsText(turn.calls[i].name) /\ IsText(s) /\ Len(s) \in Nat \ {0} /\ g \in Nat \ {0}
    BY TurnTypes DEF ProviderInv
  <1>3. CASE i \in DOMAIN decoded.calls /\ decoded.calls[i] = Begun(i, g)
    <2> DEFINE old == Slot(decoded.calls, i)
    <2>1. /\ old.id = turn.calls[i].id /\ old.type = "function" /\ old.name = turn.calls[i].name
          /\ old.args = SubSeq(s, 1, g)
      <3>1. old = Begun(i, g)
        BY <1>3 DEF Slot
      <3> HIDE DEF old
      <3> QED BY <3>1 DEF Begun
    <2> HIDE DEF old
    <2>2. SubSeq(s, 1, g) \o <<s[g + 1]>> = SubSeq(s, 1, g + 1)
      <3>1. g \in 0 .. Len(s) - 1
        BY <1>2
      <3> HIDE DEF s, g
      <3> QED BY <1>2, <3>1, TextTypes
    <2>3. turn.calls[i].name \o <<>> = turn.calls[i].name
      <3> DEFINE name == turn.calls[i].name
      <3> HIDE DEF name
      <3>1. /\ SubSeq(name, 1, Len(name)) = name /\ Len(name) \in 0 .. Len(name)
            /\ \A n \in 0 .. Len(name) : SubSeq(name, 1, n) \o <<>> = SubSeq(name, 1, n)
        BY <1>2, TextTypes DEF name
      <3>2. name \o <<>> = name
        BY <3>1
      <3> QED BY <3>2 DEF name
    <2>4. /\ (IF part.id # <<>> THEN part.id ELSE old.id) = turn.calls[i].id
          /\ (IF part.type # "none" THEN part.type ELSE old.type) = "function"
      BY <1>1, <2>1
    <2>5. old.name \o part.name = turn.calls[i].name /\ old.args \o part.args = SubSeq(s, 1, g + 1)
      BY <1>1, <2>1, <2>2, <2>3
    <2>6. Merged(old, part) = Begun(i, g + 1)
      <3> HIDE DEF s, g
      <3> QED BY <2>4, <2>5 DEF Merged, Begun, s
    <2>7. i = 1 => \A w \in DOMAIN turn.calls : ~Misplaced(w)
      BY DEF Misplaced
    <2> QED BY <1>1, <2>6, <2>7 DEF old
  <1>4. CASE ~(i \in DOMAIN decoded.calls /\ decoded.calls[i] = Begun(i, g))
    <2>1. Misplaced(i) /\ (i \in DOMAIN decoded.calls => decoded.calls[i].name = <<>>)
      <3>1. g > 0
        BY <1>2
      <3> QED BY <1>4, <3>1 DEF CallsDecoded
    <2>2. Slot(decoded.calls, i).name = <<>>
      BY <2>1 DEF Slot, NoCall
    <2>3. Merged(Slot(decoded.calls, i), part).name = <<>> \o <<>>
      BY <1>1, <2>2 DEF Merged
    <2>4. <<>> \o <<>> = <<>>
      OBVIOUS
    <2> QED BY <1>1, <2>1, <2>3, <2>4
  <1> QED BY <1>3, <1>4

LEMMA SendPartStep ==
    ASSUME IInv, NEW i \in DOMAIN turn.calls, NEW indexed \in BOOLEAN, NEW repeated \in BOOLEAN,
           SendPart(i, indexed, repeated)
    PROVE  IInv'
  <1> DEFINE part == PieceOf(i, IF indexed THEN i ELSE 1, repeated)
             chunk == Chunk(0, TRUE, <<>>, <<part>>, "none")
             j == part.index
  <1>1. /\ Send(chunk) /\ given[i] + 1 <= Len(turn.calls[i].args)
        /\ given' = [given EXCEPT ![i] = given[i] + 1] /\ UNCHANGED <<said, turn, api>>
        /\ ~indexed => given[i] + 1 = 1 /\ Cardinality(noise) < MaxNoise /\ OwnIds
        /\ noise' = IF indexed THEN noise ELSE noise \cup {"unindexed"}
    BY DEF SendPart, Send, PieceOf
  <1>2. j = IF indexed THEN i ELSE 1
    BY DEF PieceOf, Piece
  <1>3. chunk.kind = "completion" /\ chunk.choice = 0 /\ chunk.finish = "none"
    BY DEF Chunk
  <1> HIDE DEF part, chunk
  <1>4. api = "native" /\ given \in [DOMAIN turn.calls -> Nat]
    <2>1. <<>> # turn.calls
      BY 1 .. 0 = {}
    <2> QED BY <2>1 DEF IInv, ProviderInv
  <1>5. finish' = "none"
    BY <1>1, <1>3 DEF Send
  <1>6. ProviderInv'
    <2>1. noise' \subseteq Noises /\ Cardinality(noise') <= MaxNoise
      BY <1>1, NoiseGrows DEF IInv, ProviderInv, Noises
    <2>2. given' \in [DOMAIN turn.calls -> Nat]
      BY <1>1, <1>4
    <2>3. \A k \in DOMAIN turn.calls : given'[k] <= Len(turn.calls[k].args)
      BY <1>1, <1>4 DEF IInv, ProviderInv
    <2> QED BY <1>1, <1>5, <2>1, <2>2, <2>3 DEF IInv, ProviderInv
  <1>7. LoopInv' /\ result'.kind # "turn" /\ phase' = "receiving"
    BY <1>1, SendLoop
  <1>8. CASE decoded.error
    BY <1>1, <1>4, <1>6, <1>7, <1>8, LostStaysLost DEF IInv
  <1>9. CASE ~decoded.error
    <2> DEFINE text == SubSeq(turn.content, 1, said) \o <<>>
               out == [error |-> FALSE, content |-> text, calls |-> decoded.calls, finish |-> "none"]
               conflict == Conflicts(Slot(decoded.calls, j), part)
               call == Merged(Slot(decoded.calls, j), part)
               wrote == Written(decoded.calls, j, call)
    <2>1. decoded' = Folded(out, chunk)
      BY <1>1, <1>4, <1>9, Consumed DEF chunk
    <2> HIDE DEF text
    <2>2. decoded' = IF conflict
                     THEN [error |-> TRUE, content |-> text, calls |-> decoded.calls, finish |-> "none"]
                     ELSE [error |-> FALSE, content |-> text, calls |-> wrote, finish |-> "none"]
      <3>1. /\ out = [error |-> out.error, content |-> out.content,
                      calls |-> out.calls, finish |-> out.finish]
            /\ ~out.error /\ out.content = text /\ out.calls = decoded.calls /\ out.finish = "none"
        OBVIOUS
      <3> HIDE DEF out, part
      <3>a. Folded(out, Chunk(0, TRUE, <<>>, <<part>>, "none")) =
               IF Conflicts(Slot(out.calls, part.index), part) THEN Lost(out)
               ELSE WithCalls(out, Written(out.calls, part.index,
                                           Merged(Slot(out.calls, part.index), part)))
        <4>1. Sound(out)
          BY <3>1 DEF Sound
        <4> QED BY <4>1, PieceMerged
      <3>2. decoded' = IF conflict THEN Lost(out) ELSE WithCalls(out, wrote)
        BY <2>1, <3>1, <3>a DEF chunk
      <3>3. decoded' = IF conflict
                       THEN [error |-> TRUE, content |-> text, calls |-> decoded.calls, finish |-> "none"]
                       ELSE [error |-> out.error, content |-> text, calls |-> wrote, finish |-> "none"]
        BY <3>1, <3>2 DEF Lost, WithCalls
      <3>4. out.error = FALSE
        BY DEF out
      <3> HIDE DEF conflict, wrote
      <3> QED BY <3>3, <3>4
    <2> HIDE DEF wrote, conflict
    <2>3. CASE conflict
      <3>1. decoded' = [error |-> TRUE, content |-> text, calls |-> decoded.calls, finish |-> "none"]
        BY <2>2, <2>3
      <3>2. DecoderInv'
        BY <1>1, <1>4, <1>7, <3>1 DEF DecoderInv
      <3> QED BY <1>6, <1>7, <3>2 DEF IInv
    <2>4. CASE ~conflict
      <3>1. decoded' = [error |-> FALSE, content |-> text, calls |-> wrote, finish |-> "none"]
        BY <2>2, <2>4
      <3>a. decoded'.calls = wrote
        BY <3>1
      <3>2. CallsDecoded /\ ProviderInv
        BY <1>4, <1>9 DEF IInv, DecoderInv, DecodedAsSaid
      <3>5. CallsDecoded'
        <4>1. CASE given[i] = 0
          <5>1. \/ /\ j = i /\ call = Begun(i, given[i] + 1)
                   /\ i = 1 => \A w \in DOMAIN turn.calls : ~Misplaced(w)
                \/ /\ j = 1 /\ i # 1 /\ 1 \notin DOMAIN decoded.calls /\ OwnIds /\ call = Begun(i, 1)
            BY <1>1, <2>4, <3>2, <4>1, FirstPieceFits DEF part, conflict
          <5>2. j \in DOMAIN turn.calls
            <6>1. IsText(turn.calls)
              BY <3>2, TurnTypes DEF ProviderInv
            <6>2. DOMAIN turn.calls = 1 .. Len(turn.calls) /\ Len(turn.calls) \in Nat
              BY <6>1, TextTypes
            <6>3. 1 \in DOMAIN turn.calls
              BY <6>2
            <6> QED BY <1>2, <6>3
          <5>3. decoded'.calls = Written(decoded.calls, j, call)
            BY <3>a DEF wrote
          <5>4. UNCHANGED turn /\ given' = [given EXCEPT ![i] = given[i] + 1]
            BY <1>1
          <5> HIDE DEF call, j
          <5> QED BY <3>2, <4>1, <5>1, <5>2, <5>3, <5>4, SlotWritten
        <4>2. CASE given[i] # 0
          <5>1. indexed
            BY <1>1, <1>4, <4>2
          <5>2. /\ j = i
                /\ \/ /\ call = Begun(i, given[i] + 1)
                      /\ i = 1 => \A w \in DOMAIN turn.calls : ~Misplaced(w)
                   \/ Misplaced(i) /\ call.name = <<>>
            <6>1. part = PieceOf(i, i, repeated)
              BY <5>1 DEF part
            <6>2. /\ j = i
                  /\ \/ /\ Merged(Slot(decoded.calls, i), part) = Begun(i, given[i] + 1)
                        /\ i = 1 => \A w \in DOMAIN turn.calls : ~Misplaced(w)
                     \/ Misplaced(i) /\ Merged(Slot(decoded.calls, i), part).name = <<>>
              <7>1. given[i] + 1 <= Len(turn.calls[i].args)
                BY <1>1
                <7> QED BY <3>2, <4>2, <6>1, <7>1, LaterPieceFits DEF part
            <6> QED BY <6>2
          <5>3. decoded'.calls = Written(decoded.calls, j, call)
            BY <3>a DEF wrote
          <5>4. UNCHANGED turn /\ given' = [given EXCEPT ![i] = given[i] + 1]
            BY <1>1
          <5> HIDE DEF call, j
          <5> QED BY <3>2, <5>2, <5>3, <5>4, SlotWritten
        <4> QED BY <4>1, <4>2
      <3>6. text = SubSeq(turn.content, 1, said)
        <4>1. IsText(turn.content) /\ said \in 0 .. Len(turn.content)
          BY <3>2, TurnTypes DEF ProviderInv
        <4> QED BY <4>1, TextTypes DEF text
      <3>7. DecodedAsSaid'
        BY <1>1, <1>5, <3>1, <3>5, <3>6 DEF DecodedAsSaid
      <3>8. DecoderInv'
        BY <1>1, <1>4, <1>7, <3>1, <3>7 DEF DecoderInv
      <3> QED BY <1>6, <1>7, <3>8 DEF IInv
    <2> QED BY <2>3, <2>4
  <1> QED BY <1>8, <1>9

-----------------------------------------------------------------------------
(* The invariant holds.                                                    *)

LEMMA InitInv == Init => IInv
  <1> SUFFICES ASSUME Init PROVE IInv
    OBVIOUS
  <1>1. /\ api \in Apis /\ turn \in Turns /\ (api # "native" => turn.calls = <<>>)
        /\ phase = "sending" /\ attempt = 0 /\ expired = FALSE /\ result = Pending
        /\ given = [i \in DOMAIN turn.calls |-> 0] /\ said = 0 /\ finish = "none"
        /\ noise = {} /\ decoded = Decoded /\ seen = {}
    BY DEF Init
  <1>2. result.kind = "none"
    BY <1>1 DEF Pending
  <1>3. LoopInv
    <2>1. attempt \in 0 .. 2 /\ seen \subseteq Statuses /\ seen \subseteq Transients /\ "4xx" \notin seen
      BY <1>1
    <2>3. expired \in BOOLEAN
      BY <1>1, Zenon
    <2>2. TransientIsMasked
      BY <1>2, <2>1 DEF TransientIsMasked
    <2>4. api \in Apis /\ phase = "sending" /\ result = Pending
      BY <1>1
    <2> QED BY <1>2, <2>1, <2>2, <2>3, <2>4 DEF LoopInv
  <1>4. /\ IsText(turn.content) /\ \A i \in DOMAIN turn.calls : Len(turn.calls[i].args) \in Nat \ {0}
    BY <1>1, TurnTypes
  <1>5. Len(turn.content) \in Nat /\ SubSeq(turn.content, 1, 0) = <<>>
    BY <1>4, TextTypes
  <1>6. ProviderInv
    <2>1. Cardinality({}) = 0 /\ MaxNoise \in Nat
      BY FS_EmptySet, CompletionAssumption
    <2> QED BY <1>1, <1>4, <1>5, <2>1 DEF ProviderInv
  <1>7. CallsDecoded
    <2>1. decoded.calls = <<>> /\ DOMAIN decoded.calls = {}
      BY <1>1, 1 .. 0 = {} DEF Decoded
    <2>2. <<>> = [i \in {} |-> decoded.calls[i]]
      OBVIOUS
    <2>3. \A i \in DOMAIN turn.calls : ~(given[i] > 0)
      BY <1>1
    <2> QED BY <2>1, <2>2, <2>3 DEF CallsDecoded
  <1>8. DecoderInv
    BY <1>1, <1>5, <1>7 DEF DecoderInv, DecodedAsSaid, Decoded
  <1> QED BY <1>2, <1>3, <1>6, <1>8 DEF IInv

LEMMA NextInv == IInv /\ [Next]_vars => IInv'
  <1> SUFFICES ASSUME IInv, [Next]_vars PROVE IInv'
    OBVIOUS
  <1>1. CASE Client \/ Expire
    BY <1>1, ClientStep
  <1>2. CASE Provider
    BY <1>2, SendContentStep, SendMessageStep, SendPartStep, SendFinishStep, SendNoiseStep DEF Provider
  <1>3. CASE UNCHANGED vars
    <2>1. UNCHANGED <<api, phase, attempt, expired, result, providerVars, seen>>
      BY <1>3 DEF vars
    <2>2. ProviderInv' /\ DecoderInv'
      BY <2>1, KeepsDecoded
    <2>3. LoopInv'
      BY <2>1 DEF IInv, LoopInv, TransientIsMasked, Transients, Transient
    <2>4. Answer(decoded)' = Answer(decoded)
      BY <2>1, SameAnswer DEF providerVars
    <2> QED BY <2>1, <2>2, <2>3, <2>4 DEF IInv
  <1> QED BY <1>1, <1>2, <1>3 DEF Next

\* At every moment the loop has asked no more than it may, and what is decoded
\* is what was said: of each call its beginning, in its place or, for a first
\* piece without index, in that of the first (runLoop of internal/ai/chat.go,
\* decoders of internal/ai/protocol.go).
THEOREM IInvHolds == Spec => []IInv
  BY InitInv, NextInv, PTL DEF Spec

\* A caller is told that the request was refused when it was, at once, and for
\* no failure that may pass (TransientIsMasked; requestChat, complete).
THEOREM FailuresAreMasked == Spec => []TransientIsMasked
  <1>1. IInv => TransientIsMasked
    BY DEF IInv, LoopInv
  <1> QED BY <1>1, IInvHolds, PTL

-----------------------------------------------------------------------------
(* What reaches the caller.                                                *)

LEMMA AssistantTurn ==
    ASSUME NEW out, NEW m \in Nat, DOMAIN out.calls \subseteq 1 .. m, Assistant(out).kind = "turn"
    PROVE  /\ ~out.error /\ Identified(out.calls)
           /\ Assistant(out).content = out.content
           /\ DOMAIN Assistant(out).calls = DOMAIN Places(out.calls)
           /\ Assistant(out).calls = [n \in DOMAIN Places(out.calls) |->
                 [id |-> out.calls[Places(out.calls)[n]].id,
                  name |-> out.calls[Places(out.calls)[n]].name,
                  args |-> out.calls[Places(out.calls)[n]].args]]
           /\ out.finish = "length" => Assistant(out).calls = <<>>
  <1> DEFINE places == Places(out.calls)
             calls == [n \in DOMAIN places |->
                          [id |-> out.calls[places[n]].id, name |-> out.calls[places[n]].name,
                           args |-> out.calls[places[n]].args]]
             failed == \/ out.error \/ ~Identified(out.calls)
                       \/ out.finish = "length" /\ calls # <<>>
                       \/ out.content = <<>> /\ calls = <<>>
  <1>1. DOMAIN calls = DOMAIN places
    OBVIOUS
  <1>2. Assistant(out) = IF failed THEN Failed("provider_protocol")
                         ELSE [kind |-> "turn", content |-> out.content, calls |-> calls]
    BY DEF Assistant
  <1>3. Failed("provider_protocol").kind # "turn"
    BY DEF Failed, Pending
  <1> HIDE DEF calls
  <1>4. ~failed /\ Assistant(out).content = out.content /\ Assistant(out).calls = calls
    BY <1>2, <1>3
  <1> QED BY <1>1, <1>4 DEF calls

\* Each call of a turn is the beginning of one that was said.
LEMMA CallIsBegun ==
    ASSUME ProviderInv, CallsDecoded, Identified(decoded.calls), NEW k \in DOMAIN decoded.calls
    PROVE  \E j \in DOMAIN turn.calls : \E n \in 1 .. Len(turn.calls[j].args) :
              decoded.calls[k] = Begun(j, n)
  <1>1. /\ k \in DOMAIN turn.calls
        /\ given[k] = 0 => k = 1 /\ \E w \in DOMAIN turn.calls : Misplaced(w)
    BY DEF CallsDecoded
  <1>2. \A j \in DOMAIN turn.calls : given[j] \in Nat /\ given[j] <= Len(turn.calls[j].args)
                                     /\ Len(turn.calls[j].args) \in Nat \ {0}
    BY TurnTypes DEF ProviderInv
  <1>3. CASE given[k] = 0
    <2>1. PICK w \in DOMAIN turn.calls : Misplaced(w) /\ k = 1
      BY <1>1, <1>3
    <2>2. decoded.calls[k] = Begun(w, 1) /\ 1 \in 1 .. Len(turn.calls[w].args)
      BY <1>2, <2>1 DEF Misplaced
    <2> QED BY <2>2
  <1>4. CASE given[k] # 0
    <2>1. given[k] > 0 /\ given[k] \in 1 .. Len(turn.calls[k].args)
      BY <1>1, <1>2, <1>4
    <2>2. decoded.calls[k].name # <<>>
      BY DEF Identified
    <2>3. decoded.calls[k] = Begun(k, given[k])
      BY <1>1, <2>1, <2>2 DEF CallsDecoded
    <2> QED BY <1>1, <2>1, <2>3
  <1> QED BY <1>3, <1>4

\* The calls are those of a sequence.
LEMMA CallsAreNumbered ==
    ASSUME ProviderInv, CallsDecoded
    PROVE  /\ Len(turn.calls) \in Nat /\ DOMAIN turn.calls = 1 .. Len(turn.calls)
           /\ DOMAIN decoded.calls \subseteq 1 .. Len(turn.calls)
  <1>1. IsText(turn.calls)
    BY TurnTypes DEF ProviderInv
  <1>2. Len(turn.calls) \in Nat /\ DOMAIN turn.calls = 1 .. Len(turn.calls)
    BY <1>1, TextTypes
  <1> QED BY <1>2 DEF CallsDecoded

\* What makes a turn of the provider's answer.
LEMMA NativeTurn ==
    ASSUME IInv, api # "complete", Assistant(decoded).kind = "turn"
    PROVE  /\ DecodedAsSaid /\ Identified(decoded.calls)
           /\ Assistant(decoded).content = SubSeq(turn.content, 1, said)
           /\ Assistant(decoded).calls = [n \in DOMAIN Places(decoded.calls) |->
                 [id |-> decoded.calls[Places(decoded.calls)[n]].id,
                  name |-> decoded.calls[Places(decoded.calls)[n]].name,
                  args |-> decoded.calls[Places(decoded.calls)[n]].args]]
           /\ DOMAIN Assistant(decoded).calls = DOMAIN Places(decoded.calls)
           /\ finish = "length" => Assistant(decoded).calls = <<>>
           /\ DOMAIN decoded.calls \subseteq 1 .. Len(turn.calls) /\ Len(turn.calls) \in Nat
  <1> DEFINE A == Assistant(decoded)
  <1>1. ~decoded.error
    <2>1. ~(decoded.error \/ ~Identified(decoded.calls))
      BY DEF Assistant, Failed, Pending
    <2> QED BY <2>1
  <1>2. DecodedAsSaid /\ CallsDecoded /\ ProviderInv
    BY <1>1 DEF IInv, DecoderInv, DecodedAsSaid
  <1>3. DOMAIN decoded.calls \subseteq 1 .. Len(turn.calls) /\ Len(turn.calls) \in Nat
    BY <1>2, CallsAreNumbered
  <1>4. /\ Identified(decoded.calls) /\ A.content = decoded.content
        /\ DOMAIN A.calls = DOMAIN Places(decoded.calls)
        /\ A.calls = [n \in DOMAIN Places(decoded.calls) |->
              [id |-> decoded.calls[Places(decoded.calls)[n]].id,
               name |-> decoded.calls[Places(decoded.calls)[n]].name,
               args |-> decoded.calls[Places(decoded.calls)[n]].args]]
        /\ decoded.finish = "length" => A.calls = <<>>
    BY <1>3, AssistantTurn
  <1> HIDE DEF A
  <1>5. decoded.content = SubSeq(turn.content, 1, said) /\ decoded.finish = finish
    BY <1>2 DEF DecodedAsSaid
  <1> QED BY <1>2, <1>3, <1>4, <1>5 DEF A

\* An answer of the other two modes.
LEMMA LegacyTurn ==
    ASSUME NEW answer, Legacy(answer).kind = "turn"
    PROVE  /\ answer.kind = "turn" /\ answer.content \in DOMAIN Objects
           /\ Legacy(answer).content = Objects[answer.content].reply
           /\ Legacy(answer).calls = [i \in DOMAIN Objects[answer.content].calls |->
                 [id |-> <<"legacy", i>>, name |-> Objects[answer.content].calls[i], args |-> <<>>]]
           /\ \A i \in DOMAIN Objects[answer.content].calls : Objects[answer.content].calls[i] # <<>>
  <1> DEFINE o == Objects[answer.content]
             failed == (\E i \in DOMAIN o.calls : o.calls[i] = <<>>) \/ (o.reply = <<>> /\ o.calls = <<>>)
             calls == [i \in DOMAIN o.calls |-> [id |-> <<"legacy", i>>, name |-> o.calls[i], args |-> <<>>]]
  <1>1. Failed("provider_protocol").kind # "turn"
    BY DEF Failed, Pending
  <1>2. answer.kind = "turn"
    BY DEF Legacy
  <1>3. answer.content \in DOMAIN Objects
    BY <1>1, <1>2 DEF Legacy
  <1>4. Legacy(answer) = IF failed THEN Failed("provider_protocol")
                         ELSE [kind |-> "turn", content |-> o.reply, calls |-> calls]
    BY <1>2, <1>3 DEF Legacy
  <1> HIDE DEF calls
  <1>5. ~failed /\ Legacy(answer).content = o.reply /\ Legacy(answer).calls = calls
    BY <1>1, <1>4
  <1> QED BY <1>2, <1>3, <1>5 DEF calls

LEMMA TextTurn ==
    ASSUME NEW out, Text(out).kind = "turn"
    PROVE  Text(out).content = out.content /\ Text(out).calls = <<>>
  BY DEF Text, Failed, Pending

LEMMA SoundTurn ==
    ASSUME IInv, result.kind = "turn"
    PROVE  NothingInvented /\ CallsCanBeRun
  <1>1. ProviderInv /\ api \in Apis /\ result = Answer(decoded)
    BY DEF IInv, LoopInv
  <1>2. CASE api = "native"
    <2>1. result = Assistant(decoded)
      BY <1>1, <1>2 DEF Answer
    <2> DEFINE places == Places(decoded.calls)
    <2>2. /\ DecodedAsSaid /\ Identified(decoded.calls)
          /\ result.content = SubSeq(turn.content, 1, said)
          /\ result.calls = [n \in DOMAIN places |->
                [id |-> decoded.calls[places[n]].id, name |-> decoded.calls[places[n]].name,
                 args |-> decoded.calls[places[n]].args]]
          /\ DOMAIN result.calls = DOMAIN places
          /\ finish = "length" => result.calls = <<>>
          /\ DOMAIN decoded.calls \subseteq 1 .. Len(turn.calls) /\ Len(turn.calls) \in Nat
      BY <1>2, <2>1, NativeTurn
    <2>3. /\ \A n \in DOMAIN places : places[n] \in DOMAIN decoded.calls
          /\ \A n, l \in DOMAIN places : places[n] = places[l] => n = l
      BY <2>2, PlacesAreIndexes
    <2> HIDE DEF places
    <2>4. \A n \in DOMAIN result.calls :
             /\ n \in DOMAIN places
             /\ result.calls[n].id = decoded.calls[places[n]].id
             /\ result.calls[n].name = decoded.calls[places[n]].name
             /\ result.calls[n].args = decoded.calls[places[n]].args
      BY <2>2
    <2>5. CallsCanBeRun
      <3>1. \A n \in DOMAIN result.calls : result.calls[n].id # <<>> /\ result.calls[n].name # <<>>
        BY <2>2, <2>3, <2>4 DEF Identified
      <3>2. \A n, l \in DOMAIN result.calls : n # l => result.calls[n].id # result.calls[l].id
        BY <2>2, <2>3, <2>4 DEF Identified
      <3> QED BY <2>2, <3>1, <3>2 DEF CallsCanBeRun
    <2>6. IsPrefix(result.content, turn.content)
      <3>1. IsText(turn.content) /\ said \in 0 .. Len(turn.content)
        BY <1>1, TurnTypes DEF ProviderInv
      <3>2. Len(turn.content) \in Nat /\ Len(SubSeq(turn.content, 1, said)) = said
        BY <3>1, TextTypes
      <3>3. SubSeq(SubSeq(turn.content, 1, said), 1, said) = SubSeq(turn.content, 1, said)
        BY <3>1, <3>2, PrefixOfPrefix
      <3> QED BY <2>2, <3>1, <3>2, <3>3 DEF IsPrefix
    <2>7. ASSUME NEW n \in DOMAIN result.calls
          PROVE  \E j \in DOMAIN turn.calls :
                    /\ result.calls[n].id = turn.calls[j].id
                    /\ result.calls[n].name = turn.calls[j].name
                    /\ IsPrefix(result.calls[n].args, turn.calls[j].args)
      <3>1. places[n] \in DOMAIN decoded.calls
        BY <2>3, <2>4
      <3>2. PICK j \in DOMAIN turn.calls : \E l \in 1 .. Len(turn.calls[j].args) :
               decoded.calls[places[n]] = Begun(j, l)
        BY <1>1, <2>2, <3>1, CallIsBegun DEF DecodedAsSaid
      <3>3. PICK l \in 1 .. Len(turn.calls[j].args) : decoded.calls[places[n]] = Begun(j, l)
        BY <3>2
      <3>4. /\ result.calls[n].id = turn.calls[j].id /\ result.calls[n].name = turn.calls[j].name
            /\ result.calls[n].args = SubSeq(turn.calls[j].args, 1, l)
        BY <2>4, <3>3 DEF Begun
      <3> DEFINE s == turn.calls[j].args
      <3>5. IsText(s) /\ l \in 1 .. Len(s) /\ Len(s) \in Nat
        BY <1>1, TurnTypes DEF ProviderInv
      <3> HIDE DEF s
      <3>6. Len(SubSeq(s, 1, l)) = l /\ SubSeq(SubSeq(s, 1, l), 1, l) = SubSeq(s, 1, l) /\ l <= Len(s)
        <4>1. l \in 0 .. Len(s)
          BY <3>5
        <4> QED BY <3>5, <4>1, TextTypes, PrefixOfPrefix
      <3>7. IsPrefix(SubSeq(s, 1, l), s)
        BY <3>6 DEF IsPrefix
      <3> QED BY <3>4, <3>7 DEF s
    <2> QED BY <2>5, <2>6, <2>7 DEF NothingInvented
  <1>3. CASE api = "legacy"
    <2> DEFINE answer == Assistant(decoded)
               o == Objects[answer.content]
    <2>1. result = Legacy(answer)
      BY <1>1, <1>3 DEF Answer
    <2> HIDE DEF answer
    <2>2. /\ result.calls = [i \in DOMAIN o.calls |->
                [id |-> <<"legacy", i>>, name |-> o.calls[i], args |-> <<>>]]
          /\ \A i \in DOMAIN o.calls : o.calls[i] # <<>>
      BY <2>1, LegacyTurn
    <2> HIDE DEF o
    <2>3. \A i \in DOMAIN result.calls : result.calls[i].id = <<"legacy", i>> /\ result.calls[i].name # <<>>
      BY <2>2
    <2>4. \A i : <<"legacy", i>> # <<>>
      OBVIOUS
    <2>5. \A i, j : i # j => <<"legacy", i>> # <<"legacy", j>>
      OBVIOUS
    <2> QED BY <1>3, <2>3, <2>4, <2>5 DEF NothingInvented, CallsCanBeRun
  <1>4. CASE api = "complete"
    <2>1. result = Text(decoded)
      BY <1>1, <1>4 DEF Answer
    <2>2. result.calls = <<>>
      BY <2>1, TextTurn
    <2>3. DOMAIN result.calls = {}
      BY <2>2, 1 .. 0 = {}
    <2> QED BY <1>4, <2>3 DEF NothingInvented, CallsCanBeRun
  <1> QED BY <1>1, <1>2, <1>3, <1>4 DEF Apis

LEMMA Typed == IInv => TypeOK
  <1> SUFFICES ASSUME IInv PROVE TypeOK
    OBVIOUS
  <1>1. ProviderInv /\ LoopInv /\ DecoderInv
    BY DEF IInv
  <1>2. phase = "ended" <=> result.kind # "none"
    BY <1>1 DEF LoopInv, Pending
  <1>3. \A i \in DOMAIN given : given[i] \in 0 .. Len(turn.calls[i].args)
    BY <1>1, TurnTypes DEF ProviderInv
  <1> QED BY <1>1, <1>2, <1>3 DEF TypeOK, ProviderInv, LoopInv, DecoderInv

\* Whatever was said and however it came, the calls of a turn that reach the
\* agent have ids and names of their own, and nothing reaches it that was not
\* said; of a turn cut off for its length no call does (decodeAssistant).
THEOREM CallsAreAlwaysSound == Spec => []CallsAreSound
  <1>1. IInv => CallsAreSound
    <2>1. IInv /\ result.kind # "turn" => NothingInvented /\ CallsCanBeRun
      BY DEF NothingInvented, CallsCanBeRun
    <2> QED BY <2>1, SoundTurn, Typed DEF CallsAreSound
  <1> QED BY <1>1, IInvHolds, PTL

\* Of a turn that was said to its end, each call is in its place and whole.
LEMMA AllDecoded ==
    ASSUME ProviderInv, CallsDecoded, SaidAll
    PROVE  /\ DOMAIN decoded.calls = 1 .. Len(turn.calls)
           /\ \A i \in DOMAIN turn.calls : decoded.calls[i] = Begun(i, Len(turn.calls[i].args))
  <1>1. \A i \in DOMAIN turn.calls : given[i] > 0 /\ given[i] = Len(turn.calls[i].args)
    <2>1. \A i \in DOMAIN turn.calls : Len(turn.calls[i].args) \in Nat \ {0}
      BY TurnTypes DEF ProviderInv
    <2> QED BY <2>1 DEF SaidAll
  <1>2. ASSUME NEW w \in DOMAIN turn.calls, Misplaced(w) PROVE FALSE
    <2>1. 1 \in DOMAIN turn.calls /\ given[1] = 0
      BY <1>2 DEF Misplaced, CallsDecoded
    <2> QED BY <1>1, <2>1
  <1>3. \A i \in DOMAIN turn.calls :
           i \in DOMAIN decoded.calls /\ decoded.calls[i] = Begun(i, Len(turn.calls[i].args))
    BY <1>1, <1>2 DEF CallsDecoded
  <1>4. DOMAIN turn.calls = 1 .. Len(turn.calls) /\ DOMAIN decoded.calls \subseteq 1 .. Len(turn.calls)
    BY CallsAreNumbered
  <1> QED BY <1>3, <1>4

LEMMA ExactTurn ==
    ASSUME IInv, result.kind = "turn", finish = "stop", api = "complete" => "choice" \notin noise
    PROVE  TurnIsExact
  <1>1. ProviderInv /\ api \in Apis /\ result = Answer(decoded) /\ SaidAll
    BY DEF IInv, LoopInv, ProviderInv
  <1>2. /\ IsText(turn.content) /\ said = Len(turn.content)
        /\ SubSeq(turn.content, 1, said) = turn.content
    BY <1>1, TurnTypes, TextTypes DEF ProviderInv, SaidAll
  <1>3. CASE api = "native"
    <2>1. result = Assistant(decoded)
      BY <1>1, <1>3 DEF Answer
    <2> DEFINE places == Places(decoded.calls)
               N == Len(turn.calls)
    <2>2. /\ DecodedAsSaid
          /\ result.content = SubSeq(turn.content, 1, said)
          /\ result.calls = [n \in DOMAIN places |->
                [id |-> decoded.calls[places[n]].id, name |-> decoded.calls[places[n]].name,
                 args |-> decoded.calls[places[n]].args]]
          /\ N \in Nat
      BY <1>3, <2>1, NativeTurn
    <2>3. /\ DOMAIN decoded.calls = 1 .. N
          /\ \A i \in DOMAIN turn.calls : decoded.calls[i] = Begun(i, Len(turn.calls[i].args))
      BY <1>1, <2>2, AllDecoded DEF DecodedAsSaid
    <2>4. DOMAIN places = 1 .. N /\ \A n \in 1 .. N : places[n] = n
      BY <2>2, <2>3, PlacesOfAll
    <2>5. DOMAIN turn.calls = 1 .. N
      BY <1>1, <2>2, CallsAreNumbered DEF DecodedAsSaid
    <2> HIDE DEF places, N
    <2>6. /\ DOMAIN result.calls = 1 .. N
          /\ \A n \in 1 .. N : result.calls[n] = [id |-> decoded.calls[n].id,
                                                  name |-> decoded.calls[n].name,
                                                  args |-> decoded.calls[n].args]
      BY <2>2, <2>4
    <2>7. Len(result.calls) = N
      <3>1. result.calls = [n \in 1 .. N |->
                [id |-> decoded.calls[places[n]].id, name |-> decoded.calls[places[n]].name,
                 args |-> decoded.calls[places[n]].args]]
        BY <2>2, <2>4
      <3> QED BY <2>2, <3>1
    <2>8. ASSUME NEW n \in 1 .. N PROVE result.calls[n] = turn.calls[n]
      <3>1. /\ IsText(turn.calls[n].args)
            /\ turn.calls[n] = [id |-> turn.calls[n].id, name |-> turn.calls[n].name,
                                args |-> turn.calls[n].args]
        BY <1>1, <2>5, TurnTypes DEF ProviderInv
      <3>2. SubSeq(turn.calls[n].args, 1, Len(turn.calls[n].args)) = turn.calls[n].args
        BY <3>1, TextTypes
      <3>3. /\ decoded.calls[n].id = turn.calls[n].id /\ decoded.calls[n].name = turn.calls[n].name
            /\ decoded.calls[n].args = turn.calls[n].args
        <4>1. decoded.calls[n] = Begun(n, Len(turn.calls[n].args))
          BY <2>3, <2>5
        <4> QED BY <3>2, <4>1 DEF Begun
      <3> QED BY <2>6, <3>1, <3>3
    <2> QED BY <1>2, <1>3, <2>2, <2>6, <2>7, <2>8 DEF TurnIsExact, Meant, N
  <1>4. CASE api = "legacy"
    <2> DEFINE answer == Assistant(decoded)
               o == Objects[turn.content]
    <2>1. result = Legacy(answer)
      BY <1>1, <1>4 DEF Answer
    <2>2. answer.kind = "turn" /\ answer.content \in DOMAIN Objects
      BY <2>1, LegacyTurn
    <2>3. answer.content = turn.content
      BY <1>2, <1>4, <2>2, NativeTurn
    <2> HIDE DEF answer
    <2>4. /\ turn.content \in DOMAIN Objects
          /\ result.content = o.reply
          /\ result.calls = [i \in DOMAIN o.calls |->
                [id |-> <<"legacy", i>>, name |-> o.calls[i], args |-> <<>>]]
      BY <2>1, <2>2, <2>3, LegacyTurn
    <2>5. DOMAIN o.calls = 1 .. Len(o.calls) /\ Len(o.calls) \in Nat
      <3>1. IsText(o.calls)
        BY <2>4, CompletionAssumption
      <3> HIDE DEF o
      <3> QED BY <3>1, TextTypes
    <2> DEFINE calls == o.calls
    <2> HIDE DEF calls
    <2>6. Len(result.calls) = Len(calls) /\ DOMAIN result.calls = 1 .. Len(calls)
      <3>1. result.calls = [i \in 1 .. Len(calls) |->
                              [id |-> <<"legacy", i>>, name |-> calls[i], args |-> <<>>]]
        BY <2>4, <2>5 DEF calls
      <3>2. Len(calls) \in Nat
        BY <2>5 DEF calls
      <3> QED BY <3>1, <3>2
    <2>7. \A i \in DOMAIN result.calls : result.calls[i].name = calls[i]
      BY <2>4 DEF calls
    <2>8. Meant = o
      BY <1>4 DEF Meant
    <2> QED BY <1>4, <2>4, <2>6, <2>7, <2>8 DEF TurnIsExact, calls
  <1>5. CASE api = "complete"
    <2>1. result = Text(decoded)
      BY <1>1, <1>5 DEF Answer
    <2>2. result.calls = <<>> /\ result.content = decoded.content
      BY <2>1, TextTurn
    <2>3. decoded.content = turn.content /\ turn.calls = <<>>
      BY <1>2, <1>5 DEF IInv, DecoderInv, ProviderInv
    <2>4. Len(<<>>) = 0 /\ DOMAIN result.calls = {}
      BY <2>2, 1 .. 0 = {}
    <2> QED BY <1>5, <2>2, <2>3, <2>4 DEF TurnIsExact, Meant
  <1> QED BY <1>1, <1>3, <1>4, <1>5 DEF Apis

\* A turn that was said to its end reaches the caller as it was said, in
\* whatever pieces it came and after whatever attempts before (decodeChat,
\* legacyChat, decodeChatContent).
THEOREM TurnsAreExact == Spec => []TurnIsExact
  <1>1. IInv => TurnIsExact
    <2>1. IInv /\ ~(result.kind = "turn" /\ finish = "stop" /\ (api = "complete" => "choice" \notin noise))
            => TurnIsExact
      BY DEF TurnIsExact
    <2> QED BY <2>1, ExactTurn
  <1> QED BY <1>1, IInvHolds, PTL
-----------------------------------------------------------------------------
(* The end of an exchange.                                                 *)

\* How many steps the loop can still take: three attempts of a request, its
\* response and a pause each.
StepsLeft ==
    IF phase = "ended" THEN 0
    ELSE 3 * (2 - attempt) + (IF phase = "sending" THEN 3 ELSE IF phase = "receiving" THEN 2 ELSE 1)

LEMMA StepsAreNine == IInv => StepsLeft \in 0 .. 9
  <1> SUFFICES ASSUME IInv PROVE StepsLeft \in 0 .. 9
    OBVIOUS
  <1>1. attempt \in {0, 1, 2}
    BY DEF IInv, LoopInv
  <1> QED BY <1>1 DEF StepsLeft

\* An attempt that fails, or does not, is over.
LEMMA StepsGoDown ==
    ASSUME IInv, [Next]_vars
    PROVE  StepsLeft' <= StepsLeft /\ (Client => StepsLeft' < StepsLeft)
  <1>1. /\ attempt \in {0, 1, 2} /\ (phase = "pausing" => attempt < 2)
        /\ phase \in {"sending", "receiving", "pausing", "ended"}
    BY DEF IInv, LoopInv
  <1>2. CASE Client
    <2>1. ASSUME NEW status, Fail(status), phase \in {"sending", "receiving"}
          PROVE  attempt' = attempt /\ phase' \in {"ended", "pausing"}
      BY <2>1 DEF Fail, End
    <2>2. \/ phase = "sending" /\ phase' = "receiving" /\ attempt' = attempt
          \/ phase \in {"sending", "receiving"} /\ phase' = "pausing" /\ attempt' = attempt
          \/ phase # "ended" /\ phase' = "ended"
          \/ phase = "pausing" /\ phase' = "sending" /\ attempt' = attempt + 1
      BY <1>2, <2>1 DEF Client, NoAnswer, Refused, Answered, BodyEnds, BodyTooLong, BodyBreaks,
                        Again, Restart, GiveUp, End
    <2> QED BY <1>1, <2>2 DEF StepsLeft
  <1>3. CASE ~Client
    <2>1. phase' = phase /\ attempt' = attempt
      <3>1. CASE Provider
        <4>1. \A chunk : Send(chunk) => phase' = phase /\ attempt' = attempt
          BY DEF Send
        <4> QED BY <3>1, <4>1 DEF Provider, SendContent, SendPart, SendMessage, SendFinish, SendNoise
      <3>2. CASE Expire \/ UNCHANGED vars
        BY <3>2 DEF Expire, vars
      <3> QED BY <1>3, <3>1, <3>2 DEF Next
    <2>2. StepsLeft' = StepsLeft /\ StepsLeft \in Int
      BY <2>1, StepsAreNine DEF StepsLeft
    <2> QED BY <1>3, <2>2
  <1> QED BY <1>2, <1>3

\* requestChat and complete: whatever the provider sends and however often it
\* fails, an exchange is at most nine steps of the loop, and each takes it nearer
\* to its end.
THEOREM StepsRunOut ==
    Spec => /\ [](StepsLeft \in 0 .. 9)
            /\ [][StepsLeft' <= StepsLeft /\ (Client => StepsLeft' < StepsLeft)]_vars
  <1>1. IInv /\ [Next]_vars => [StepsLeft' <= StepsLeft /\ (Client => StepsLeft' < StepsLeft)]_vars
    BY StepsGoDown
  <1> QED BY <1>1, StepsAreNine, IInvHolds, PTL DEF Spec

\* Each request and each pause comes to an end: either the loop ends or it goes
\* on for ever.  The client waits for a response for 90 seconds at most.
ClientGoesOn == []<>(phase = "ended") \/ []<><<Client>>_vars

AtMost(n) == StepsLeft <= n
Running == Init /\ [][Next]_vars /\ ClientGoesOn
Falls(n, m) == Running => (AtMost(n) ~> AtMost(m))

LEMMA OneLess ==
    ASSUME NEW n \in 1 .. 9, NEW m \in 0 .. 8, n = m + 1
    PROVE  Falls(n, m)
  <1>1. ASSUME IInv, [Next]_vars, AtMost(n)
        PROVE  AtMost(n)' /\ (Client => AtMost(m)')
    <2>1. StepsLeft \in Int
      BY <1>1, StepsAreNine
    <2>2. StepsLeft' \in Int
      <3>1. attempt' \in 0 .. 2
        BY <1>1, NextInv DEF IInv, LoopInv
      <3> QED BY <3>1 DEF StepsLeft
    <2> QED BY <1>1, <2>1, <2>2, StepsGoDown DEF AtMost
  <1>2. IInv /\ AtMost(n) /\ [Next]_vars => AtMost(n)'
    BY <1>1
  <1>3. IInv /\ AtMost(n) /\ [Next]_vars /\ <<Client>>_vars => AtMost(m)'
    BY <1>1
  <1>4. phase = "ended" => AtMost(m)
    BY DEF AtMost, StepsLeft
  <1> QED BY <1>2, <1>3, <1>4, InitInv, NextInv, PTL DEF Falls, Running, ClientGoesOn

\* Under that fairness, every exchange ends, for every provider, also one that
\* fails each time, and without the caller's deadline.
THEOREM EveryChatEnds == Init /\ [][Next]_vars /\ ClientGoesOn => ChatEnds
  <1>1. /\ Falls(9, 8) /\ Falls(8, 7) /\ Falls(7, 6)
        /\ Falls(6, 5) /\ Falls(5, 4) /\ Falls(4, 3)
        /\ Falls(3, 2) /\ Falls(2, 1) /\ Falls(1, 0)
    BY OneLess
  <1>2. Running => (AtMost(9) ~> AtMost(6))
    BY <1>1, PTL DEF Falls
  <1>3. Running => (AtMost(6) ~> AtMost(3))
    BY <1>1, PTL DEF Falls
  <1>4. Running => (AtMost(3) ~> AtMost(0))
    BY <1>1, PTL DEF Falls
  <1>5. Init => AtMost(9)
    BY InitInv, StepsAreNine DEF AtMost
  <1>6. IInv /\ AtMost(0) => phase = "ended"
    <2> SUFFICES ASSUME IInv, AtMost(0), phase # "ended" PROVE FALSE
      OBVIOUS
    <2>1. attempt \in {0, 1, 2}
      BY DEF IInv, LoopInv
    <2> QED BY <2>1 DEF AtMost, StepsLeft
  <1>7. Running => []IInv
    BY InitInv, NextInv, PTL DEF Running
  <1> QED BY <1>2, <1>3, <1>4, <1>5, <1>6, <1>7, PTL DEF Running, ChatEnds

\* The weak fairness of Spec is that fairness, where the loop can go on until it
\* has ended.
THEOREM FairChatsEnd == Spec /\ [](phase # "ended" => ENABLED <<Client>>_vars) => ChatEnds
  <1>1. phase = "ended" \/ phase # "ended"
    OBVIOUS
  <1>2. Spec /\ [](phase # "ended" => ENABLED <<Client>>_vars) => ClientGoesOn
    BY <1>1, PTL DEF Spec, ClientGoesOn
  <1> QED BY <1>2, EveryChatEnds, PTL DEF Spec

=============================================================================

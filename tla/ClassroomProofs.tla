-------------------------- MODULE ClassroomProofs --------------------------
(* What is proved of the order of a course's topics, of what courses ask for,
   of what people are told and of the cache every request passes through, for
   any number of each and any settings; and of them all side by side.       *)
EXTENDS MCClassroom, AttemptsProofs

-----------------------------------------------------------------------------
(* Syllabus. *)

(* A topic being added is nowhere yet, and no two requests add the same one. *)
FreshAppends ==
    \A w \in Writers : edit[w].at = "append" =>
        /\ position[edit[w].item] = Nowhere
        /\ \A v \in Writers :
              edit[v].at = "append" /\ edit[v].item = edit[w].item => v = w

SyllabusInv == SyllabusTypeOK /\ Unique(position) /\ FreshAppends

LEMMA EditTyped ==
    ASSUME SyllabusTypeOK, NEW w \in Writers
    PROVE  /\ edit[w].at \in {"idle", "append", "delete", "reorder"}
           /\ edit[w].at = "idle" => edit[w] = NoEdit
           /\ edit[w].at = "append" =>
                edit[w].item \in Siblings /\ edit[w].place \in Nat
           /\ edit[w].at = "delete" =>
                edit[w].item \in Siblings /\ edit[w].saw \in [Siblings -> Places]
           /\ edit[w].at = "reorder" =>
                \E S \in SUBSET Siblings : edit[w].rank \in Rankings(S)
<1>1. edit[w] \in Edits
  BY DEF SyllabusTypeOK
<1>2. CASE edit[w] = NoEdit
  BY <1>2 DEF NoEdit
<1>3. CASE edit[w] \in [at: {"append"}, item: Siblings, place: Nat]
  BY <1>3
<1>4. CASE edit[w] \in [at: {"delete"}, item: Siblings, saw: [Siblings -> Places]]
  BY <1>4
<1>5. CASE edit[w] \in [at: {"reorder"}, rank: UNION {Rankings(S) : S \in SUBSET Siblings}]
  <2>1. edit[w].at = "reorder"
        /\ edit[w].rank \in UNION {Rankings(S) : S \in SUBSET Siblings}
    BY <1>5
  <2>2. \E S \in SUBSET Siblings : edit[w].rank \in Rankings(S)
    BY <2>1, Zenon
  <2> QED BY <2>1, <2>2
<1> QED BY <1>1, <1>2, <1>3, <1>4, <1>5, Zenon DEF Edits

(* A ranking gives each topic it names a natural number. *)
LEMMA RankTyped ==
    ASSUME NEW S \in SUBSET Siblings, NEW r \in Rankings(S)
    PROVE  /\ DOMAIN r = S
           /\ \A i \in S : r[i] \in Nat
           /\ \A i, j \in S : r[i] = r[j] => i = j
<1>1. r \in [S -> 0 .. Cardinality(S) - 1]
  BY DEF Rankings
<1>2. \A i \in S : r[i] \in 0 .. Cardinality(S) - 1
  BY <1>1
<1>3. \A n \in 0 .. Cardinality(S) - 1 : n \in Nat
  OBVIOUS
<1> QED BY <1>1, <1>2, <1>3 DEF Rankings

LEMMA SyllabusStarts == SyllabusInit => SyllabusInv
<1> SUFFICES ASSUME SyllabusInit PROVE SyllabusInv
  OBVIOUS
<1>1. PICK S \in SUBSET Siblings : \E r \in Rankings(S) :
          position = [i \in Siblings |-> IF i \in S THEN r[i] ELSE Nowhere]
  BY DEF SyllabusInit
<1>2. PICK r \in Rankings(S) :
          position = [i \in Siblings |-> IF i \in S THEN r[i] ELSE Nowhere]
  BY <1>1
<1>3. /\ \A i \in S : r[i] \in Nat
      /\ \A i, j \in S : r[i] = r[j] => i = j
  BY RankTyped
<1>4. position \in [Siblings -> Places] /\ Unique(position)
  BY <1>2, <1>3 DEF Places, Unique, Placed, Nowhere
<1>5. edit \in [Writers -> Edits] /\ FreshAppends
  BY DEF SyllabusInit, Edits, NoEdit, FreshAppends
<1> QED BY <1>4, <1>5 DEF SyllabusInv, SyllabusTypeOK

(* A commit of positions that are typed, and leave the topics other requests
   add nowhere, keeps the invariant.                                        *)
LEMMA CommitKeeps ==
    ASSUME SyllabusInv, NEW w \in Writers, NEW p \in [Siblings -> Places],
           CommitPositions(w, p),
           \A v \in Writers \ {w} :
              edit[v].at = "append" => p[edit[v].item] = Nowhere
    PROVE  SyllabusInv'
<1>1. /\ edit \in [Writers -> Edits] /\ position' = p /\ Unique(p)
      /\ edit' = [edit EXCEPT ![w] = NoEdit]
  BY DEF SyllabusInv, SyllabusTypeOK, CommitPositions
<1>2. edit'[w] = NoEdit /\ \A v \in Writers \ {w} : edit'[v] = edit[v]
  BY <1>1
<1>3. SyllabusTypeOK'
  BY <1>1 DEF SyllabusTypeOK, Edits
<1>4. Unique(position')
  BY <1>1
<1>5. FreshAppends'
  <2>1. \A v \in Writers : edit'[v].at = "append" => v # w
    BY <1>2 DEF NoEdit
  <2> QED BY <1>1, <1>2, <2>1 DEF SyllabusInv, FreshAppends
<1> QED BY <1>3, <1>4, <1>5 DEF SyllabusInv, Unique, Placed

LEMMA AppendKeeps ==
    ASSUME SyllabusInv, NEW w \in Writers, NEW i \in Siblings, Append(w, i)
    PROVE  SyllabusInv'
<1>1. PICK place \in 0 .. MaxPosition :
          edit' = [edit EXCEPT ![w] = [at |-> "append", item |-> i, place |-> place]]
  BY DEF Append
<1>2. place \in Nat
  BY SyllabusAssumption
<1>3. /\ edit \in [Writers -> Edits] /\ position' = position
  BY DEF SyllabusInv, SyllabusTypeOK, Append
<1>4. /\ edit'[w] = [at |-> "append", item |-> i, place |-> place]
      /\ \A v \in Writers \ {w} : edit'[v] = edit[v]
  BY <1>1, <1>3
<1>5. edit'[w] \in Edits
  BY <1>2, <1>4 DEF Edits
<1>6. SyllabusTypeOK'
  <2>1. edit' \in [Writers -> Edits]
    BY <1>1, <1>3, <1>4, <1>5
  <2> QED BY <1>3, <2>1 DEF SyllabusInv, SyllabusTypeOK
<1>7. FreshAppends'
  BY <1>3, <1>4 DEF SyllabusInv, FreshAppends, Append, Unheard
<1> QED BY <1>3, <1>6, <1>7 DEF SyllabusInv, Unique, Placed

(* A request that only reads, or ends with nothing done, keeps it. *)
LEMMA IdlingKeeps ==
    ASSUME SyllabusInv, UNCHANGED position, NEW w \in Writers, NEW e \in Edits,
           e.at # "append", edit' = [edit EXCEPT ![w] = e]
    PROVE  SyllabusInv'
<1>1. edit \in [Writers -> Edits]
  BY DEF SyllabusInv, SyllabusTypeOK
<1>2. edit'[w] = e /\ \A v \in Writers \ {w} : edit'[v] = edit[v]
  BY <1>1
<1>3. SyllabusTypeOK'
  BY <1>1 DEF SyllabusInv, SyllabusTypeOK
<1>4. FreshAppends'
  BY <1>2 DEF SyllabusInv, FreshAppends
<1> QED BY <1>3, <1>4 DEF SyllabusInv, Unique, Placed

LEMMA DeleteKeeps ==
    ASSUME SyllabusInv, NEW w \in Writers, NEW i \in Siblings, Delete(w, i)
    PROVE  SyllabusInv'
<1> DEFINE e == [at |-> "delete", item |-> i, saw |-> position]
<1>1. e \in Edits /\ e.at # "append"
  BY DEF SyllabusInv, SyllabusTypeOK, Edits
<1> QED BY <1>1, IdlingKeeps DEF Delete

LEMMA ReorderKeeps ==
    ASSUME SyllabusInv, NEW w \in Writers, NEW S \in SUBSET Siblings,
           NEW r \in Rankings(S), Reorder(w, r)
    PROVE  SyllabusInv'
<1> DEFINE e == [at |-> "reorder", rank |-> r]
<1>1. r \in UNION {Rankings(T) : T \in SUBSET Siblings}
  BY Zenon
<1>2. e \in Edits /\ e.at # "append"
  <2> HIDE DEF Rankings
  <2> QED BY <1>1 DEF Edits
<1> QED BY <1>2, IdlingKeeps DEF Reorder

LEMMA AbandonKeeps ==
    ASSUME SyllabusInv, NEW w \in Writers, Abandon(w)
    PROVE  SyllabusInv'
<1>1. NoEdit \in Edits /\ NoEdit.at # "append"
  BY DEF Edits, NoEdit
<1> QED BY <1>1, IdlingKeeps DEF Abandon

LEMMA CommitAppendKeeps ==
    ASSUME SyllabusInv, NEW w \in Writers, CommitAppend(w)
    PROVE  SyllabusInv'
<1> DEFINE p == [position EXCEPT ![edit[w].item] = edit[w].place]
<1>1. /\ position \in [Siblings -> Places]
      /\ edit[w].item \in Siblings /\ edit[w].place \in Nat
  BY EditTyped DEF SyllabusInv, SyllabusTypeOK, CommitAppend
<1>2. p \in [Siblings -> Places]
  BY <1>1 DEF Places
<1>3. \A v \in Writers \ {w} : edit[v].at = "append" => p[edit[v].item] = Nowhere
  <2> SUFFICES ASSUME NEW v \in Writers \ {w}, edit[v].at = "append"
               PROVE  p[edit[v].item] = Nowhere
    OBVIOUS
  <2>1. edit[v].item \in Siblings /\ position[edit[v].item] = Nowhere
    BY EditTyped DEF SyllabusInv, FreshAppends
  <2>2. edit[v].item # edit[w].item
    BY DEF SyllabusInv, FreshAppends, CommitAppend
  <2> QED BY <1>1, <2>1, <2>2
<1> QED BY <1>2, <1>3, CommitKeeps DEF CommitAppend

(* Where a topic is nowhere, closing a gap or writing ranks leaves it. *)
LEMMA CommitDeleteKeeps ==
    ASSUME SyllabusInv, NEW w \in Writers, CommitDelete(w)
    PROVE  SyllabusInv'
<1> DEFINE p == GapClosed(edit[w].item, edit[w].saw)
<1>1. /\ position \in [Siblings -> Places]
      /\ edit[w].item \in Siblings /\ edit[w].saw \in [Siblings -> Places]
      /\ position[edit[w].item] \in Nat
  BY EditTyped DEF SyllabusInv, SyllabusTypeOK, CommitDelete, Placed, Places
<1>2. p \in [Siblings -> Places]
  BY <1>1 DEF Places, GapClosed, Nowhere
<1>3. \A i \in Siblings : position[i] = Nowhere => p[i] = Nowhere
  BY <1>1 DEF GapClosed, Nowhere, Places
<1>4. \A v \in Writers \ {w} : edit[v].at = "append" => p[edit[v].item] = Nowhere
  BY <1>3, EditTyped DEF SyllabusInv, FreshAppends
<1> QED BY <1>2, <1>4, CommitKeeps DEF CommitDelete

LEMMA CommitReorderKeeps ==
    ASSUME SyllabusInv, NEW w \in Writers, CommitReorder(w)
    PROVE  SyllabusInv'
<1> DEFINE rank == edit[w].rank
           p == [i \in Siblings |-> IF i \in DOMAIN rank THEN rank[i] ELSE position[i]]
<1>1. PICK S \in SUBSET Siblings : rank \in Rankings(S)
  BY EditTyped DEF SyllabusInv, CommitReorder
<1>2. DOMAIN rank = S /\ \A i \in S : rank[i] \in Nat
  BY <1>1, RankTyped
<1>3. position \in [Siblings -> Places] /\ DOMAIN rank \subseteq Placed(position)
  BY DEF SyllabusInv, SyllabusTypeOK, CommitReorder
<1>4. p \in [Siblings -> Places]
  BY <1>2, <1>3 DEF Places
<1>5. \A i \in Siblings : position[i] = Nowhere => p[i] = Nowhere
  BY <1>3 DEF Placed
<1>6. \A v \in Writers \ {w} : edit[v].at = "append" => p[edit[v].item] = Nowhere
  BY <1>5, EditTyped DEF SyllabusInv, FreshAppends
<1> QED BY <1>4, <1>6, CommitKeeps DEF CommitReorder

LEMMA SyllabusStep == SyllabusInv /\ [SyllabusNext]_syllabusVars => SyllabusInv'
<1> SUFFICES ASSUME SyllabusInv, [SyllabusNext]_syllabusVars PROVE SyllabusInv'
  OBVIOUS
<1>1. CASE UNCHANGED syllabusVars
  BY <1>1 DEF syllabusVars, SyllabusInv, SyllabusTypeOK, Unique, Placed, FreshAppends
<1>2. CASE SyllabusNext
  <2>1. PICK w \in Writers :
          \/ \E i \in Siblings : Append(w, i) \/ Delete(w, i)
          \/ \E S \in SUBSET Siblings : \E r \in Rankings(S) : Reorder(w, r)
          \/ CommitAppend(w) \/ CommitDelete(w) \/ CommitReorder(w)
          \/ Abandon(w)
    BY <1>2 DEF SyllabusNext
  <2> QED BY <2>1, AppendKeeps, DeleteKeeps, ReorderKeeps, CommitAppendKeeps,
             CommitDeleteKeeps, CommitReorderKeeps, AbandonKeeps
<1> QED BY <1>1, <1>2

(* Whatever is edited at once, no two topics share a position. *)
THEOREM SyllabusHolds == SyllabusSpec => []SyllabusInv
BY SyllabusStarts, SyllabusStep, PTL DEF SyllabusSpec

(* Two topics that stay keep their order. *)
SameOrder(p) ==
    \A i, j \in Placed(position) \cap Placed(p) :
        (position[i] < position[j]) = (p[i] < p[j])

(* A gap closed for some of those behind it moves none past another: the
   position it would take is still taken, and the commit is turned down.    *)
LEMMA ClosingKeepsOrder ==
    ASSUME SyllabusInv, NEW w \in Writers, CommitDelete(w)
    PROVE  SameOrder(GapClosed(edit[w].item, edit[w].saw))
<1> DEFINE p == GapClosed(edit[w].item, edit[w].saw)
           gap == position[edit[w].item]
<1>1. /\ position \in [Siblings -> Places]
      /\ edit[w].item \in Siblings
      /\ Unique(position) /\ Unique(p)
  BY EditTyped DEF SyllabusInv, SyllabusTypeOK, CommitDelete, CommitPositions
<1>2. \A i \in Siblings : p[i] \in {Nowhere, position[i], position[i] - 1}
  BY DEF GapClosed
<1> SUFFICES ASSUME NEW i \in Placed(position) \cap Placed(p),
                    NEW j \in Placed(position) \cap Placed(p)
             PROVE  (position[i] < position[j]) = (p[i] < p[j])
  BY DEF SameOrder
<1>3. /\ i \in Siblings /\ j \in Siblings
      /\ position[i] \in Nat /\ position[j] \in Nat
      /\ p[i] \in {position[i], position[i] - 1}
      /\ p[j] \in {position[j], position[j] - 1}
  BY <1>1, <1>2 DEF Placed, Places
<1>4. /\ position[i] = position[j] => i = j
      /\ p[i] = p[j] => i = j
  BY <1>1 DEF Unique
<1> HIDE DEF p
<1> QED BY <1>3, <1>4

LEMMA OrderStep == ASSUME SyllabusInv, SyllabusNext
                   PROVE  SameOrder(position') \/ \E w \in Writers : CommitReorder(w)
<1>1. PICK w \in Writers :
        \/ \E i \in Siblings : Append(w, i) \/ Delete(w, i)
        \/ \E S \in SUBSET Siblings : \E r \in Rankings(S) : Reorder(w, r)
        \/ CommitAppend(w) \/ CommitDelete(w) \/ CommitReorder(w)
        \/ Abandon(w)
  BY DEF SyllabusNext
<1>2. CASE UNCHANGED position
  BY <1>2 DEF SameOrder
<1>3. CASE CommitAppend(w)
  <2>1. /\ position \in [Siblings -> Places]
        /\ edit[w].item \in Siblings /\ position[edit[w].item] = Nowhere
    BY <1>3, EditTyped DEF SyllabusInv, SyllabusTypeOK, FreshAppends, CommitAppend
  <2>2. \A i \in Placed(position) : position'[i] = position[i]
    BY <1>3, <2>1 DEF CommitAppend, CommitPositions, Placed
  <2> QED BY <2>2 DEF SameOrder
<1>4. CASE CommitDelete(w)
  BY <1>4, ClosingKeepsOrder DEF CommitDelete, CommitPositions
<1>5. CASE CommitReorder(w)
  BY <1>5
<1>6. CASE \/ \E i \in Siblings : Append(w, i) \/ Delete(w, i)
           \/ \E S \in SUBSET Siblings : \E r \in Rankings(S) : Reorder(w, r)
           \/ Abandon(w)
  BY <1>2, <1>6 DEF Append, Delete, Reorder, Abandon
<1> QED BY <1>1, <1>3, <1>4, <1>5, <1>6

(* Additions and removals, in any interleaving, leave the order of the topics
   that stay as it was.                                                     *)
THEOREM OrderKept == SyllabusSpec => OrderIsKept
<1> DEFINE Firm == \A i, j \in Placed(position) \cap Placed(position') :
                      \/ (position[i] < position[j]) = (position'[i] < position'[j])
                      \/ \E w \in Writers : CommitReorder(w)
<1>1. SyllabusInv /\ [SyllabusNext]_syllabusVars => [Firm]_syllabusVars
  <2> SUFFICES ASSUME SyllabusInv, SyllabusNext PROVE Firm
    OBVIOUS
  <2> QED BY OrderStep DEF SameOrder
<1> HIDE DEF Firm
<1>2. SyllabusSpec => [][Firm]_syllabusVars
  BY <1>1, SyllabusHolds, PTL DEF SyllabusSpec
<1> QED BY <1>2 DEF OrderIsKept, Firm
-----------------------------------------------------------------------------
(* Prerequisites. *)

(* Two requests in flight have met, and what one that has met nobody asked is
   still so: in between, prerequisites are only removed.                    *)
Together ==
    \A a, b \in Authors : a # b /\ Adding(a) /\ Adding(b) => adding[a].met

CheckStands ==
    \A a \in Authors :
        Adding(a) /\ ~adding[a].met => ~WouldCycle(adding[a].edge[1], adding[a].edge[2])

LoopInv == LoopTypeOK /\ Together /\ CheckStands

LEMMA LoopStarts == LoopInit => LoopInv
BY DEF LoopInit, LoopInv, LoopTypeOK, Together, CheckStands, Adding, Additions,
       NoAdding, Standings

LEMMA AddingTyped ==
    ASSUME LoopTypeOK, NEW a \in Authors
    PROVE  /\ Adding(a) => adding[a].edge \in Edges /\ adding[a].met \in BOOLEAN
                           /\ adding[a] = [at |-> "checked", edge |-> adding[a].edge,
                                           met |-> adding[a].met]
           /\ ~Adding(a) => adding[a] = NoAdding
<1>1. adding[a] \in Additions
  BY DEF LoopTypeOK
<1>2. CASE adding[a] = NoAdding
  BY <1>2 DEF Adding, NoAdding
<1>3. CASE adding[a] \in [at: {"checked"}, edge: Edges, met: BOOLEAN]
  BY <1>3 DEF Adding
<1> QED BY <1>1, <1>2, <1>3 DEF Additions

(* Fewer prerequisites let a walk reach no further. *)
LEMMA RemovalParts ==
    ASSUME requires' \subseteq requires, NEW c, NEW r, ~WouldCycle(c, r)
    PROVE  ~WouldCycle(c, r)'
BY DEF WouldCycle, Reaches, Closed

LEMMA CheckKeepsLoop ==
    ASSUME LoopInv, NEW a \in Authors, NEW e \in Edges,
           CheckPrerequisite(a, e[1], e[2])
    PROVE  LoopInv'
<1> DEFINE row == [at |-> "checked", edge |-> <<e[1], e[2]>>,
                   met |-> \E b \in Authors : Adding(b)]
<1>1. /\ adding \in [Authors -> Additions] /\ requires' = requires
      /\ standing' = standing /\ ~Adding(a) /\ ~WouldCycle(e[1], e[2])
      /\ adding' = [b \in Authors |-> IF b = a THEN row ELSE Accompanied(b)]
  BY DEF LoopInv, LoopTypeOK, CheckPrerequisite
<1>2. e = <<e[1], e[2]>> /\ e \in Edges
  BY DEF Edges
<1>3. row \in Additions /\ row.at = "checked" /\ row.edge = e
      /\ row.met = \E b \in Authors : Adding(b)
  BY <1>2 DEF Additions
<1> HIDE DEF row
<1>4. adding'[a] = row /\ \A b \in Authors \ {a} : adding'[b] = Accompanied(b)
  BY <1>1
<1>5. ASSUME NEW b \in Authors \ {a}
      PROVE  /\ adding'[b] \in Additions
             /\ Adding(b)' = Adding(b)
             /\ Adding(b) => adding'[b].met
  <2>1. CASE Adding(b)
    <3>1. /\ adding[b].edge \in Edges
          /\ adding'[b] = [at |-> "checked", edge |-> adding[b].edge, met |-> TRUE]
      BY <1>4, <2>1, AddingTyped DEF LoopInv, Accompanied
    <3>2. adding'[b] \in Additions /\ adding'[b].at = "checked" /\ adding'[b].met
      BY <3>1 DEF Additions
    <3>3. Adding(b)'
      BY <3>2 DEF Adding
    <3> QED BY <2>1, <3>2, <3>3
  <2>2. CASE ~Adding(b)
    <3>1. adding'[b] = NoAdding
      BY <1>4, <2>2 DEF Accompanied
    <3> QED BY <2>2, <3>1 DEF Adding, Additions, NoAdding
  <2> QED BY <2>1, <2>2
<1>6. LoopTypeOK'
  <2>1. adding' \in [Authors -> Additions]
    <3>1. \A b \in Authors :
            (IF b = a THEN row ELSE Accompanied(b)) \in Additions
      BY <1>3, <1>4, <1>5
    <3> QED BY <1>1, <3>1
  <2> QED BY <1>1, <2>1 DEF LoopInv, LoopTypeOK
<1>7. Together'
  <2>1. \A b \in Authors \ {a} : Adding(b)' => adding'[b].met /\ adding'[a].met
    BY <1>3, <1>4, <1>5
  <2> QED BY <2>1 DEF Together
<1>8. CheckStands'
  <2>1. \A b \in Authors \ {a} : Adding(b)' => adding'[b].met
    BY <1>5
  <2>2. ~WouldCycle(adding[a].edge[1], adding[a].edge[2])'
    BY <1>1, <1>3, <1>4 DEF WouldCycle, Reaches, Closed
  <2> QED BY <2>1, <2>2 DEF CheckStands
<1> QED BY <1>6, <1>7, <1>8 DEF LoopInv

(* A request that ends, whatever it leaves, leaves the others as they were. *)
LEMMA EndKeepsLoop ==
    ASSUME LoopInv, NEW a \in Authors, Adding(a),
           adding' = [adding EXCEPT ![a] = NoAdding], UNCHANGED standing,
           requires' \in {requires, requires \cup {adding[a].edge}}
    PROVE  LoopInv'
<1>1. adding \in [Authors -> Additions] /\ adding[a].edge \in Edges
  BY AddingTyped DEF LoopInv, LoopTypeOK
<1>2. adding'[a] = NoAdding /\ \A b \in Authors \ {a} : adding'[b] = adding[b]
  BY <1>1
<1>3. LoopTypeOK'
  BY <1>1 DEF LoopInv, LoopTypeOK, Additions
<1>4. ~Adding(a)'
  BY <1>2 DEF Adding, NoAdding
<1>5. \A b \in Authors : Adding(b)' => b # a /\ Adding(b) /\ adding'[b] = adding[b]
  BY <1>2, <1>4 DEF Adding
<1>6. Together'
  BY <1>5 DEF LoopInv, Together
<1>7. \A b \in Authors : Adding(b)' => adding'[b].met
  BY <1>5 DEF LoopInv, Together
<1> QED BY <1>3, <1>6, <1>7 DEF LoopInv, CheckStands

LEMMA RemoveKeepsLoop ==
    ASSUME LoopInv, requires' \subseteq requires, UNCHANGED adding,
           standing' \in [Catalogue -> Standings]
    PROVE  LoopInv'
<1>1. LoopTypeOK' /\ Together'
  BY DEF LoopInv, LoopTypeOK, Together, Adding
<1>2. CheckStands'
  <2> SUFFICES ASSUME NEW a \in Authors, Adding(a), ~adding[a].met
               PROVE  ~WouldCycle(adding[a].edge[1], adding[a].edge[2])'
    BY DEF CheckStands, Adding
  <2>1. ~WouldCycle(adding[a].edge[1], adding[a].edge[2])
    BY DEF LoopInv, CheckStands
  <2> QED BY <2>1 DEF WouldCycle, Reaches, Closed
<1> QED BY <1>1, <1>2 DEF LoopInv

LEMMA LoopStep == LoopInv /\ [LoopNext]_loopVars => LoopInv'
<1> SUFFICES ASSUME LoopInv, [LoopNext]_loopVars PROVE LoopInv'
  OBVIOUS
<1>0. standing \in [Catalogue -> Standings]
  BY DEF LoopInv, LoopTypeOK
<1>1. CASE UNCHANGED loopVars
  BY <1>0, <1>1, RemoveKeepsLoop DEF loopVars
<1>2. ASSUME NEW a \in Authors,
             \/ \E e \in Edges : CheckPrerequisite(a, e[1], e[2])
             \/ AddPrerequisite(a) \/ AbortAddition(a)
      PROVE  LoopInv'
  <2>1. CASE AddPrerequisite(a) \/ AbortAddition(a)
    <3>1. /\ Adding(a) /\ UNCHANGED standing
          /\ adding' = [adding EXCEPT ![a] = NoAdding]
          /\ requires' \in {requires, requires \cup {adding[a].edge}}
      BY <2>1 DEF AddPrerequisite, AbortAddition
    <3> QED BY <3>1, EndKeepsLoop
  <2> QED BY <1>2, <2>1, CheckKeepsLoop
<1>3. ASSUME NEW e \in Edges, RemovePrerequisite(e[1], e[2])
      PROVE  LoopInv'
  BY <1>0, <1>3, RemoveKeepsLoop DEF RemovePrerequisite
<1>4. ASSUME NEW c \in Catalogue,
             EnrolSelf(c) \/ Place(c) \/ Leaves(c) \/ Finish(c) \/ Unfinish(c)
      PROVE  LoopInv'
  <2>1. /\ UNCHANGED <<requires, adding>>
        /\ \E s \in Standings : standing' = [standing EXCEPT ![c] = s]
    BY <1>4 DEF EnrolSelf, Place, Leaves, Finish, Unfinish, Standings
  <2>2. standing' \in [Catalogue -> Standings]
    BY <1>0, <2>1
  <2> QED BY <2>1, <2>2, RemoveKeepsLoop
<1> QED BY <1>1, <1>2, <1>3, <1>4 DEF LoopNext

(* What a request that has met nobody was told is still true when it inserts. *)
THEOREM LoopHolds == LoopSpec => []LoopInv
BY LoopStarts, LoopStep, PTL DEF LoopSpec

(* One edge more, to a course from which there was no way back, closes no
   loop: what the walk from any edge found without it, and what the walk from
   the new edge finds, make up all a walk finds with it.                    *)
LEMMA NoNewLoop ==
    ASSUME LoopTypeOK, Acyclic, NEW new \in Edges, ~WouldCycle(new[1], new[2]),
           requires' = requires \cup {new}
    PROVE  Acyclic'
<1>1. PICK R \in SUBSET Catalogue : new[2] \in R /\ Closed(R) /\ new[1] \notin R
  BY DEF WouldCycle, Reaches
<1> SUFFICES ASSUME NEW e \in requires \cup {new}
             PROVE  \E S \in SUBSET Catalogue :
                       e[2] \in S /\ Closed(S)' /\ e[1] \notin S
  BY DEF Acyclic, Reaches
<1>2. \A S \in SUBSET Catalogue :
        Closed(S) /\ (new[1] \in S => new[2] \in S) => Closed(S)'
  BY DEF Closed
<1>3. CASE e = new
  <2>1. Closed(R)'
    BY <1>1, <1>2
  <2> QED BY <1>1, <1>3, <2>1
<1>4. CASE e \in requires
  <2>1. PICK S \in SUBSET Catalogue : e[2] \in S /\ Closed(S) /\ e[1] \notin S
    BY <1>4 DEF Acyclic, Reaches
  <2>2. CASE new[1] \notin S
    BY <1>2, <2>1, <2>2
  <2>3. CASE new[1] \in S /\ e[1] \in R
    <3>1. e[2] \in R
      BY <1>1, <1>4, <2>3 DEF Closed
    <3>2. Closed(S \cap R)
      BY <1>1, <2>1 DEF Closed
    <3>3. Closed(S \cap R)'
      BY <1>1, <1>2, <3>2
    <3> QED BY <2>1, <3>1, <3>3
  <2>4. CASE new[1] \in S /\ e[1] \notin R
    <3>1. Closed(S \cup R)
      BY <1>1, <2>1 DEF Closed
    <3>2. Closed(S \cup R)'
      BY <1>1, <1>2, <3>1
    <3> QED BY <2>1, <2>4, <3>2
  <2> QED BY <2>2, <2>3, <2>4
<1> QED BY <1>3, <1>4

(* A single author never closes a loop, through whatever chain of courses. *)
THEOREM AloneIsAcyclic == LoopSpec => AloneStaysAcyclic
<1> DEFINE Harmless == \A a \in Authors :
                AddPrerequisite(a) /\ ~adding[a].met /\ Acyclic => Acyclic'
<1>1. LoopInv /\ [LoopNext]_loopVars => [Harmless]_loopVars
  <2> SUFFICES ASSUME LoopInv, NEW a \in Authors,
                      AddPrerequisite(a), ~adding[a].met, Acyclic
               PROVE  Acyclic'
    OBVIOUS
  <2>1. adding[a].edge \in Edges
    BY AddingTyped DEF LoopInv, AddPrerequisite
  <2>2. ~WouldCycle(adding[a].edge[1], adding[a].edge[2])
    BY DEF LoopInv, CheckStands, AddPrerequisite
  <2> QED BY <2>1, <2>2, NoNewLoop DEF LoopInv, AddPrerequisite
<1> HIDE DEF Harmless
<1>2. LoopSpec => [][Harmless]_loopVars
  BY <1>1, LoopHolds, PTL DEF LoopSpec
<1> QED BY <1>2 DEF AloneStaysAcyclic, Harmless
-----------------------------------------------------------------------------
(* Inbox. *)

(* What the sweep under way has gathered nobody has stamped. *)
GatheredIsPending == sweep.at = "gathered" => sweep.bells \cap digested = {}

InboxInv == InboxTypeOK /\ GatheredIsPending /\ MailedOnce

LEMMA InboxStarts == InboxInit => InboxInv
BY DEF InboxInit, InboxInv, InboxTypeOK, GatheredIsPending, MailedOnce, Sweeps, NoSweep

LEMMA SendKeeps == ASSUME InboxInv, SendDigests PROVE InboxInv'
<1>1. /\ mailed \in [Bells -> Nat] /\ digested \subseteq Bells
      /\ sweep.bells \in SUBSET Bells /\ sweep.bells \cap digested = {}
  BY DEF InboxInv, InboxTypeOK, Sweeps, NoSweep, GatheredIsPending, SendDigests
<1>2. ToMail \subseteq Bells /\ ToMail \cap digested = {}
  BY <1>1 DEF ToMail
<1>3. /\ mailed' = [b \in Bells |-> IF b \in ToMail THEN mailed[b] + 1 ELSE mailed[b]]
      /\ digested' = digested \cup ToMail /\ sweep' = NoSweep
      /\ UNCHANGED <<onCourse, reachable, fanouts, bell, silent>>
  BY DEF SendDigests
<1>4. MailedOnce'
  BY <1>2, <1>3 DEF InboxInv, MailedOnce
<1>5. GatheredIsPending'
  BY <1>3 DEF GatheredIsPending, NoSweep
<1>6. InboxTypeOK'
  <2>1. \A b \in Bells : mailed[b] + 1 \in Nat /\ mailed[b] \in Nat
    BY <1>1
  <2>2. mailed' \in [Bells -> Nat]
    BY <1>3, <2>1
  <2> QED BY <1>1, <1>2, <1>3, <2>2 DEF InboxInv, InboxTypeOK, Sweeps
<1> QED BY <1>4, <1>5, <1>6 DEF InboxInv

LEMMA GatherKeeps == ASSUME InboxInv, PendingDigests PROVE InboxInv'
<1>1. Pending \in SUBSET Bells /\ Pending \cap digested = {}
  BY DEF Pending
<1>2. /\ sweep' = [at |-> "gathered", bells |-> Pending]
      /\ UNCHANGED <<onCourse, reachable, fanouts, bell, digested, mailed, silent>>
  BY DEF PendingDigests
<1>3. sweep' \in Sweeps /\ sweep'.bells = Pending
  BY <1>1, <1>2 DEF Sweeps
<1>4. InboxTypeOK'
  BY <1>2, <1>3 DEF InboxInv, InboxTypeOK
<1>5. GatheredIsPending' /\ MailedOnce'
  BY <1>1, <1>2, <1>3 DEF InboxInv, GatheredIsPending, MailedOnce
<1> QED BY <1>4, <1>5 DEF InboxInv

(* A step that touches neither the mails nor the sweep, unless to end it. *)
LEMMA BellsKeep ==
    ASSUME InboxInv, UNCHANGED <<reachable, digested, mailed>>,
           onCourse' \subseteq People, fanouts' \subseteq Announcements,
           silent' \subseteq People, bell' \in [Bells -> {"none", "unread", "read"}],
           sweep' \in {sweep, NoSweep}
    PROVE  InboxInv'
BY DEF InboxInv, InboxTypeOK, GatheredIsPending, MailedOnce, Sweeps, NoSweep

LEMMA InboxStep == InboxInv /\ [InboxNext]_inboxVars => InboxInv'
<1> SUFFICES ASSUME InboxInv, [InboxNext]_inboxVars PROVE InboxInv'
  OBVIOUS
<1>0. /\ onCourse \subseteq People /\ fanouts \subseteq Announcements
      /\ silent \subseteq People /\ bell \in [Bells -> {"none", "unread", "read"}]
  BY DEF InboxInv, InboxTypeOK
<1>1. CASE UNCHANGED inboxVars
  BY <1>0, <1>1, BellsKeep DEF inboxVars
<1>2. ASSUME NEW a \in Announcements, PostAnnouncement(a) \/ FanOut(a)
      PROVE  InboxInv'
  <2>1. CASE PostAnnouncement(a)
    BY <1>0, <2>1, BellsKeep DEF PostAnnouncement
  <2>2. CASE FanOut(a)
    <3>1. bell' \in [Bells -> {"none", "unread", "read"}]
      BY <1>0, <2>2 DEF FanOut
    <3> QED BY <1>0, <2>2, <3>1, BellsKeep DEF FanOut
  <2> QED BY <1>2, <2>1, <2>2
<1>3. ASSUME NEW b \in Bells, ReadOne(b)
      PROVE  InboxInv'
  BY <1>0, <1>3, BellsKeep DEF ReadOne
<1>4. ASSUME NEW p \in People,
             \/ \E e \in Happenings : RecordNotice(e, p)
             \/ \E digest \in BOOLEAN : SetPreferences(p, digest)
             \/ ReadAll(p) \/ ComeOrGo(p)
      PROVE  InboxInv'
  <2>1. ASSUME NEW e \in Happenings, RecordNotice(e, p)
        PROVE  InboxInv'
    BY <1>0, <2>1, BellsKeep DEF RecordNotice
  <2>2. ASSUME NEW digest \in BOOLEAN, SetPreferences(p, digest)
        PROVE  InboxInv'
    BY <1>0, <2>2, BellsKeep DEF SetPreferences
  <2>3. CASE ReadAll(p)
    <3>1. bell' \in [Bells -> {"none", "unread", "read"}]
      BY <1>0, <2>3 DEF ReadAll
    <3> QED BY <1>0, <2>3, <3>1, BellsKeep DEF ReadAll
  <2>4. CASE ComeOrGo(p)
    BY <1>0, <2>4, BellsKeep DEF ComeOrGo
  <2> QED BY <1>4, <2>1, <2>2, <2>3, <2>4
<1>5. CASE FailSweep
  BY <1>0, <1>5, BellsKeep DEF FailSweep
<1> QED BY <1>1, <1>2, <1>3, <1>4, <1>5, SendKeeps, GatherKeeps DEF InboxNext

LEMMA InboxHolds == InboxSpec => []InboxInv
BY InboxStarts, InboxStep, PTL DEF InboxSpec

(* No bell is in two mails and none is stamped unmailed, however the sweep is
   interleaved with what is told, read and silenced, and however often it
   fails.                                                                   *)
THEOREM MailedAtMostOnce == InboxSpec => []MailedOnce
<1>1. InboxInv => MailedOnce
  BY DEF InboxInv
<1> QED BY <1>1, InboxHolds, PTL

-----------------------------------------------------------------------------
(* Cache. *)

LEMMA LifeTyped == \A said : Life(said) \in Nat
BY CacheAssumption DEF Life

LEMMA FlightTyped ==
    ASSUME CacheTypeOK, NEW k \in Keys, flight[k] # NoFlight
    PROVE  /\ flight[k].at \in {"check", "load", "store", "deliver"}
           /\ flight[k].leader \in Callers
           /\ flight[k].at \in {"store", "deliver"} =>
                flight[k].answer \in CacheAnswers /\ flight[k].read \in Times
BY DEF CacheTypeOK, Flights

LEMMA RequestTyped ==
    ASSUME CacheTypeOK, NEW c \in Callers, caller[c] # NotAsking
    PROVE  /\ caller[c].at \in {"missed", "waiting", "done"}
           /\ caller[c].key \in Keys /\ caller[c].gone \in BOOLEAN
           /\ caller[c].at = "done" =>
                caller[c].answer \in CacheAnswers /\ caller[c].when \in Times
BY DEF CacheTypeOK, CallerStates

LEMMA EntryTyped ==
    ASSUME CacheTypeOK, NEW k \in Keys, entries[k] # NotHeld
    PROVE  entries[k].answer \in CacheAnswers /\ entries[k].expires \in Nat
BY DEF CacheTypeOK, CacheEntries

(* Some of the keys are finitely many. *)
LEMMA KeysCounted ==
    ASSUME NEW S \in SUBSET Keys
    PROVE  IsFiniteSet(S) /\ Cardinality(S) \in Nat
BY CacheAssumption, FS_Subset, FS_CardinalityType

-----------------------------------------------------------------------------
(* The inductive invariant.  What the database answers now is true now; an
   entry was true within its life and a load of when it expires; a load that
   has its answer read it within Slowest.                                   *)
TruthIsNow ==
    \A k \in Keys :
        /\ lastTrue[k][truth[k]] = now
        /\ \A v \in Truths : lastTrue[k][v] <= now

EntriesAreRecent ==
    \A k \in Keys : entries[k] # NotHeld /\ entries[k].answer \in Truths =>
        entries[k].expires <=
            lastTrue[k][entries[k].answer] + Life(entries[k].answer) + Slowest

LoadsAreRecent ==
    \A k \in Keys : flight[k].at \in {"store", "deliver"} =>
        /\ now <= flight[k].read + Slowest
        /\ flight[k].answer \in Truths => flight[k].read <= lastTrue[k][flight[k].answer]

CacheInv ==
    /\ CacheTypeOK /\ TruthIsNow /\ EntriesAreRecent /\ LoadsAreRecent
    /\ LoadsAreNeeded /\ SizeIsBounded /\ AnswersAreRecent /\ WaitersHaveFlight

LEMMA CacheStarts == CacheInit => CacheInv
<1> SUFFICES ASSUME CacheInit PROVE CacheInv
  OBVIOUS
<1>1. CacheTypeOK
  BY CacheAssumption DEF CacheInit, CacheTypeOK, Times, CacheEntries, Flights, CallerStates
<1>2. TruthIsNow
  BY CacheAssumption DEF CacheInit, TruthIsNow, Never
<1>3. /\ EntriesAreRecent /\ LoadsAreRecent /\ LoadsAreNeeded
      /\ AnswersAreRecent /\ WaitersHaveFlight
  BY DEF CacheInit, EntriesAreRecent, LoadsAreRecent, LoadsAreNeeded, AnswersAreRecent,
     WaitersHaveFlight, NoFlight, NotAsking
<1>4. SizeIsBounded
  <2>1. InCache = {}
    BY DEF CacheInit, InCache
  <2> QED BY <2>1, FS_EmptySet, CacheAssumption DEF SizeIsBounded
<1> QED BY <1>1, <1>2, <1>3, <1>4 DEF CacheInv

(* What a step does not touch stays right. *)
LEMMA EntriesFramed ==
    ASSUME CacheInv, UNCHANGED <<lastTrue, entries>>
    PROVE  EntriesAreRecent' /\ SizeIsBounded'
BY DEF CacheInv, EntriesAreRecent, SizeIsBounded, InCache

LEMMA FlightsFramed ==
    ASSUME CacheInv, UNCHANGED <<now, lastTrue, entries, flight>>
    PROVE  LoadsAreRecent' /\ LoadsAreNeeded'
BY DEF CacheInv, LoadsAreRecent, LoadsAreNeeded, Fresh

LEMMA AnswersFramed ==
    ASSUME CacheInv, UNCHANGED <<lastTrue, caller>>
    PROVE  AnswersAreRecent'
BY DEF CacheInv, AnswersAreRecent

-----------------------------------------------------------------------------
(* A request's own steps. *)
LEMMA CallerFramed ==
    ASSUME CacheInv, NEW c \in Callers, NEW state \in CallerStates,
           caller' = [caller EXCEPT ![c] = state],
           UNCHANGED <<now, truth, lastTrue, entries, flight>>,
           state.at = "waiting" => flight[state.key] # NoFlight,
           state.at = "done" /\ state.answer \in Truths =>
               state.when <= lastTrue[state.key][state.answer] + Life(state.answer) + Slowest
    PROVE  CacheInv'
<1>1. CacheTypeOK'
  BY DEF CacheInv, CacheTypeOK
<1>2. TruthIsNow'
  BY DEF CacheInv, TruthIsNow
<1>3. EntriesAreRecent' /\ SizeIsBounded' /\ LoadsAreRecent' /\ LoadsAreNeeded'
  BY EntriesFramed, FlightsFramed
<1>4. AnswersAreRecent'
  BY DEF CacheInv, CacheTypeOK, AnswersAreRecent
<1>5. WaitersHaveFlight'
  BY DEF CacheInv, CacheTypeOK, WaitersHaveFlight
<1> QED BY <1>1, <1>2, <1>3, <1>4, <1>5 DEF CacheInv

LEMMA LookKeeps ==
    ASSUME CacheInv, NEW c \in Callers, NEW k \in Keys, Look(c, k)
    PROVE  CacheInv'
<1>1. CASE Fresh(k)
  <2> DEFINE state == [at |-> "done", key |-> k, gone |-> FALSE,
                       answer |-> entries[k].answer, when |-> now]
  <2>1. entries[k].answer \in CacheAnswers /\ now \in Times
    BY <1>1, EntryTyped DEF CacheInv, CacheTypeOK, Fresh
  <2>2. state \in CallerStates
    BY <2>1 DEF CallerStates
  <2>3. entries[k].answer \in Truths =>
            now <= lastTrue[k][entries[k].answer] + Life(entries[k].answer) + Slowest
    <3> SUFFICES ASSUME entries[k].answer \in Truths
                 PROVE  now <= lastTrue[k][entries[k].answer] + Life(entries[k].answer) + Slowest
      OBVIOUS
    <3>1. /\ entries[k].expires \in Nat /\ now \in Nat /\ now <= entries[k].expires
          /\ lastTrue[k][entries[k].answer] \in Int
      BY <1>1, <2>1, EntryTyped, CacheAssumption DEF Fresh, CacheInv, CacheTypeOK, Times, Never
    <3>2. entries[k].expires <= lastTrue[k][entries[k].answer] + Life(entries[k].answer) + Slowest
      BY <1>1 DEF CacheInv, EntriesAreRecent, Fresh
    <3> QED BY <3>1, <3>2, LifeTyped, CacheAssumption
  <2> QED BY <1>1, <2>2, <2>3, CallerFramed DEF Look
<1>2. CASE ~Fresh(k)
  <2> DEFINE state == [at |-> "missed", key |-> k, gone |-> FALSE]
  <2>1. state \in CallerStates
    BY DEF CallerStates
  <2> QED BY <1>2, <2>1, CallerFramed DEF Look
<1> QED BY <1>1, <1>2

LEMMA ReturnKeeps ==
    ASSUME CacheInv, NEW c \in Callers, TakeAnswer(c)
    PROVE  CacheInv'
<1>1. NotAsking \in CallerStates /\ NotAsking.at = "idle"
  BY DEF NotAsking, CallerStates
<1> QED BY <1>1, CallerFramed DEF TakeAnswer

LEMMA LeaveKeeps ==
    ASSUME CacheInv, NEW c \in Callers, HangUp(c)
    PROVE  CacheInv'
<1> DEFINE state == [caller[c] EXCEPT !.gone = TRUE]
<1>1. caller[c].at \in {"missed", "waiting"} /\ caller[c] # NotAsking
  BY DEF HangUp, NotAsking
<1>2. state \in CallerStates /\ state.at = caller[c].at /\ state.key = caller[c].key
  BY <1>1 DEF CacheInv, CacheTypeOK, CallerStates
<1>3. state.at = "waiting" => flight[state.key] # NoFlight
  BY <1>2 DEF CacheInv, WaitersHaveFlight
<1>4. caller' = [caller EXCEPT ![c] = state]
  BY DEF HangUp
<1> QED BY <1>1, <1>2, <1>3, <1>4, CallerFramed DEF HangUp

LEMMA JoinKeeps ==
    ASSUME CacheInv, NEW c \in Callers, Join(c)
    PROVE  CacheInv'
<1> DEFINE k     == caller[c].key
           state == [caller[c] EXCEPT !.at = "waiting"]
<1>1. caller[c].at = "missed" /\ caller[c] # NotAsking /\ k \in Keys
  BY RequestTyped DEF Join, NotAsking, CacheInv
<1>2. state \in CallerStates /\ state.at = "waiting" /\ state.key = k
  BY <1>1 DEF CacheInv, CacheTypeOK, CallerStates
<1>3. caller' = [caller EXCEPT ![c] = state] /\ UNCHANGED <<now, truth, lastTrue, entries>>
  BY DEF Join
<1>4. \/ flight[k] # NoFlight /\ flight' = flight
      \/ /\ flight[k] = NoFlight
         /\ flight' = [flight EXCEPT ![k] = [at |-> "check", leader |-> c]]
  BY DEF Join
<1> HIDE DEF k, state
<1>5. CASE flight[k] # NoFlight /\ flight' = flight
  BY <1>2, <1>3, <1>5, CallerFramed
<1>6. CASE /\ flight[k] = NoFlight
           /\ flight' = [flight EXCEPT ![k] = [at |-> "check", leader |-> c]]
  <2>1. /\ flight'[k] = [at |-> "check", leader |-> c]
        /\ \A l \in Keys \ {k} : flight'[l] = flight[l]
    BY <1>1, <1>6 DEF CacheInv, CacheTypeOK, k
  <2>2. CacheTypeOK'
    BY <1>2, <1>3, <1>6 DEF CacheInv, CacheTypeOK, Flights
  <2>3. TruthIsNow' /\ EntriesAreRecent' /\ SizeIsBounded'
    BY <1>3, EntriesFramed DEF CacheInv, TruthIsNow
  <2>4. LoadsAreRecent' /\ LoadsAreNeeded'
    BY <1>3, <2>1 DEF CacheInv, LoadsAreRecent, LoadsAreNeeded, Fresh
  <2>5. AnswersAreRecent'
    BY <1>2, <1>3 DEF CacheInv, CacheTypeOK, AnswersAreRecent
  <2>6. flight'[k] # NoFlight
    BY <2>1 DEF NoFlight
  <2>7. WaitersHaveFlight'
    BY <1>2, <1>3, <2>1, <2>6, RequestTyped DEF CacheInv, CacheTypeOK, WaitersHaveFlight, NotAsking
  <2> QED BY <2>2, <2>3, <2>4, <2>5, <2>7 DEF CacheInv
<1> QED BY <1>4, <1>5, <1>6

-----------------------------------------------------------------------------
(* The flight of a host. *)
LEMMA LandKeeps ==
    ASSUME CacheInv, NEW k \in Keys, NEW said \in CacheAnswers,
           flight[k] # NoFlight, Land(k, said),
           UNCHANGED <<now, truth, lastTrue, entries>>,
           said \in Truths => now <= lastTrue[k][said] + Life(said) + Slowest
    PROVE  CacheInv'
<1>1. \A c \in Callers :
         IF caller[c].at = "waiting" /\ caller[c].key = k
         THEN caller'[c] = Given(c, said) ELSE caller'[c] = caller[c]
  BY DEF Land
<1>2. flight' = [flight EXCEPT ![k] = NoFlight]
  BY DEF Land
<1>3. \A l \in Keys : flight'[l] = IF l = k THEN NoFlight ELSE flight[l]
  BY <1>2 DEF CacheInv, CacheTypeOK
<1>4. CacheTypeOK'
  <2>1. flight' \in [Keys -> Flights]
    BY <1>2 DEF CacheInv, CacheTypeOK, Flights
  <2>2. ASSUME NEW c \in Callers PROVE caller'[c] \in CallerStates
    <3>1. CASE caller[c].at = "waiting" /\ caller[c].key = k
      <4>1. caller[c].key \in Keys /\ caller[c].gone \in BOOLEAN /\ now \in Times
        BY <3>1, RequestTyped DEF NotAsking, CacheInv, CacheTypeOK
      <4>2. Given(c, said) \in CallerStates
        BY <4>1 DEF Given, CallerStates
      <4> QED BY <1>1, <3>1, <4>2
    <3>2. CASE ~(caller[c].at = "waiting" /\ caller[c].key = k)
      BY <1>1, <3>2 DEF CacheInv, CacheTypeOK
    <3> QED BY <3>1, <3>2
  <2>3. caller' \in [Callers -> CallerStates]
    BY <2>2 DEF Land
  <2> QED BY <2>1, <2>3 DEF CacheInv, CacheTypeOK
<1>5. TruthIsNow' /\ EntriesAreRecent' /\ SizeIsBounded'
  BY EntriesFramed DEF CacheInv, TruthIsNow
<1>6. LoadsAreRecent' /\ LoadsAreNeeded'
  BY <1>3 DEF CacheInv, LoadsAreRecent, LoadsAreNeeded, Fresh, NoFlight
<1>7. AnswersAreRecent'
  <2> SUFFICES ASSUME NEW c \in Callers, caller'[c].at = "done", caller'[c].answer \in Truths
               PROVE  caller'[c].when <= lastTrue[caller'[c].key][caller'[c].answer]
                                            + Life(caller'[c].answer) + Slowest
    BY DEF AnswersAreRecent
  <2>1. CASE caller[c].at = "waiting" /\ caller[c].key = k
    <3>1. caller'[c] = Given(c, said)
      BY <1>1, <2>1
    <3>2. caller'[c].answer = said /\ caller'[c].key = k /\ caller'[c].when = now
      BY <2>1, <3>1 DEF Given
    <3> QED BY <3>2
  <2>2. CASE ~(caller[c].at = "waiting" /\ caller[c].key = k)
    BY <1>1, <2>2 DEF CacheInv, AnswersAreRecent
  <2> QED BY <2>1, <2>2
<1>8. WaitersHaveFlight'
  <2> SUFFICES ASSUME NEW c \in Callers, caller'[c].at = "waiting"
               PROVE  flight'[caller'[c].key] # NoFlight
    BY DEF WaitersHaveFlight
  <2>1. ~(caller[c].at = "waiting" /\ caller[c].key = k)
    <3>1. Given(c, said).at = "done"
      BY DEF Given
    <3> QED BY <1>1, <3>1
  <2>2. caller'[c] = caller[c] /\ caller[c].key # k
    BY <1>1, <2>1
  <2>3. caller[c].key \in Keys
    BY <2>2, RequestTyped DEF NotAsking, CacheInv
  <2> QED BY <1>3, <2>2, <2>3 DEF CacheInv, WaitersHaveFlight
<1> QED BY <1>4, <1>5, <1>6, <1>7, <1>8 DEF CacheInv

(* A flight that only moves on. *)
LEMMA FlightFramed ==
    ASSUME CacheInv, NEW k \in Keys, NEW state \in Flights, state # NoFlight,
           flight' = [flight EXCEPT ![k] = state],
           UNCHANGED <<now, truth, lastTrue, entries, caller>>,
           state.at \in {"load", "store"} => ~Fresh(k),
           state.at \in {"store", "deliver"} =>
               /\ now <= state.read + Slowest
               /\ state.answer \in Truths => state.read <= lastTrue[k][state.answer]
    PROVE  CacheInv'
<1>1. \A l \in Keys : flight'[l] = IF l = k THEN state ELSE flight[l]
  BY DEF CacheInv, CacheTypeOK
<1>2. CacheTypeOK'
  BY DEF CacheInv, CacheTypeOK
<1>3. TruthIsNow' /\ EntriesAreRecent' /\ SizeIsBounded' /\ AnswersAreRecent'
  BY EntriesFramed, AnswersFramed DEF CacheInv, TruthIsNow
<1>4. LoadsAreRecent' /\ LoadsAreNeeded'
  BY <1>1 DEF CacheInv, LoadsAreRecent, LoadsAreNeeded, Fresh
<1>5. WaitersHaveFlight'
  BY <1>1, RequestTyped DEF CacheInv, WaitersHaveFlight, NotAsking
<1> QED BY <1>2, <1>3, <1>4, <1>5 DEF CacheInv

LEMMA CheckKeeps ==
    ASSUME CacheInv, NEW k \in Keys, Check(k)
    PROVE  CacheInv'
<1>1. flight[k].at = "check" /\ flight[k] # NoFlight
  BY DEF Check, NoFlight
<1>2. CASE Fresh(k)
  <2>1. /\ entries[k].answer \in CacheAnswers /\ entries[k].expires \in Nat
        /\ now \in Nat /\ now <= entries[k].expires
    BY <1>2, EntryTyped, CacheAssumption DEF Fresh, CacheInv, CacheTypeOK, Times
  <2>2. ASSUME entries[k].answer \in Truths
        PROVE  now <= lastTrue[k][entries[k].answer] + Life(entries[k].answer) + Slowest
    <3>1. lastTrue[k][entries[k].answer] \in Int
      BY <2>2, CacheAssumption DEF CacheInv, CacheTypeOK, Times, Never
    <3>2. entries[k].expires <= lastTrue[k][entries[k].answer] + Life(entries[k].answer) + Slowest
      BY <1>2, <2>2 DEF CacheInv, EntriesAreRecent, Fresh
    <3> QED BY <2>1, <3>1, <3>2, LifeTyped, CacheAssumption
  <2> QED BY <1>1, <1>2, <2>1, <2>2, LandKeeps DEF Check
<1>3. CASE ~Fresh(k)
  <2> DEFINE state == [flight[k] EXCEPT !.at = "load"]
  <2>1. state \in Flights /\ state.at = "load" /\ state # NoFlight
    BY <1>1 DEF CacheInv, CacheTypeOK, Flights, NoFlight
  <2>2. flight' = [flight EXCEPT ![k] = state]
    BY <1>3 DEF Check
  <2> QED BY <1>3, <2>1, <2>2, FlightFramed DEF Check
<1> QED BY <1>2, <1>3

LEMMA LoadKeeps ==
    ASSUME CacheInv, NEW k \in Keys, Load(k)
    PROVE  CacheInv'
<1>1. flight[k].at = "load" /\ flight[k] # NoFlight
  BY DEF Load, NoFlight
<1>2. PICK said \in {truth[k], Failed, QueryCancelled} :
        flight' = [flight EXCEPT ![k] = Loaded(k, said)]
  BY DEF Load
<1>3. truth[k] \in Truths /\ now \in Times /\ flight[k].leader \in Callers
  BY <1>1, FlightTyped DEF CacheInv, CacheTypeOK
<1>4. /\ Loaded(k, said) \in Flights /\ Loaded(k, said) # NoFlight
      /\ Loaded(k, said).at = "store" /\ Loaded(k, said).answer = said
      /\ Loaded(k, said).read = now
  BY <1>3 DEF Loaded, Flights, CacheAnswers, NoFlight
<1>5. now <= now + Slowest
  BY <1>3, CacheAssumption DEF Times
<1>6. said \in Truths => now <= lastTrue[k][said]
  <2>1. said \in Truths => said = truth[k]
    BY CacheAssumption DEF Truths, NotFound, Failed, QueryCancelled
  <2>2. lastTrue[k][truth[k]] = now
    BY DEF CacheInv, TruthIsNow
  <2> QED BY <1>3, <2>1, <2>2 DEF Times
<1>7. ~Fresh(k)
  BY <1>1 DEF CacheInv, LoadsAreNeeded
<1> QED BY <1>2, <1>4, <1>5, <1>6, <1>7, FlightFramed DEF Load

(* What is left of the entries when one more must fit. *)
LEMMA RoomIsMade ==
    ASSUME CacheInv
    PROVE  /\ Room \in [Keys -> CacheEntries]
           /\ \A k \in Keys : Room[k] = NotHeld \/ Room[k] = entries[k]
           /\ Cardinality({k \in Keys : Room[k] # NotHeld}) < MaxEntries
<1> DEFINE live == {k \in Keys : Fresh(k)}
           some == [k \in Keys |-> IF k \in live THEN entries[k] ELSE NotHeld]
           none == [k \in Keys |-> NotHeld]
<1>1. entries \in [Keys -> CacheEntries] /\ NotHeld \in CacheEntries
  BY DEF CacheInv, CacheTypeOK, CacheEntries
<1>2. CASE Cardinality(InCache) < MaxEntries
  BY <1>1, <1>2 DEF Room, InCache
<1>3. CASE ~(Cardinality(InCache) < MaxEntries) /\ Cardinality(live) < MaxEntries
  <2>1. Room = some
    BY <1>3 DEF Room
  <2>2. {k \in Keys : some[k] # NotHeld} = live
    BY DEF Fresh
  <2> QED BY <1>1, <1>3, <2>1, <2>2
<1>4. CASE ~(Cardinality(InCache) < MaxEntries) /\ ~(Cardinality(live) < MaxEntries)
  <2>1. Room = none
    BY <1>4 DEF Room
  <2>2. {k \in Keys : none[k] # NotHeld} = {}
    OBVIOUS
  <2> QED BY <1>1, <2>1, <2>2, FS_EmptySet, CacheAssumption
<1> QED BY <1>2, <1>3, <1>4

LEMMA StoreKeeps ==
    ASSUME CacheInv, NEW k \in Keys, Store(k)
    PROVE  CacheInv'
<1> DEFINE said == flight[k].answer
           new    == [answer |-> said, expires |-> now + Life(said)]
           state  == [flight[k] EXCEPT !.at = "deliver"]
<1>1. /\ flight[k].at = "store" /\ flight[k] # NoFlight
      /\ entries' = [Room EXCEPT ![k] = new]
      /\ flight' = [flight EXCEPT ![k] = state]
      /\ UNCHANGED <<now, truth, lastTrue, caller>>
  BY DEF Store, NoFlight
<1>2. said \in CacheAnswers /\ flight[k].read \in Times /\ now \in Times
  BY <1>1, FlightTyped DEF CacheInv, CacheTypeOK
<1>3. new \in CacheEntries
  BY <1>2, LifeTyped, CacheAssumption DEF CacheEntries, Times
<1>4. state \in Flights /\ state # NoFlight /\ state.at = "deliver"
      /\ state.answer = said /\ state.read = flight[k].read
  BY <1>1 DEF CacheInv, CacheTypeOK, Flights, NoFlight
<1>5. new.answer = said /\ new.expires = now + Life(said)
  OBVIOUS
<1> HIDE DEF new, state, said
<1>6. \A l \in Keys : flight'[l] = IF l = k THEN state ELSE flight[l]
  BY <1>1 DEF CacheInv, CacheTypeOK
<1>7. \A l \in Keys :
         IF l = k THEN entries'[l] = new
         ELSE entries'[l] = NotHeld \/ entries'[l] = entries[l]
  BY <1>1, RoomIsMade
<1>8. CacheTypeOK'
  <2>1. entries' \in [Keys -> CacheEntries]
    BY <1>1, <1>3, RoomIsMade
  <2> QED BY <1>1, <1>4, <2>1 DEF CacheInv, CacheTypeOK
<1>9. TruthIsNow' /\ AnswersAreRecent'
  BY <1>1, AnswersFramed DEF CacheInv, TruthIsNow
<1>10. EntriesAreRecent'
  <2> SUFFICES ASSUME NEW l \in Keys, entries'[l] # NotHeld, entries'[l].answer \in Truths
               PROVE  entries'[l].expires <= lastTrue[l][entries'[l].answer]
                                                + Life(entries'[l].answer) + Slowest
    BY <1>1 DEF EntriesAreRecent
  <2>1. CASE l = k
    <3>1. entries'[l].answer = said /\ entries'[l].expires = now + Life(said)
      BY <1>5, <1>7, <2>1
    <3>2. now <= flight[k].read + Slowest /\ flight[k].read <= lastTrue[k][said]
      BY <1>1, <3>1 DEF CacheInv, LoadsAreRecent, said
    <3>3. lastTrue[k][said] \in Int
      BY <3>1, CacheAssumption DEF CacheInv, CacheTypeOK, Times, Never
    <3> QED BY <1>2, <2>1, <3>1, <3>2, <3>3, LifeTyped, CacheAssumption DEF Times
  <2>2. CASE l # k
    BY <1>7, <2>2 DEF CacheInv, EntriesAreRecent
  <2> QED BY <2>1, <2>2
<1>11. LoadsAreRecent'
  BY <1>1, <1>4, <1>6 DEF CacheInv, LoadsAreRecent, said
<1>12. LoadsAreNeeded'
  BY <1>1, <1>4, <1>6, <1>7 DEF CacheInv, LoadsAreNeeded, Fresh
<1>13. SizeIsBounded'
  <2> DEFINE kept == {l \in Keys : Room[l] # NotHeld}
  <2>1. Cardinality(kept) < MaxEntries /\ kept \in SUBSET Keys
    BY RoomIsMade
  <2>2. InCache' \subseteq kept \cup {k}
    BY <1>1, RoomIsMade DEF InCache
  <2>3. /\ IsFiniteSet(kept) /\ IsFiniteSet(kept \cup {k})
        /\ Cardinality(kept \cup {k}) <= Cardinality(kept) + 1
        /\ Cardinality(kept) \in Nat /\ Cardinality(kept \cup {k}) \in Nat
    BY <2>1, KeysCounted, FS_AddElement
  <2>4. Cardinality(InCache') <= Cardinality(kept \cup {k}) /\ Cardinality(InCache') \in Nat
    BY <2>2, <2>3, FS_Subset, FS_CardinalityType
  <2> QED BY <2>1, <2>3, <2>4, CacheAssumption DEF SizeIsBounded
<1>14. WaitersHaveFlight'
  BY <1>1, <1>4, <1>6, RequestTyped DEF CacheInv, WaitersHaveFlight, NotAsking
<1> QED BY <1>8, <1>9, <1>10, <1>11, <1>12, <1>13, <1>14 DEF CacheInv

LEMMA DeliverKeeps ==
    ASSUME CacheInv, NEW k \in Keys, HandOver(k)
    PROVE  CacheInv'
<1>1. flight[k].at = "deliver" /\ flight[k] # NoFlight
  BY DEF HandOver, NoFlight
<1>2. flight[k].answer \in CacheAnswers /\ flight[k].read \in Times /\ now \in Times
  BY <1>1, FlightTyped DEF CacheInv, CacheTypeOK
<1>3. ASSUME flight[k].answer \in Truths
      PROVE  now <= lastTrue[k][flight[k].answer] + Life(flight[k].answer) + Slowest
  <2>1. now <= flight[k].read + Slowest /\ flight[k].read <= lastTrue[k][flight[k].answer]
    BY <1>1, <1>3 DEF CacheInv, LoadsAreRecent
  <2>2. lastTrue[k][flight[k].answer] \in Int
    BY <1>3, CacheAssumption DEF CacheInv, CacheTypeOK, Times, Never
  <2> QED BY <1>2, <2>1, <2>2, LifeTyped, CacheAssumption DEF Times
<1> QED BY <1>1, <1>2, <1>3, LandKeeps DEF HandOver

-----------------------------------------------------------------------------
(* The world around it.  An answer that was true stays dated when it was. *)
LEMMA DatesGrow ==
    ASSUME CacheInv, \A k \in Keys : \A v \in Truths : lastTrue[k][v] <= lastTrue'[k][v],
           lastTrue' \in [Keys -> [Truths -> Times \cup {Never}]],
           UNCHANGED <<entries, flight, caller>>, now <= now', now' \in Times,
           \A k \in Keys : flight[k].at \in {"store", "deliver"} =>
               now' <= flight[k].read + Slowest
    PROVE  /\ EntriesAreRecent' /\ LoadsAreRecent' /\ LoadsAreNeeded'
           /\ SizeIsBounded' /\ AnswersAreRecent' /\ WaitersHaveFlight'
<1>1. \A k \in Keys : \A v \in Truths : lastTrue[k][v] \in Int /\ lastTrue'[k][v] \in Int
  BY CacheAssumption DEF CacheInv, CacheTypeOK, Times, Never
<1>2. EntriesAreRecent'
  BY <1>1, EntryTyped, LifeTyped, CacheAssumption DEF CacheInv, EntriesAreRecent
<1>3. LoadsAreRecent'
  <2> SUFFICES ASSUME NEW k \in Keys, flight[k].at \in {"store", "deliver"},
                      flight[k].answer \in Truths
               PROVE  flight[k].read <= lastTrue'[k][flight[k].answer]
    BY DEF LoadsAreRecent
  <2>1. flight[k].read \in Int
    BY FlightTyped, CacheAssumption DEF CacheInv, NoFlight, Times
  <2>2. flight[k].read <= lastTrue[k][flight[k].answer]
    BY DEF CacheInv, LoadsAreRecent
  <2> QED BY <1>1, <2>1, <2>2
<1>4. LoadsAreNeeded'
  BY EntryTyped, CacheAssumption DEF CacheInv, CacheTypeOK, LoadsAreNeeded, Fresh, Times
<1>5. SizeIsBounded' /\ WaitersHaveFlight'
  BY DEF CacheInv, SizeIsBounded, InCache, WaitersHaveFlight
<1>6. AnswersAreRecent'
  <2> SUFFICES ASSUME NEW c \in Callers, caller[c].at = "done", caller[c].answer \in Truths
               PROVE  caller[c].when <= lastTrue'[caller[c].key][caller[c].answer]
                                            + Life(caller[c].answer) + Slowest
    BY DEF AnswersAreRecent
  <2>1. caller[c].key \in Keys /\ caller[c].when \in Int
    BY RequestTyped, CacheAssumption DEF CacheInv, NotAsking, Times
  <2>2. caller[c].when <= lastTrue[caller[c].key][caller[c].answer]
                              + Life(caller[c].answer) + Slowest
    BY DEF CacheInv, AnswersAreRecent
  <2> QED BY <1>1, <2>1, <2>2, LifeTyped, CacheAssumption
<1> QED BY <1>2, <1>3, <1>4, <1>5, <1>6

LEMMA ChangeKeeps ==
    ASSUME CacheInv, NEW k \in Keys, NEW said \in Truths, Change(k, said)
    PROVE  CacheInv'
<1>1. /\ truth' = [truth EXCEPT ![k] = said]
      /\ lastTrue' = [lastTrue EXCEPT ![k][said] = now]
      /\ UNCHANGED <<now, entries, flight, caller>>
      /\ CacheTypeOK
  BY DEF Change, CacheInv
<1>2. /\ lastTrue' \in [Keys -> [Truths -> Times \cup {Never}]]
      /\ truth' \in [Keys -> Truths] /\ now \in Times
  BY <1>1 DEF CacheTypeOK
<1>3. \A l \in Keys : \A v \in Truths :
         lastTrue'[l][v] = IF l = k /\ v = said THEN now ELSE lastTrue[l][v]
  BY <1>1 DEF CacheTypeOK
<1>4. \A l \in Keys : \A v \in Truths : lastTrue[l][v] <= lastTrue'[l][v]
  BY <1>1, <1>2, <1>3, CacheAssumption DEF CacheInv, CacheTypeOK, TruthIsNow, Times, Never
<1>5. now <= now'
  BY <1>1, <1>2, CacheAssumption DEF Times
<1>6. CacheTypeOK'
  BY <1>1, <1>2 DEF CacheTypeOK
<1>7. TruthIsNow'
  BY <1>1, <1>2, <1>3, CacheAssumption DEF CacheInv, CacheTypeOK, TruthIsNow, Times
<1>8. \A l \in Keys : flight[l].at \in {"store", "deliver"} =>
          now' <= flight[l].read + Slowest
  BY <1>1 DEF CacheInv, LoadsAreRecent
<1> QED BY <1>1, <1>2, <1>4, <1>5, <1>6, <1>7, <1>8, DatesGrow DEF CacheInv

LEMMA InvalidateKeeps ==
    ASSUME CacheInv, NEW k \in Keys, Invalidate(k)
    PROVE  CacheInv'
<1>1. /\ UNCHANGED <<now, truth, lastTrue, flight, caller>>
      /\ entries' = [entries EXCEPT ![k] = NotHeld]
  BY DEF Invalidate
<1>2. \A l \in Keys : entries'[l] = IF l = k THEN NotHeld ELSE entries[l]
  BY <1>1 DEF CacheInv, CacheTypeOK
<1>3. CacheTypeOK'
  BY <1>1 DEF CacheInv, CacheTypeOK, CacheEntries
<1>4. /\ TruthIsNow' /\ EntriesAreRecent' /\ LoadsAreRecent' /\ LoadsAreNeeded'
      /\ AnswersAreRecent' /\ WaitersHaveFlight'
  BY <1>1, <1>2 DEF CacheInv, TruthIsNow, EntriesAreRecent, LoadsAreRecent,
     LoadsAreNeeded, Fresh, AnswersAreRecent, WaitersHaveFlight
<1>5. SizeIsBounded'
  <2>1. InCache' \subseteq InCache /\ InCache \in SUBSET Keys
    BY <1>2 DEF InCache
  <2>2. Cardinality(InCache') <= Cardinality(InCache) /\ Cardinality(InCache') \in Nat
        /\ Cardinality(InCache) \in Nat
    BY <2>1, KeysCounted, FS_Subset, FS_CardinalityType
  <2> QED BY <2>2, CacheAssumption DEF CacheInv, SizeIsBounded
<1> QED BY <1>3, <1>4, <1>5 DEF CacheInv

LEMMA TickKeeps ==
    ASSUME CacheInv, Tick
    PROVE  CacheInv'
<1>1. /\ now < MaxTime /\ now' = now + 1
      /\ lastTrue' = [k \in Keys |-> [lastTrue[k] EXCEPT ![truth[k]] = now + 1]]
      /\ UNCHANGED <<truth, entries, flight, caller>>
      /\ CacheTypeOK /\ now \in Times
  BY DEF Tick, CacheInv, CacheTypeOK
<1>2. now' \in Times /\ now <= now'
  BY <1>1, CacheAssumption DEF Times
<1>3. lastTrue' \in [Keys -> [Truths -> Times \cup {Never}]]
  BY <1>1, <1>2 DEF CacheTypeOK
<1>4. \A k \in Keys : \A v \in Truths :
         lastTrue'[k][v] = IF v = truth[k] THEN now + 1 ELSE lastTrue[k][v]
  BY <1>1 DEF CacheTypeOK
<1>5. \A k \in Keys : \A v \in Truths : lastTrue[k][v] <= lastTrue'[k][v]
  BY <1>1, <1>4, CacheAssumption DEF CacheInv, CacheTypeOK, TruthIsNow, Times, Never
<1>6. CacheTypeOK'
  BY <1>1, <1>2, <1>3 DEF CacheTypeOK
<1>7. TruthIsNow'
  BY <1>1, <1>4, CacheAssumption DEF CacheInv, CacheTypeOK, TruthIsNow, Times, Never
<1>8. \A k \in Keys : flight[k].at \in {"store", "deliver"} =>
          now' <= flight[k].read + Slowest
  <2> SUFFICES ASSUME NEW k \in Keys, flight[k].at \in {"store", "deliver"}
               PROVE  now + 1 <= flight[k].read + Slowest
    BY <1>1
  <2>1. flight[k].read \in Nat /\ now < flight[k].read + Slowest
    BY <1>1, FlightTyped, CacheAssumption DEF Tick, NoFlight, Times
  <2> QED BY <1>1, <2>1, CacheAssumption DEF Times
<1> QED BY <1>1, <1>2, <1>3, <1>5, <1>6, <1>7, <1>8, DatesGrow DEF CacheInv

-----------------------------------------------------------------------------
LEMMA CacheStep == CacheInv /\ [CacheNext]_cacheVars => CacheInv'
<1> SUFFICES ASSUME CacheInv, [CacheNext]_cacheVars PROVE CacheInv'
  OBVIOUS
<1>1. ASSUME NEW c \in Callers,
             \/ \E k \in Keys : Look(c, k)
             \/ Join(c) \/ TakeAnswer(c) \/ HangUp(c)
      PROVE  CacheInv'
  BY <1>1, LookKeeps, JoinKeeps, ReturnKeeps, LeaveKeeps
<1>2. ASSUME NEW k \in Keys,
             \/ Check(k) \/ Load(k) \/ Store(k) \/ HandOver(k)
             \/ \E said \in Truths : Change(k, said)
             \/ Invalidate(k)
      PROVE  CacheInv'
  BY <1>2, CheckKeeps, LoadKeeps, StoreKeeps, DeliverKeeps, ChangeKeeps, InvalidateKeeps
<1>3. CASE Tick
  BY <1>3, TickKeeps
<1>4. CASE UNCHANGED cacheVars
  <2>1. UNCHANGED <<now, truth, lastTrue, entries, flight, caller>>
    BY <1>4 DEF cacheVars
  <2>2. CacheTypeOK' /\ TruthIsNow' /\ WaitersHaveFlight'
    BY <2>1 DEF CacheInv, CacheTypeOK, TruthIsNow, WaitersHaveFlight
  <2> QED BY <2>1, <2>2, EntriesFramed, FlightsFramed, AnswersFramed DEF CacheInv
<1> QED BY <1>1, <1>2, <1>3, <1>4 DEF CacheNext

(* Whatever the settings and the requests, the inductive invariant holds of
   every state the cache reaches.                                           *)
THEOREM CacheHolds == CacheSpec => []CacheInv
BY CacheStarts, CacheStep, PTL DEF CacheSpec

(* The database is asked only for what the cache does not hold. *)
THEOREM OneLoad == CacheSpec => []LoadsAreNeeded
<1>1. CacheInv => LoadsAreNeeded
  BY DEF CacheInv
<1> QED BY <1>1, CacheHolds, PTL

(* The map stays within its bound. *)
THEOREM BoundedSize == CacheSpec => []SizeIsBounded
<1>1. CacheInv => SizeIsBounded
  BY DEF CacheInv
<1> QED BY <1>1, CacheHolds, PTL

(* No answer is older than its life and a load allow. *)
THEOREM BoundedStaleness == CacheSpec => []AnswersAreRecent
<1>1. CacheInv => AnswersAreRecent
  BY DEF CacheInv
<1> QED BY <1>1, CacheHolds, PTL

(* Nobody is left waiting for a flight that has landed. *)
THEOREM NobodyIsLeft == CacheSpec => []WaitersHaveFlight
<1>1. CacheInv => WaitersHaveFlight
  BY DEF CacheInv
<1> QED BY <1>1, CacheHolds, PTL

-----------------------------------------------------------------------------
(* The desks. *)

(* Looking at one desk at a time loses nothing: whichever desk a behaviour of
   the classroom is about, each part of it is a behaviour of its own module. *)
THEOREM ClassroomDesks ==
    ClassroomSpec => QuizSpec /\ CacheSpec /\ SyllabusSpec /\ LoopSpec /\ InboxSpec
<1>1. ClassroomInit =>
        QuizInit /\ CacheInit /\ SyllabusInit /\ LoopInit /\ InboxInit
  BY DEF ClassroomInit
<1>2. [ClassroomNext]_classroomVars => [QuizNext]_quizVars
  BY DEF ClassroomNext, classroomVars, AtQuiz, AtHost, AtSyllabus, AtRequirements, AtInbox
<1>3. [ClassroomNext]_classroomVars => [CacheNext]_cacheVars
  BY DEF ClassroomNext, classroomVars, AtQuiz, AtHost, AtSyllabus, AtRequirements, AtInbox
<1>4. [ClassroomNext]_classroomVars => [SyllabusNext]_syllabusVars
  BY DEF ClassroomNext, classroomVars, AtQuiz, AtHost, AtSyllabus, AtRequirements, AtInbox
<1>5. [ClassroomNext]_classroomVars => [LoopNext]_loopVars
  BY DEF ClassroomNext, classroomVars, AtQuiz, AtHost, AtSyllabus, AtRequirements, AtInbox
<1>6. [ClassroomNext]_classroomVars => [InboxNext]_inboxVars
  BY DEF ClassroomNext, classroomVars, AtQuiz, AtHost, AtSyllabus, AtRequirements, AtInbox
<1> QED BY <1>1, <1>2, <1>3, <1>4, <1>5, <1>6, PTL
        DEF ClassroomSpec, QuizSpec, CacheSpec, SyllabusSpec, LoopSpec, InboxSpec

(* So all that the run of the classroom asks of its states holds of any
   classroom: of as many questions, hosts, topics, courses and people.      *)
THEOREM ClassroomKept ==
    ClassroomSpec => [](/\ ClassroomTypeOK
                        /\ GradingHasJob /\ GradedMeansMarked
                        /\ LoadsAreNeeded /\ SizeIsBounded
                        /\ AnswersAreRecent /\ WaitersHaveFlight
                        /\ MailedOnce)
<1>1. /\ CacheInv => /\ CacheTypeOK /\ LoadsAreNeeded /\ SizeIsBounded
                     /\ AnswersAreRecent /\ WaitersHaveFlight
      /\ SyllabusInv => SyllabusTypeOK
      /\ LoopInv => LoopTypeOK
      /\ InboxInv => InboxTypeOK /\ MailedOnce
  BY DEF CacheInv, SyllabusInv, LoopInv, InboxInv
<1>2. /\ QuizTypeOK /\ CacheTypeOK /\ SyllabusTypeOK /\ LoopTypeOK /\ InboxTypeOK
      => ClassroomTypeOK
  BY DEF ClassroomTypeOK
<1> QED BY <1>1, <1>2, ClassroomDesks, AttemptsTyped, JobIsKept, VerdictIsMarked,
           CacheHolds, SyllabusHolds, LoopHolds, InboxHolds, PTL
=============================================================================

------------------------- MODULE ProjectPatchProofs -------------------------
(***************************************************************************)
(* Theorems about ProjectPatch, for every set of paths, patches, previews  *)
(* and requests, and any number of edits and failures.                     *)
(***************************************************************************)
EXTENDS ProjectPatch, RecursionLemmas, SequenceTheorems, FiniteSetTheorems

-----------------------------------------------------------------------------
(* Texts.                                                                  *)

LEMMA ConcatenatedTexts ==
    ASSUME NEW s \in Texts, NEW t \in Texts
    PROVE  /\ s \o t \in Texts
           /\ Len(s \o t) = Len(s) + Len(t)
           /\ \A k \in 1 .. Len(s) + Len(t) :
                  (s \o t)[k] = IF k <= Len(s) THEN s[k] ELSE t[k - Len(s)]
BY DEF Texts

LEMMA PartsOfTexts ==
    ASSUME NEW t \in Texts, NEW m \in Nat, NEW n \in 0 .. Len(t), m >= 1, m <= n + 1
    PROVE  /\ SubSeq(t, m, n) \in Texts
           /\ Len(SubSeq(t, m, n)) = n + 1 - m
           /\ \A k \in 1 .. n + 1 - m : SubSeq(t, m, n)[k] = t[m + k - 1]
BY DEF Texts

LEMMA CutIsInside ==
    ASSUME NEW t \in Texts, NEW i \in Int
    PROVE  Cut(t, i) \in 0 .. Len(t)
<1>1. Len(t) \in Nat
  BY DEF Texts
<1>2. CASE i < -Len(t)
  BY <1>1, <1>2 DEF Cut
<1>3. CASE i \in -Len(t) .. -1
  BY <1>1, <1>3 DEF Cut
<1>4. CASE i \in 0 .. Len(t)
  BY <1>1, <1>4 DEF Cut
<1>5. CASE i > Len(t)
  BY <1>1, <1>5 DEF Cut
<1> QED BY <1>1, <1>2, <1>3, <1>4, <1>5

(* Whatever a hunk names, it leaves a text.                                *)
LEMMA SpliceIsText ==
    ASSUME NEW t \in Texts, NEW hunk \in Hunks
    PROVE  Splice(t, hunk) \in Texts
<1>1. hunk.start - 1 \in Int /\ hunk.start - 1 + hunk.count \in Int /\ hunk.new \in Texts
  BY DEF Hunks
<1>2. Len(t) \in Nat
  BY DEF Texts
<1>3. Before(t, hunk.start - 1) \in Texts
  <2> DEFINE cut == Cut(t, hunk.start - 1)
  <2>1. cut \in 0 .. Len(t)
    BY <1>1, CutIsInside
  <2> HIDE DEF cut
  <2>2. SubSeq(t, 1, cut) \in Texts
    BY <1>2, <2>1, PartsOfTexts
  <2> QED BY <2>2 DEF Before, cut
<1>4. From(t, hunk.start - 1 + hunk.count) \in Texts
  <2> DEFINE cut == Cut(t, hunk.start - 1 + hunk.count)
  <2>1. cut \in 0 .. Len(t)
    BY <1>1, CutIsInside
  <2> HIDE DEF cut
  <2>2. SubSeq(t, cut + 1, Len(t)) \in Texts
    BY <1>2, <2>1, PartsOfTexts
  <2> QED BY <2>2 DEF From, cut
<1>5. Before(t, hunk.start - 1) \o hunk.new \in Texts
  BY <1>1, <1>3, ConcatenatedTexts
<1> QED BY <1>4, <1>5, ConcatenatedTexts DEF Splice

(* The recursive definition is a recursion.                                *)
LEMMA SplicesExist ==
    ASSUME NEW t \in Texts, NEW N \in Nat, NEW hunk \in [1 .. N -> Hunks]
    PROVE  \E f : /\ f \in [0 .. N -> Texts] /\ f[0] = t
                  /\ \A n \in 1 .. N : f[n] = Splice(f[n - 1], hunk[n])
<1>1. \E step \in [1 .. N -> [Texts -> Texts]] :
          \A n \in 1 .. N, text \in Texts : step[n][text] = Splice(text, hunk[n])
  <2> DEFINE splices == [n \in 1 .. N |-> [text \in Texts |-> Splice(text, hunk[n])]]
  <2>1. splices \in [1 .. N -> [Texts -> Texts]]
    BY SpliceIsText
  <2>2. \A n \in 1 .. N, text \in Texts : splices[n][text] = Splice(text, hunk[n])
    OBVIOUS
  <2> QED BY <2>1, <2>2
<1>2. PICK step \in [1 .. N -> [Texts -> Texts]] :
          \A n \in 1 .. N, text \in Texts : step[n][text] = Splice(text, hunk[n])
  BY <1>1
<1>3. PICK f \in [0 .. N -> Texts] : f[0] = t /\ \A n \in 1 .. N : f[n] = step[n][f[n - 1]]
  <2>1. Courses(Texts, t, N, step) # {}
    BY StepsExist
  <2> QED BY <2>1 DEF Courses
<1>4. ASSUME NEW n \in 1 .. N PROVE f[n] = Splice(f[n - 1], hunk[n])
  <2>1. f[n - 1] \in Texts
    OBVIOUS
  <2> QED BY <1>2, <1>3, <2>1
<1> QED BY <1>3, <1>4

LEMMA AfterHunksSteps ==
    ASSUME NEW t \in Texts, NEW hunks \in Seq(Hunks)
    PROVE  /\ AfterHunks(t, hunks) \in [0 .. Len(hunks) -> Texts]
           /\ AfterHunks(t, hunks)[0] = t
           /\ \A n \in 1 .. Len(hunks) :
                  AfterHunks(t, hunks)[n] = Splice(AfterHunks(t, hunks)[n - 1], hunks[n])
<1>1. PICK N \in Nat : N = Len(hunks)
  OBVIOUS
<1>2. \A n \in 1 .. N : hunks[n] \in Hunks
  BY <1>1
<1>3. hunks \in [1 .. N -> Hunks]
  BY <1>1
<1>5. PICK f : /\ f \in [0 .. N -> Texts] /\ f[0] = t
               /\ \A n \in 1 .. N : f[n] = Splice(f[n - 1], hunks[n])
  BY <1>3, SplicesExist
<1>6. \A n \in 1 .. N : f[n] = Splice(f[n - 1], hunks[n])
  BY <1>5
<1> DEFINE Body(g) == [n \in 0 .. N |-> IF n = 0 THEN t ELSE Splice(g[n - 1], hunks[n])]
<1>7. f = Body(f)
  <2>1. ASSUME NEW n \in 0 .. N PROVE f[n] = Body(f)[n]
    <3>1. CASE n = 0
      BY <1>1, <1>5, <3>1
    <3>2. CASE n # 0
      <4>1. n \in 1 .. N /\ n - 1 \in 0 .. N
        BY <1>1, <3>2
      <4> QED BY <1>6, <3>2, <4>1
    <3> QED BY <3>1, <3>2
  <2> QED BY <1>5, <2>1
<1> DEFINE after == AfterHunks(t, hunks)
<1>8. after = Body(after)
  BY <1>1, <1>7 DEF AfterHunks
<1> HIDE DEF after
<1>9. after[0] = t /\ \A n \in 1 .. N : after[n] = Splice(after[n - 1], hunks[n])
  <2>1. after[0] = t
    BY <1>1, <1>8
  <2>2. ASSUME NEW n \in 1 .. N PROVE after[n] = Splice(after[n - 1], hunks[n])
    <3>1. n \in 0 .. N /\ n # 0
      BY <1>1
    <3> QED BY <1>8, <3>1
  <2> QED BY <2>1, <2>2
<1> DEFINE T == {n \in Nat : n <= N => after[n] \in Texts}
<1>10. 0 \in T
  BY <1>9
<1>11. ASSUME NEW n \in Nat, n \in T PROVE n + 1 \in T
  <2>1. ASSUME n + 1 <= N PROVE after[n + 1] \in Texts
    <3>1. after[n] \in Texts
      BY <1>1, <1>11, <2>1
    <3>2. n + 1 \in 1 .. N /\ (n + 1) - 1 = n
      BY <1>1, <2>1
    <3>3. after[n + 1] = Splice(after[n], hunks[n + 1])
      BY <1>9, <3>2
    <3> QED BY <1>2, <3>1, <3>2, <3>3, SpliceIsText
  <2> QED BY <2>1
<1> HIDE DEF T
<1>12. Nat \subseteq T
  BY <1>10, <1>11, Induction
<1>13. \A n \in 0 .. N : after[n] \in Texts
  BY <1>1, <1>12 DEF T
<1>14. after \in [0 .. N -> Texts]
  <2> HIDE DEF Body
  <2>1. DOMAIN Body(after) = 0 .. N /\ Body(after) = [n \in 0 .. N |-> Body(after)[n]]
    BY DEF Body
  <2> QED BY <1>8, <1>13, <2>1
<1> QED BY <1>1, <1>9, <1>14 DEF after

LEMMA AppliedHunksAreText ==
    ASSUME NEW t \in Texts, NEW hunks \in Seq(Hunks)
    PROVE  apply_hunks_to_content(t, hunks) \in Texts
<1>1. Len(hunks) \in 0 .. Len(hunks)
  OBVIOUS
<1> QED BY <1>1, AfterHunksSteps DEF apply_hunks_to_content

LEMMA ReplacedIsText ==
    ASSUME NEW t \in Texts, NEW old \in Lines, NEW new \in Lines
    PROVE  ReplaceLine(t, old, new) \in Texts
<1> DEFINE places == {i \in DOMAIN t : t[i] = old}
<1>1. CASE places = {}
  BY <1>1 DEF ReplaceLine
<1>2. CASE places # {}
  <2>1. places \in SUBSET Nat
    BY DEF Texts
  <2>2. PICK first \in places : \A j \in places : first <= j
    BY <1>2, <2>1, LeastNumber
  <2> DEFINE chosen == CHOOSE i \in places : \A j \in places : i <= j
  <2>3. chosen \in places
    BY <2>2
  <2>4. ReplaceLine(t, old, new) = [t EXCEPT ![chosen] = new]
    BY <1>2 DEF ReplaceLine
  <2>5. chosen \in 1 .. Len(t)
    BY <2>3 DEF Texts
  <2> HIDE DEF chosen
  <2>6. [t EXCEPT ![chosen] = new] \in Texts
    BY <2>5, ExceptSeq DEF Texts
  <2> QED BY <2>4, <2>6
<1> QED BY <1>1, <1>2

LEMMA SectionsAreTyped ==
    ASSUME NEW section \in Sections
    PROVE  /\ section.path \in Paths
           /\ section.kind \in {"patch", "create", "replace", "fill", "delete"}
           /\ section.kind \in {"patch", "create"} => section.hunks \in Seq(Hunks)
           /\ section.kind = "replace" => section.old \in Lines /\ section.new \in Lines
           /\ section.kind = "fill" => section.new \in Texts
BY DEF Sections

LEMMA NewTextIsText ==
    ASSUME NEW section \in Sections, section.kind # "delete", NEW t \in Texts
    PROVE  NewText(section, t) \in Texts
<1>1. CASE section.kind = "fill"
  BY <1>1, SectionsAreTyped DEF NewText
<1>2. CASE section.kind = "replace"
  BY <1>2, SectionsAreTyped, ReplacedIsText DEF NewText
<1>3. CASE section.kind \in {"patch", "create"}
  BY <1>3, SectionsAreTyped, AppliedHunksAreText DEF NewText
<1> QED BY <1>1, <1>2, <1>3, SectionsAreTyped
-----------------------------------------------------------------------------
(* Types.                                                                  *)

Operations == [path : Paths, text : Texts \cup {Absent}]

Fields == {"at", "patch", "base", "creates", "todo", "plan", "preimages", "applied"}

AreRecords ==
    /\ DOMAIN requests = Requests
    /\ \A r \in Requests : /\ DOMAIN requests[r] = Fields
                           /\ DOMAIN requests[r].preimages = Paths

IsRequest(q) ==
    /\ q.at \in Stages
    /\ q.patch \in Seq(Sections)
    /\ q.creates \subseteq Paths
    /\ q.todo \subseteq Paths
    /\ q.plan \in Seq(Operations)
    /\ \A p \in Paths : q.preimages[p] \in Files \cup {Absent, None}
    /\ q.applied \in Nat

IsPreview(preview_) ==
    /\ preview_.patch \in Patches
    /\ preview_.creates \subseteq Paths
    /\ preview_.base \in [PathsOf(preview_.patch) -> Texts]
    /\ \A p \in preview_.creates \cap PathsOf(preview_.patch) : preview_.base[p] = <<>>

Typed ==
    /\ disk \in [Paths -> Files \cup {Absent}]
    /\ DOMAIN previews = Previews
    /\ \A v \in Previews : previews[v] # None => IsPreview(previews[v])
    /\ AreRecords /\ \A r \in Requests : IsRequest(requests[r])
    /\ checked \in [Requests -> [Paths -> Files \cup {Absent, None}]]
    /\ others \in [Requests -> SUBSET Paths]
    /\ edits \in 0 .. MaxEdits /\ failures \in 0 .. MaxFailures

(* Where a request is agrees with what it holds.                           *)
Staged(q) ==
    /\ q.at \in {"idle", "check"} => q.plan = <<>> /\ q.applied = 0
    /\ q.at = "idle" => q.patch = <<>> /\ q.todo = {}
    /\ q.at # "idle" => /\ q.patch \in Patches /\ q.base \in [PathsOf(q.patch) -> Texts]
                        /\ \A p \in q.creates \cap PathsOf(q.patch) : q.base[p] = <<>>
    /\ q.at = "plan" => Len(q.plan) < Len(q.patch) /\ q.applied = 0
    /\ q.at \in {"read", "write"} => q.applied < Len(q.plan)
    /\ q.at = "rollback" => q.applied > 0
    /\ q.at = "rolled_back" => q.applied = 0
    /\ q.at = "committed" => q.applied = Len(q.plan)
    /\ q.at \in {"read", "write", "rollback", "committed"} => Len(q.plan) = Len(q.patch)
    /\ q.at \in {"plan", "read", "write", "rollback", "committed", "rolled_back", "rollback_failed"}
           => q.todo = {}
    /\ q.todo \subseteq PathsOf(q.patch)
    /\ q.applied <= Len(q.plan) /\ Len(q.plan) <= Len(q.patch)
    /\ \A i \in 1 .. Len(q.plan) : q.plan[i].path = q.patch[i].path
    /\ q.at \in {"idle", "check", "plan"} => \A p \in Paths : q.preimages[p] = None
    /\ q.at \in {"read", "write", "rollback"} =>
           \A i \in 1 .. q.applied : q.preimages[q.plan[i].path] # None
    /\ q.at = "write" => q.preimages[q.plan[q.applied + 1].path] # None

Consistent == Typed /\ \A r \in Requests : Staged(requests[r])

(* A step of one request, which leaves what was asked of it.               *)
Moved(r, at, todo, plan, preimages, applied) ==
    /\ AreRecords'
    /\ \A q \in Requests \ {r} : requests'[q] = requests[q]
    /\ requests'[r].at = at
    /\ requests'[r].todo = todo
    /\ requests'[r].plan = plan
    /\ requests'[r].preimages = preimages
    /\ requests'[r].applied = applied
    /\ requests'[r].patch = requests[r].patch
    /\ requests'[r].base = requests[r].base
    /\ requests'[r].creates = requests[r].creates

LEMMA BaseIsFound ==
    ASSUME AreRecords, NEW r \in Requests, NEW p \in requests[r].todo, BaseUnchanged(r, p),
           requests' = [requests EXCEPT
                           ![r].todo = @ \ {p},
                           ![r].at = IF requests[r].todo = {p} THEN "plan" ELSE "check"]
    PROVE  Moved(r, IF requests[r].todo = {p} THEN "plan" ELSE "check", requests[r].todo \ {p},
                 requests[r].plan, requests[r].preimages, requests[r].applied)
BY DEF AreRecords, Moved, Fields

LEMMA StageMoves ==
    ASSUME AreRecords, NEW r \in Requests, NEW at, requests' = [requests EXCEPT ![r].at = at]
    PROVE  Moved(r, at, requests[r].todo, requests[r].plan, requests[r].preimages,
                 requests[r].applied)
BY DEF AreRecords, Moved, Fields

LEMMA SectionIsPlanned ==
    ASSUME AreRecords, NEW r \in Requests, NEW at, NEW operation,
           requests' = [requests EXCEPT ![r].plan = Append(@, operation), ![r].at = at]
    PROVE  Moved(r, at, requests[r].todo, Append(requests[r].plan, operation),
                 requests[r].preimages, requests[r].applied)
BY DEF AreRecords, Moved, Fields

LEMMA PreimageIsRead ==
    ASSUME AreRecords, NEW r \in Requests, NEW p, NEW file,
           requests' = [requests EXCEPT ![r].preimages[p] = file, ![r].at = "write"]
    PROVE  Moved(r, "write", requests[r].todo, requests[r].plan,
                 [requests[r].preimages EXCEPT ![p] = file], requests[r].applied)
BY DEF AreRecords, Moved, Fields

LEMMA OperationsAreCounted ==
    ASSUME AreRecords, NEW r \in Requests, NEW at, NEW applied,
           requests' = [requests EXCEPT ![r].applied = applied, ![r].at = at]
    PROVE  Moved(r, at, requests[r].todo, requests[r].plan, requests[r].preimages, applied)
BY DEF AreRecords, Moved, Fields
(* What one step makes of its request, and that it leaves the others.      *)
StillRequests(r) ==
    /\ AreRecords'
    /\ \A q \in Requests \ {r} : requests'[q] = requests[q]
    /\ IsRequest(requests'[r])
    /\ Staged(requests'[r])

LEMMA FilesAreTyped ==
    ASSUME Typed, NEW p \in Paths
    PROVE  /\ disk[p] \in Files \cup {Absent}
           /\ Exists(p) => /\ disk[p] \in Files
                           /\ disk[p].text \in Texts /\ disk[p].mode \in Modes
                           /\ disk[p].crlf \in BOOLEAN
BY DEF Typed, Exists, Files

LEMMA PathsOfSections ==
    ASSUME NEW patch \in Seq(Sections)
    PROVE  /\ \A i \in 1 .. Len(patch) : patch[i] \in Sections /\ patch[i].path \in PathsOf(patch)
           /\ PathsOf(patch) \subseteq Paths
           /\ PathsOf(patch) # {} => Len(patch) > 0
<1>1. ASSUME NEW i \in 1 .. Len(patch) PROVE patch[i] \in Sections /\ patch[i].path \in PathsOf(patch)
  <2>1. patch[i] \in Sections
    OBVIOUS
  <2>2. patch[i].path \in Paths
    BY <2>1, SectionsAreTyped
  <2> QED BY <2>1, <2>2 DEF PathsOf, SectionsOf
<1>2. PathsOf(patch) # {} => Len(patch) > 0
  BY DEF PathsOf, SectionsOf
<1> QED BY <1>1, <1>2 DEF PathsOf

LEMMA OperationsAreTyped ==
    ASSUME Consistent, NEW section \in Sections
    PROVE  Operation(section) \in Operations /\ Operation(section).path = section.path
<1>1. section.path \in Paths
  BY SectionsAreTyped
<1>2. (IF Exists(section.path) THEN disk[section.path].text ELSE <<>>) \in Texts
  BY <1>1, FilesAreTyped DEF Consistent, Texts
<1>3. CASE section.kind = "delete"
  BY <1>1, <1>3 DEF Operation, Operations
<1>4. CASE section.kind # "delete"
  BY <1>1, <1>2, <1>4, NewTextIsText DEF Operation, Operations
<1> QED BY <1>3, <1>4

LEMMA PlansAreTyped ==
    ASSUME NEW q, IsRequest(q), NEW i \in 1 .. Len(q.plan)
    PROVE  q.plan[i] \in Operations /\ q.plan[i].path \in Paths
           /\ q.plan[i].text \in Texts \cup {Absent}
<1>1. q.plan[i] \in Operations
  BY DEF IsRequest
<1> QED BY <1>1 DEF Operations

LEMMA BeginsRight ==
    ASSUME Consistent, NEW r \in Requests, NEW v \in Previews, BeginApply(r, v)
    PROVE  StillRequests(r)
<1>1. IsPreview(previews[v]) /\ AreRecords /\ IsRequest(requests[r]) /\ Staged(requests[r])
  BY DEF BeginApply, Consistent, Typed
<1>2. /\ AreRecords'
      /\ \A q \in Requests \ {r} : requests'[q] = requests[q]
      /\ requests'[r].at = "check"
      /\ requests'[r].todo = PathsOf(previews[v].patch)
      /\ requests'[r].plan = requests[r].plan
      /\ requests'[r].preimages = requests[r].preimages
      /\ requests'[r].applied = requests[r].applied
      /\ requests'[r].patch = previews[v].patch
      /\ requests'[r].base = previews[v].base
      /\ requests'[r].creates = previews[v].creates
  BY <1>1 DEF BeginApply, AreRecords, Fields
<1>3. requests[r].at = "idle"
  BY DEF BeginApply, At
<1>4. previews[v].patch \in Seq(Sections)
  BY <1>1, PatchAssumption DEF IsPreview
<1>5. IsRequest(requests'[r])
  BY <1>1, <1>2, <1>4, PathsOfSections DEF IsRequest, IsPreview, Stages
<1>6. Staged(requests'[r])
  BY <1>1, <1>2, <1>3, <1>4 DEF Staged, IsPreview
<1> QED BY <1>2, <1>5, <1>6 DEF StillRequests

LEMMA ChecksRight ==
    ASSUME Consistent, NEW r \in Requests, CheckBase(r)
    PROVE  StillRequests(r)
<1>1. AreRecords /\ IsRequest(requests[r]) /\ Staged(requests[r]) /\ requests[r].at = "check"
  BY DEF CheckBase, At, Consistent, Typed
<1>2. PICK p \in requests[r].todo :
        IF BaseUnchanged(r, p)
          THEN requests' = [requests EXCEPT
                  ![r].todo = @ \ {p},
                  ![r].at = IF requests[r].todo = {p} THEN "plan" ELSE "check"]
          ELSE requests' = [requests EXCEPT ![r].at = "refused"]
  BY DEF CheckBase
<1>3. CASE BaseUnchanged(r, p)
  <2>1. Moved(r, IF requests[r].todo = {p} THEN "plan" ELSE "check", requests[r].todo \ {p},
              requests[r].plan, requests[r].preimages, requests[r].applied)
    BY <1>1, <1>2, <1>3, BaseIsFound
  <2>2. IsRequest(requests'[r])
    BY <1>1, <2>1 DEF IsRequest, Moved, Stages
  <2>3. Len(requests[r].patch) > 0 /\ Len(requests[r].plan) = 0
    BY <1>1, <1>2, PathsOfSections DEF IsRequest, Staged
  <2>4. Staged(requests'[r])
    BY <1>1, <2>1, <2>3 DEF Staged, Moved
  <2> QED BY <2>1, <2>2, <2>4 DEF StillRequests, Moved
<1>4. CASE ~BaseUnchanged(r, p)
  <2>1. Moved(r, "refused", requests[r].todo,
              requests[r].plan, requests[r].preimages, requests[r].applied)
    BY <1>1, <1>2, <1>4, StageMoves
  <2>2. IsRequest(requests'[r])
    BY <1>1, <2>1 DEF IsRequest, Moved, Stages
  <2>3. Staged(requests'[r])
    BY <1>1, <2>1 DEF Staged, Moved
  <2> QED BY <2>1, <2>2, <2>3 DEF StillRequests, Moved
<1> QED BY <1>3, <1>4

LEMMA PlansRight ==
    ASSUME Consistent, NEW r \in Requests, PlanSection(r)
    PROVE  StillRequests(r)
<1> DEFINE i == Len(requests[r].plan) + 1
           section == requests[r].patch[i]
           at == IF i = Len(requests[r].patch) THEN "read" ELSE "plan"
<1>1. AreRecords /\ IsRequest(requests[r]) /\ Staged(requests[r]) /\ requests[r].at = "plan"
  BY DEF PlanSection, At, Consistent, Typed
<1>2. CASE CanPlan(section)
  <2>1. Moved(r, at, requests[r].todo, Append(requests[r].plan, Operation(section)),
              requests[r].preimages, requests[r].applied)
    BY <1>1, <1>2, SectionIsPlanned DEF PlanSection
  <2>2. i \in 1 .. Len(requests[r].patch)
    BY <1>1 DEF IsRequest, Staged
  <2>3. section \in Sections
    BY <1>1, <2>2, PathsOfSections DEF IsRequest
  <2>4. Operation(section) \in Operations /\ Operation(section).path = section.path
    BY <2>3, OperationsAreTyped
  <2>5. /\ Append(requests[r].plan, Operation(section)) \in Seq(Operations)
        /\ Len(Append(requests[r].plan, Operation(section))) = i
        /\ Append(requests[r].plan, Operation(section))[i].path = section.path
        /\ \A j \in 1 .. i - 1 : Append(requests[r].plan, Operation(section))[j] = requests[r].plan[j]
    BY <1>1, <2>4 DEF IsRequest
  <2> HIDE DEF section
  <2>6. IsRequest(requests'[r])
    BY <1>1, <2>1, <2>5 DEF IsRequest, Moved, Stages
  <2>7. \A j \in 1 .. i : requests'[r].plan[j].path = requests[r].patch[j].path
    <3>1. ASSUME NEW j \in 1 .. i - 1 PROVE requests'[r].plan[j].path = requests[r].patch[j].path
      BY <1>1, <2>1, <2>5 DEF Staged, Moved, IsRequest
    <3>2. requests'[r].plan[i].path = requests[r].patch[i].path
      BY <2>1, <2>5 DEF Moved, section
    <3>3. i \in Nat
      BY <1>1 DEF IsRequest
    <3> QED BY <3>1, <3>2, <3>3
  <2>8. Staged(requests'[r])
    <3>1. requests[r].applied = 0 /\ Len(requests'[r].plan) = i /\ i \in Nat /\ i > 0
      BY <1>1, <2>1, <2>2, <2>5 DEF Staged, Moved
    <3>2. requests'[r].at \in {"plan", "read"} /\ (requests'[r].at = "read" <=> i = Len(requests[r].patch))
      BY <2>1 DEF Moved
    <3> HIDE DEF i, at
    <3> QED BY <1>1, <2>1, <2>2, <2>7, <3>1, <3>2 DEF Staged, Moved
  <2> QED BY <2>1, <2>6, <2>8 DEF StillRequests, Moved
<1>3. CASE ~CanPlan(section)
  <2>1. Moved(r, "refused", requests[r].todo,
              requests[r].plan, requests[r].preimages, requests[r].applied)
    BY <1>1, <1>3, StageMoves DEF PlanSection
  <2>2. IsRequest(requests'[r])
    BY <1>1, <2>1 DEF IsRequest, Moved, Stages
  <2>3. Staged(requests'[r])
    BY <1>1, <2>1 DEF Staged, Moved
  <2> QED BY <2>1, <2>2, <2>3 DEF StillRequests, Moved
<1> QED BY <1>2, <1>3
LEMMA ReadsRight ==
    ASSUME Consistent, NEW r \in Requests, read_preimage(r)
    PROVE  StillRequests(r)
<1> DEFINE q == requests[r]
           p == NextOperation(r).path
<1>1. AreRecords /\ IsRequest(q) /\ Staged(q) /\ q.at = "read"
  BY DEF read_preimage, At, Consistent, Typed
<1>2. Moved(r, "write", q.todo, q.plan,
            [q.preimages EXCEPT ![p] = PreimageOfFirst(r, p)], q.applied)
  BY <1>1, PreimageIsRead DEF read_preimage
<1>3. q.applied + 1 \in 1 .. Len(q.plan)
  BY <1>1 DEF IsRequest, Staged
<1>4. p \in Paths /\ p = q.plan[q.applied + 1].path
  BY <1>1, <1>3, PlansAreTyped DEF NextOperation
<1>5. PreimageOfFirst(r, p) \in Files \cup {Absent}
  BY <1>1, <1>4, FilesAreTyped DEF PreimageOfFirst, IsRequest, Consistent
<1> HIDE DEF p
<1>6. /\ requests'[r].preimages[p] \in Files \cup {Absent}
      /\ \A other \in Paths \ {p} : requests'[r].preimages[other] = q.preimages[other]
  BY <1>1, <1>2, <1>4, <1>5 DEF Moved, AreRecords
<1>7. IsRequest(requests'[r])
  BY <1>1, <1>2, <1>6 DEF IsRequest, Moved, Stages
<1>8. None \notin Files \cup {Absent}
  BY PatchAssumption
<1>9. ASSUME NEW j \in 1 .. q.applied PROVE requests'[r].preimages[q.plan[j].path] # None
  <2>1. j \in 1 .. Len(q.plan)
    BY <1>1, <1>3 DEF IsRequest
  <2>2. q.plan[j].path \in Paths
    BY <1>1, <2>1, PlansAreTyped
  <2>3. q.preimages[q.plan[j].path] # None
    BY <1>1 DEF Staged
  <2> QED BY <1>6, <1>8, <2>2, <2>3
<1>10. Staged(requests'[r])
  BY <1>1, <1>2, <1>4, <1>6, <1>8, <1>9 DEF Staged, Moved
<1> QED BY <1>2, <1>7, <1>10 DEF StillRequests, Moved

LEMMA WritesRight ==
    ASSUME Consistent, NEW r \in Requests, apply_operation(r)
    PROVE  StillRequests(r)
<1> DEFINE q == requests[r]
           at == IF q.applied + 1 = Len(q.plan) THEN "committed" ELSE "read"
<1>1. AreRecords /\ IsRequest(q) /\ Staged(q) /\ q.at = "write"
  BY DEF apply_operation, At, Consistent, Typed
<1>2. Moved(r, at, q.todo, q.plan, q.preimages, q.applied + 1)
  BY <1>1, OperationsAreCounted DEF apply_operation
<1>3. q.applied \in Nat /\ Len(q.plan) \in Nat /\ q.applied < Len(q.plan)
  BY <1>1 DEF IsRequest, Staged
<1>4. IsRequest(requests'[r])
  BY <1>1, <1>2, <1>3 DEF IsRequest, Moved, Stages
<1>5. ASSUME NEW j \in 1 .. q.applied + 1 PROVE q.preimages[q.plan[j].path] # None
  <2>1. CASE j \in 1 .. q.applied
    BY <1>1, <2>1 DEF Staged
  <2>2. CASE j = q.applied + 1
    BY <1>1, <2>2 DEF Staged
  <2> QED BY <1>3, <2>1, <2>2
<1>6. Staged(requests'[r])
  BY <1>1, <1>2, <1>3, <1>5 DEF Staged, Moved
<1> QED BY <1>2, <1>4, <1>6 DEF StillRequests, Moved

LEMMA FailsRight ==
    ASSUME Consistent, NEW r \in Requests, FailOperation(r)
    PROVE  StillRequests(r)
<1> DEFINE q == requests[r]
           at == IF q.applied = 0 THEN "rolled_back" ELSE "rollback"
<1>1. AreRecords /\ IsRequest(q) /\ Staged(q) /\ q.at \in {"read", "write"}
  BY DEF FailOperation, Consistent, Typed
<1>2. Moved(r, at, q.todo, q.plan, q.preimages, q.applied)
  BY <1>1, StageMoves DEF FailOperation
<1>3. IsRequest(requests'[r])
  BY <1>1, <1>2 DEF IsRequest, Moved, Stages
<1>4. q.applied \in Nat
  BY <1>1 DEF IsRequest
<1>5. Staged(requests'[r])
  BY <1>1, <1>2, <1>4 DEF Staged, Moved
<1> QED BY <1>2, <1>3, <1>5 DEF StillRequests, Moved

LEMMA RollsBackRight ==
    ASSUME Consistent, NEW r \in Requests, rollback(r)
    PROVE  StillRequests(r)
<1> DEFINE q == requests[r]
           at == IF q.applied = 1 THEN "rolled_back" ELSE "rollback"
<1>1. AreRecords /\ IsRequest(q) /\ Staged(q) /\ q.at = "rollback"
  BY DEF rollback, At, Consistent, Typed
<1>2. Moved(r, at, q.todo, q.plan, q.preimages, q.applied - 1)
  BY <1>1, OperationsAreCounted DEF rollback
<1>3. q.applied \in Nat /\ q.applied > 0 /\ Len(q.plan) \in Nat /\ q.applied <= Len(q.plan)
  BY <1>1 DEF IsRequest, Staged
<1>4. IsRequest(requests'[r])
  BY <1>1, <1>2, <1>3 DEF IsRequest, Moved, Stages
<1>5. \A j \in 1 .. q.applied - 1 : q.preimages[q.plan[j].path] # None
  BY <1>1, <1>3 DEF Staged
<1>6. Staged(requests'[r])
  BY <1>1, <1>2, <1>3, <1>5 DEF Staged, Moved
<1> QED BY <1>2, <1>4, <1>6 DEF StillRequests, Moved

LEMMA RollbackFailsRight ==
    ASSUME Consistent, NEW r \in Requests, FailRollback(r)
    PROVE  StillRequests(r)
<1> DEFINE q == requests[r]
<1>1. AreRecords /\ IsRequest(q) /\ Staged(q) /\ q.at = "rollback"
  BY DEF FailRollback, At, Consistent, Typed
<1>2. Moved(r, "rollback_failed", q.todo, q.plan, q.preimages, q.applied)
  BY <1>1, StageMoves DEF FailRollback
<1>3. IsRequest(requests'[r])
  BY <1>1, <1>2 DEF IsRequest, Moved, Stages
<1>4. Staged(requests'[r])
  BY <1>1, <1>2 DEF Staged, Moved
<1> QED BY <1>2, <1>3, <1>4 DEF StillRequests, Moved

LEMMA CrashesRight ==
    ASSUME Consistent, Crash
    PROVE  /\ AreRecords'
           /\ \A r \in Requests : IsRequest(requests'[r]) /\ Staged(requests'[r])
<1>1. AreRecords
  BY DEF Consistent, Typed
<1>2. AreRecords'
  BY <1>1 DEF Crash, AreRecords, Fields
<1>3. ASSUME NEW r \in Requests PROVE IsRequest(requests'[r]) /\ Staged(requests'[r])
  <2> DEFINE q == requests[r]
  <2>1. IsRequest(q) /\ Staged(q)
    BY DEF Consistent, Typed
  <2>2. CASE Active(r)
    <3>1. /\ requests'[r].at = "crashed" /\ requests'[r].todo = q.todo
          /\ requests'[r].plan = q.plan /\ requests'[r].preimages = q.preimages
          /\ requests'[r].applied = q.applied /\ requests'[r].patch = q.patch
          /\ requests'[r].base = q.base /\ requests'[r].creates = q.creates
      BY <1>1, <2>2 DEF Crash, AreRecords, Fields
    <3>2. q.at # "idle"
      BY <2>2 DEF Active, At
    <3>3. IsRequest(requests'[r])
      BY <2>1, <3>1 DEF IsRequest, Stages
    <3>4. Staged(requests'[r])
      BY <2>1, <3>1, <3>2 DEF Staged
    <3> QED BY <3>3, <3>4
  <2>3. CASE ~Active(r)
    BY <2>1, <2>3 DEF Crash
  <2> QED BY <2>2, <2>3
<1> QED BY <1>2, <1>3
LEMMA WritesAreTyped ==
    ASSUME Typed, NEW p \in Paths, NEW file \in Files \cup {Absent}, NEW writer,
           Write(p, file, writer)
    PROVE  /\ disk' \in [Paths -> Files \cup {Absent}]
           /\ others' \in [Requests -> SUBSET Paths]
BY DEF Typed, Write

LEMMA WrittenIsFile ==
    ASSUME Typed, NEW p \in Paths, NEW text \in Texts
    PROVE  Written(p, text) \in Files
<1>1. (IF Exists(p) THEN disk[p].mode ELSE "private") \in Modes
  BY FilesAreTyped DEF Modes
<1> QED BY <1>1 DEF Written, Files

LEMMA RestoredIsFile ==
    ASSUME NEW preimage \in Files \cup {Absent}
    PROVE  Restored(preimage) \in Files \cup {Absent}
BY DEF Restored, Files

(* The file that an operation writes, and the one that its undoing writes. *)
LEMMA WritersAreTyped ==
    ASSUME Consistent, NEW r \in Requests
    PROVE  /\ At(r, "write") =>
                /\ NextOperation(r).path \in Paths
                /\ NextOperation(r).text \in Texts \cup {Absent}
                /\ NextOperation(r).text # Absent =>
                       Written(NextOperation(r).path, NextOperation(r).text) \in Files
           /\ At(r, "rollback") =>
                /\ LastOperation(r).path \in Paths
                /\ requests[r].preimages[LastOperation(r).path] \in Files \cup {Absent}
                /\ Restored(requests[r].preimages[LastOperation(r).path]) \in Files \cup {Absent}
<1> DEFINE q == requests[r]
<1>1. IsRequest(q) /\ Staged(q)
  BY DEF Consistent, Typed
<1>2. ASSUME At(r, "write")
      PROVE  /\ NextOperation(r).path \in Paths /\ NextOperation(r).text \in Texts \cup {Absent}
             /\ NextOperation(r).text # Absent =>
                    Written(NextOperation(r).path, NextOperation(r).text) \in Files
  <2>1. q.applied + 1 \in 1 .. Len(q.plan)
    BY <1>1, <1>2 DEF At, Staged, IsRequest
  <2>2. NextOperation(r).path \in Paths /\ NextOperation(r).text \in Texts \cup {Absent}
    BY <1>1, <2>1, PlansAreTyped DEF NextOperation
  <2> QED BY <2>2, WrittenIsFile DEF Consistent
<1>3. ASSUME At(r, "rollback")
      PROVE  /\ LastOperation(r).path \in Paths
             /\ q.preimages[LastOperation(r).path] \in Files \cup {Absent}
             /\ Restored(q.preimages[LastOperation(r).path]) \in Files \cup {Absent}
  <2>1. q.applied \in 1 .. Len(q.plan) /\ q.applied \in 1 .. q.applied
    BY <1>1, <1>3 DEF At, Staged, IsRequest
  <2>2. LastOperation(r).path \in Paths /\ LastOperation(r).path = q.plan[q.applied].path
    BY <1>1, <2>1, PlansAreTyped DEF LastOperation
  <2>3. q.preimages[q.plan[q.applied].path] # None
    BY <1>1, <1>3, <2>1 DEF At, Staged
  <2>4. q.preimages[LastOperation(r).path] \in Files \cup {Absent}
    BY <1>1, <2>2, <2>3 DEF IsRequest
  <2> QED BY <2>2, <2>4, RestoredIsFile
<1> QED BY <1>2, <1>3

LEMMA RequestStepsAreRight ==
    ASSUME Consistent, NEW r \in Requests,
           \/ \E v \in Previews : BeginApply(r, v)
           \/ CheckBase(r) \/ PlanSection(r)
           \/ read_preimage(r) \/ apply_operation(r) \/ FailOperation(r)
           \/ rollback(r) \/ FailRollback(r)
    PROVE  StillRequests(r)
BY BeginsRight, ChecksRight, PlansRight, ReadsRight, WritesRight, FailsRight, RollsBackRight,
   RollbackFailsRight

LEMMA RestIsTyped ==
    ASSUME Consistent, Next
    PROVE  /\ disk' \in [Paths -> Files \cup {Absent}]
           /\ DOMAIN previews' = Previews
           /\ \A v \in Previews : previews'[v] # None => IsPreview(previews'[v])
           /\ checked' \in [Requests -> [Paths -> Files \cup {Absent, None}]]
           /\ others' \in [Requests -> SUBSET Paths]
           /\ edits' \in 0 .. MaxEdits /\ failures' \in 0 .. MaxFailures
<1> DEFINE Goal ==
               /\ disk' \in [Paths -> Files \cup {Absent}]
               /\ DOMAIN previews' = Previews
               /\ \A v \in Previews : previews'[v] # None => IsPreview(previews'[v])
               /\ checked' \in [Requests -> [Paths -> Files \cup {Absent, None}]]
               /\ others' \in [Requests -> SUBSET Paths]
               /\ edits' \in 0 .. MaxEdits /\ failures' \in 0 .. MaxFailures
<1>1. Typed
  BY DEF Consistent
<1>2. MaxEdits \in Nat /\ MaxFailures \in Nat
  BY PatchAssumption
<1>3. ASSUME NEW v \in Previews, NEW patch \in Patches, preview(v, patch) PROVE Goal
  <2> DEFINE new == [patch |-> patch,
                     creates |-> {p \in PathsOf(patch) : ~Exists(p)},
                     base |-> [p \in PathsOf(patch) |-> IF Exists(p) THEN disk[p].text ELSE <<>>]]
  <2>1. new.patch = patch /\ new.creates = {p \in PathsOf(patch) : ~Exists(p)}
        /\ new.base = [p \in PathsOf(patch) |-> IF Exists(p) THEN disk[p].text ELSE <<>>]
    OBVIOUS
  <2>2. PathsOf(patch) \subseteq Paths
    BY DEF PathsOf
  <2>3. \A p \in PathsOf(patch) : (IF Exists(p) THEN disk[p].text ELSE <<>>) \in Texts
    BY <1>1, <2>2, FilesAreTyped DEF Texts
  <2>4. previews' = [previews EXCEPT ![v] = new] /\ UNCHANGED <<disk, checked, others, edits, failures>>
    BY <1>3 DEF preview
  <2> HIDE DEF new
  <2>5. IsPreview(new)
    BY <2>1, <2>2, <2>3 DEF IsPreview
  <2>6. \A w \in Previews : previews'[w] # None => IsPreview(previews'[w])
    BY <1>1, <2>4, <2>5 DEF Typed
  <2> QED BY <1>1, <2>4, <2>6 DEF Typed
<1>4. ASSUME NEW r \in Requests, NEW v \in Previews, BeginApply(r, v) PROVE Goal
  BY <1>1, <1>4 DEF BeginApply, Typed
<1>5. ASSUME NEW r \in Requests, CheckBase(r) PROVE Goal
  <2>1. UNCHANGED <<disk, previews, edits, failures>>
    BY <1>5 DEF CheckBase
  <2>2. PICK p \in requests[r].todo :
          \/ /\ checked' = [checked EXCEPT ![r][p] = disk[p]]
             /\ others' = [others EXCEPT ![r] = @ \ {p}]
          \/ UNCHANGED <<checked, others>>
    BY <1>5 DEF CheckBase
  <2>3. p \in Paths
    BY <1>1 DEF Typed, IsRequest
  <2>4. disk[p] \in Files \cup {Absent, None}
    BY <1>1, <2>3, FilesAreTyped
  <2>5. /\ checked' \in [Requests -> [Paths -> Files \cup {Absent, None}]]
        /\ others' \in [Requests -> SUBSET Paths]
    BY <1>1, <2>2, <2>3, <2>4 DEF Typed
  <2> QED BY <1>1, <2>1, <2>5 DEF Typed
<1>6. ASSUME NEW r \in Requests, PlanSection(r) \/ read_preimage(r) PROVE Goal
  BY <1>1, <1>6 DEF PlanSection, read_preimage, Typed
<1>7. ASSUME NEW r \in Requests, apply_operation(r) PROVE Goal
  <2>1. At(r, "write") /\ UNCHANGED <<previews, checked, edits, failures>>
    BY <1>7 DEF apply_operation
  <2>2. /\ disk' \in [Paths -> Files \cup {Absent}]
        /\ others' \in [Requests -> SUBSET Paths]
    BY <1>1, <1>7, <2>1, WritersAreTyped, WritesAreTyped DEF apply_operation
  <2> QED BY <1>1, <2>1, <2>2 DEF Typed
<1>8. ASSUME NEW r \in Requests, FailOperation(r) \/ FailRollback(r) PROVE Goal
  BY <1>1, <1>2, <1>8 DEF FailOperation, FailRollback, Typed
<1>9. ASSUME NEW r \in Requests, rollback(r) PROVE Goal
  <2>1. At(r, "rollback") /\ UNCHANGED <<previews, checked, edits, failures>>
    BY <1>9 DEF rollback
  <2>2. /\ disk' \in [Paths -> Files \cup {Absent}]
        /\ others' \in [Requests -> SUBSET Paths]
    BY <1>1, <1>9, <2>1, WritersAreTyped, WritesAreTyped DEF rollback
  <2> QED BY <1>1, <2>1, <2>2 DEF Typed
<1>10. ASSUME Crash PROVE Goal
  BY <1>1, <1>10 DEF Crash, Typed
<1>11. ASSUME NEW p \in Paths, EditFile(p) PROVE Goal
  <2>1. Foreign \in Lines
    BY PatchAssumption
  <2>2. <<Foreign>> \in Texts
    BY <2>1 DEF Texts
  <2>3. PICK file \in Files \cup {Absent} : Write(p, file, None)
    <3>1. CASE Write(p, [text |-> <<Foreign>>, crlf |-> FALSE, mode |-> "plain"], None)
      BY <2>2, <3>1 DEF Files, Modes
    <3>2. CASE /\ Exists(p)
               /\ Write(p, [text |-> <<Foreign>> \o disk[p].text, crlf |-> disk[p].crlf,
                            mode |-> disk[p].mode], None)
      <4>1. <<Foreign>> \o disk[p].text \in Texts
        BY <1>1, <2>2, <3>2, FilesAreTyped, ConcatenatedTexts
      <4>2. [text |-> <<Foreign>> \o disk[p].text, crlf |-> disk[p].crlf, mode |-> disk[p].mode]
               \in Files
        BY <1>1, <3>2, <4>1, FilesAreTyped DEF Files
      <4> QED BY <3>2, <4>2
    <3>3. CASE Write(p, Absent, None)
      BY <3>3
    <3> QED BY <1>11, <3>1, <3>2, <3>3 DEF EditFile
  <2>4. /\ disk' \in [Paths -> Files \cup {Absent}]
        /\ others' \in [Requests -> SUBSET Paths]
    BY <1>1, <2>3, WritesAreTyped
  <2>5. edits' \in 0 .. MaxEdits
    BY <1>1, <1>2, <1>11 DEF EditFile, Typed
  <2> QED BY <1>1, <1>11, <2>4, <2>5 DEF EditFile, Typed
<1> HIDE DEF Goal
<1>12. Goal
  BY <1>3, <1>4, <1>5, <1>6, <1>7, <1>8, <1>9, <1>10, <1>11 DEF Next
<1> QED BY <1>12 DEF Goal

LEMMA ConsistentNext == Consistent /\ [Next]_vars => Consistent'
<1> SUFFICES ASSUME Consistent, [Next]_vars PROVE Consistent'
  OBVIOUS
<1>1. Typed /\ AreRecords /\ \A r \in Requests : IsRequest(requests[r]) /\ Staged(requests[r])
  BY DEF Consistent, Typed
<1>2. ASSUME Next PROVE AreRecords' /\ \A r \in Requests : IsRequest(requests'[r]) /\ Staged(requests'[r])
  <2>1. ASSUME NEW r \in Requests, StillRequests(r)
        PROVE  AreRecords' /\ \A q \in Requests : IsRequest(requests'[q]) /\ Staged(requests'[q])
    BY <1>1, <2>1 DEF StillRequests
  <2>2. ASSUME UNCHANGED requests
        PROVE  AreRecords' /\ \A q \in Requests : IsRequest(requests'[q]) /\ Staged(requests'[q])
    BY <1>1, <2>2 DEF AreRecords
  <2>3. CASE \E v \in Previews, patch \in Patches : preview(v, patch)
    BY <2>2, <2>3 DEF preview
  <2>4. CASE \E r \in Requests :
               \/ \E v \in Previews : BeginApply(r, v)
               \/ CheckBase(r) \/ PlanSection(r)
               \/ read_preimage(r) \/ apply_operation(r) \/ FailOperation(r)
               \/ rollback(r) \/ FailRollback(r)
    BY <2>1, <2>4, RequestStepsAreRight
  <2>5. CASE Crash
    BY <2>5, CrashesRight
  <2>6. CASE \E p \in Paths : EditFile(p)
    BY <2>2, <2>6 DEF EditFile
  <2> QED BY <1>2, <2>3, <2>4, <2>5, <2>6 DEF Next
<1>3. CASE Next
  BY <1>2, <1>3, RestIsTyped DEF Consistent, Typed
<1>4. CASE UNCHANGED vars
  BY <1>1, <1>4 DEF Consistent, Typed, vars, AreRecords
<1> QED BY <1>3, <1>4

LEMMA ConsistentInit == Init => Consistent
<1> SUFFICES ASSUME Init PROVE Consistent
  OBVIOUS
<1>1. \A r \in Requests : requests[r] =
          [at |-> "idle", patch |-> <<>>, base |-> None, creates |-> {}, todo |-> {}, plan |-> <<>>,
           preimages |-> [p \in Paths |-> None], applied |-> 0]
  BY DEF Init
<1>2. AreRecords
  BY <1>1 DEF AreRecords, Fields, Init
<1>3. ASSUME NEW r \in Requests PROVE IsRequest(requests[r])
  <2>1. /\ requests[r].at = "idle" /\ requests[r].patch = <<>> /\ requests[r].creates = {}
        /\ requests[r].todo = {} /\ requests[r].plan = <<>> /\ requests[r].applied = 0
        /\ requests[r].preimages = [p \in Paths |-> None]
    BY <1>1
  <2>2. <<>> \in Seq(Sections) /\ <<>> \in Seq(Operations)
    OBVIOUS
  <2> QED BY <2>1, <2>2 DEF IsRequest, Stages
<1>4. \A r \in Requests : Staged(requests[r])
  BY <1>1 DEF Staged
<1>5. \A v \in Previews : previews[v] = None
  BY DEF Init
<1>6. disk \in [Paths -> Files \cup {Absent}] /\ edits \in 0 .. MaxEdits /\ failures \in 0 .. MaxFailures
  BY PatchAssumption DEF Init
<1>7. /\ DOMAIN previews = Previews
      /\ checked \in [Requests -> [Paths -> Files \cup {Absent, None}]]
      /\ others \in [Requests -> SUBSET Paths]
  BY DEF Init
<1>8. Typed
  BY <1>2, <1>3, <1>5, <1>6, <1>7 DEF Typed
<1> QED BY <1>4, <1>8 DEF Consistent

LEMMA ConsistentIsTypeOK == Consistent => TypeOK
<1> SUFFICES ASSUME Consistent PROVE TypeOK
  OBVIOUS
<1>1. \A p \in Paths : disk[p] \in Files \cup {Absent}
  BY DEF Consistent, Typed
<1>2. \A v \in Previews : previews[v] # None =>
          /\ previews[v].patch \in Patches
          /\ \A p \in PathsOf(previews[v].patch) : previews[v].base[p] \in Texts
  BY DEF Consistent, Typed, IsPreview
<1>3. ASSUME NEW r \in Requests
      PROVE  LET request == requests[r]
             IN  /\ request.at \in Stages
                 /\ request.applied \in 0 .. Len(request.plan)
                 /\ Len(request.plan) <= Len(request.patch)
                 /\ request.todo \subseteq PathsOf(request.patch)
                 /\ request.at \in {"read", "write"} => request.applied < Len(request.plan)
                 /\ \A i \in 1 .. Len(request.plan) : request.plan[i].text \in Texts \cup {Absent}
  <2>1. IsRequest(requests[r]) /\ Staged(requests[r])
    BY DEF Consistent, Typed
  <2>2. Len(requests[r].plan) \in Nat
    BY <2>1 DEF IsRequest
  <2>3. requests[r].applied \in 0 .. Len(requests[r].plan)
    BY <2>1, <2>2 DEF IsRequest, Staged
  <2>4. \A i \in 1 .. Len(requests[r].plan) : requests[r].plan[i].text \in Texts \cup {Absent}
    BY <2>1, PlansAreTyped
  <2> QED BY <2>1, <2>3, <2>4 DEF IsRequest, Staged
<1>4. edits \in 0 .. MaxEdits /\ failures \in 0 .. MaxFailures
  BY DEF Consistent, Typed
<1> QED BY <1>1, <1>2, <1>3, <1>4 DEF TypeOK

LEMMA ConsistentAlways == Spec => []Consistent
<1>1. Init => Consistent
  BY ConsistentInit
<1>2. Consistent /\ [Next]_vars => Consistent'
  BY ConsistentNext
<1> QED BY <1>1, <1>2, PTL DEF Spec

(* The files, previews and requests are what they should be, and each      *)
(* request is at a stage that agrees with its plan and with the operations *)
(* applied of it.                                                          *)
THEOREM TypeCorrect == Spec => []TypeOK
<1>1. Consistent => TypeOK
  BY ConsistentIsTypeOK
<1> QED BY <1>1, ConsistentAlways, PTL
-----------------------------------------------------------------------------
(* The files of an apply: what it found, planned, read, wrote and restored.*)

Touched(q, p) == \E i \in 1 .. q.applied : q.plan[i].path = p
LastTouch(q, p, i) == q.plan[i].path = p /\ \A j \in i + 1 .. q.applied : q.plan[j].path # p

TextOf(file) == IF file = Absent THEN <<>> ELSE file.text
TextIn(file) == IF file = Absent THEN Absent ELSE file.text

SameContent(file, seen) ==
    IF seen = Absent THEN file = Absent
    ELSE file # Absent /\ file.text = seen.text /\ file.mode = seen.mode

PlannedText(section, base) ==
    IF section.kind = "delete" THEN Absent ELSE NewText(section, base)

(* What was checked is what the preview showed.                            *)
CheckedFile(q, seen, p) ==
    q.at # "idle" /\ p \notin q.todo =>
        seen[p] \in Files \cup {Absent} /\ TextOf(seen[p]) = q.base[p]

(* A file that others leave alone is the one that was checked until an     *)
(* operation touches it, then the one that the last operation has written, *)
(* and again the one that was checked when those operations are undone.    *)
KeptFile(q, seen, files, p) ==
    /\ q.at \in {"check", "plan", "read", "write"} /\ p \notin q.todo /\ ~Touched(q, p) =>
           files[p] = seen[p]
    /\ \A i \in 1 .. Len(q.plan) : q.plan[i].path = p =>
           /\ q.plan[i].text = PlannedText(q.patch[i], q.base[p])
           /\ q.patch[i].kind = "create" => q.base[p] = <<>>
    /\ q.preimages[p] # None => q.preimages[p] = seen[p]
    /\ q.at \in {"read", "write", "committed"} =>
           \A i \in 1 .. q.applied : LastTouch(q, p, i) => TextIn(files[p]) = q.plan[i].text
    /\ q.at \in {"rollback", "rolled_back"} /\ ~Touched(q, p) => SameContent(files[p], seen[p])

Kept(q, seen, apart, files) ==
    \A p \in PathsOf(q.patch) :
        /\ CheckedFile(q, seen, p)
        /\ p \notin apart => KeptFile(q, seen, files, p)

FilesAreKept ==
    Consistent /\ \A r \in Requests : Kept(requests[r], checked[r], others[r], disk)

StillKept(r) == Kept(requests'[r], checked'[r], others'[r], disk')

(* What somebody else does.                                                *)
LEMMA OthersKeep ==
    ASSUME NEW r \in Requests, Kept(requests[r], checked[r], others[r], disk),
           requests'[r] = requests[r], checked'[r] = checked[r], others[r] \subseteq others'[r],
           PathsOf(requests[r].patch) \subseteq Paths,
           \A p \in Paths \ others'[r] : disk'[p] = disk[p]
    PROVE  StillKept(r)
<1> SUFFICES ASSUME NEW p \in PathsOf(requests[r].patch)
             PROVE  /\ CheckedFile(requests[r], checked[r], p)
                    /\ p \notin others'[r] => KeptFile(requests[r], checked[r], disk', p)
  BY DEF StillKept, Kept
<1>1. /\ CheckedFile(requests[r], checked[r], p)
      /\ p \notin others[r] => KeptFile(requests[r], checked[r], disk, p)
  BY DEF Kept
<1>2. ASSUME p \notin others'[r] PROVE disk'[p] = disk[p] /\ KeptFile(requests[r], checked[r], disk, p)
  BY <1>1, <1>2
<1>3. ASSUME p \notin others'[r] PROVE KeptFile(requests[r], checked[r], disk', p)
  BY <1>2, <1>3 DEF KeptFile
<1> QED BY <1>1, <1>3

LEMMA BeginsKeeping ==
    ASSUME FilesAreKept, NEW r \in Requests, NEW v \in Previews, BeginApply(r, v)
    PROVE  StillKept(r)
<1> DEFINE q == requests'[r]
<1>1. StillRequests(r)
  BY BeginsRight DEF FilesAreKept
<1>2. q.at = "check" /\ q.todo = PathsOf(q.patch) /\ q.preimages = requests[r].preimages
  BY DEF BeginApply, FilesAreKept, Consistent, Typed, AreRecords, Fields
<1>3. q.plan = <<>> /\ q.applied = 0
  BY <1>1, <1>2 DEF StillRequests, Staged
<1>4. \A p \in Paths : q.preimages[p] = None
  BY <1>1, <1>2 DEF StillRequests, Staged
<1>5. PathsOf(q.patch) \subseteq Paths
  BY DEF PathsOf
<1> HIDE DEF q
<1>6. ASSUME NEW p \in PathsOf(q.patch)
      PROVE  CheckedFile(q, checked'[r], p) /\ KeptFile(q, checked'[r], disk', p)
  <2>1. p \in q.todo /\ q.preimages[p] = None
    BY <1>2, <1>4, <1>5
  <2> QED BY <1>2, <1>3, <2>1 DEF CheckedFile, KeptFile
<1> QED BY <1>6 DEF StillKept, Kept, q

LEMMA ChecksKeeping ==
    ASSUME FilesAreKept, NEW r \in Requests, CheckBase(r)
    PROVE  StillKept(r)
<1> DEFINE q == requests[r]
<1>1. /\ Typed /\ AreRecords /\ IsRequest(q) /\ Staged(q) /\ q.at = "check"
      /\ Kept(q, checked[r], others[r], disk) /\ UNCHANGED disk
  BY DEF CheckBase, At, FilesAreKept, Consistent, Typed
<1>2. q.plan = <<>> /\ q.applied = 0 /\ \A p \in Paths : q.preimages[p] = None
  BY <1>1 DEF Staged
<1>3. PathsOf(q.patch) \subseteq Paths
  BY DEF PathsOf
<1>4. PICK p \in q.todo :
        IF BaseUnchanged(r, p)
          THEN /\ requests' = [requests EXCEPT
                      ![r].todo = @ \ {p},
                      ![r].at = IF requests[r].todo = {p} THEN "plan" ELSE "check"]
               /\ checked' = [checked EXCEPT ![r][p] = disk[p]]
               /\ others' = [others EXCEPT ![r] = @ \ {p}]
          ELSE /\ requests' = [requests EXCEPT ![r].at = "refused"]
               /\ UNCHANGED <<checked, others>>
  BY DEF CheckBase
<1>5. CASE BaseUnchanged(r, p)
  <2>1. Moved(r, IF q.todo = {p} THEN "plan" ELSE "check", q.todo \ {p}, q.plan, q.preimages,
              q.applied)
    BY <1>1, <1>4, <1>5, BaseIsFound
  <2>2. p \in Paths /\ p \in PathsOf(q.patch)
    BY <1>1 DEF IsRequest, Staged
  <2>3. /\ checked'[r][p] = disk[p] /\ \A o \in Paths \ {p} : checked'[r][o] = checked[r][o]
        /\ others'[r] = others[r] \ {p}
    BY <1>1, <1>4, <1>5, <2>2 DEF Typed
  <2>4. disk[p] \in Files \cup {Absent} /\ TextOf(disk[p]) = q.base[p]
    BY <1>1, <1>5, <2>2, FilesAreTyped DEF BaseUnchanged, TextOf, Exists, Staged
  <2>5. ASSUME NEW o \in PathsOf(q.patch)
        PROVE  /\ CheckedFile(requests'[r], checked'[r], o)
               /\ o \notin others'[r] => KeptFile(requests'[r], checked'[r], disk', o)
    <3>1. q.preimages[o] = None /\ o \in Paths
      BY <1>2, <1>3
    <3>2. CASE o = p
      <4>1. checked'[r][o] = disk[p] /\ disk'[o] = disk[p]
        BY <1>1, <2>3, <3>2
      <4>2. CheckedFile(requests'[r], checked'[r], o)
        BY <2>1, <2>4, <3>2, <4>1 DEF CheckedFile, Moved
      <4>3. KeptFile(requests'[r], checked'[r], disk', o)
        BY <1>2, <2>1, <3>1, <4>1 DEF KeptFile, Moved
      <4> QED BY <4>2, <4>3
    <3>3. CASE o # p
      <4>1. checked'[r][o] = checked[r][o] /\ disk'[o] = disk[o] /\ (o \in others[r] <=> o \in others'[r])
        BY <1>1, <2>3, <3>1, <3>3
      <4>2. /\ CheckedFile(q, checked[r], o)
            /\ o \notin others[r] => KeptFile(q, checked[r], disk, o)
        BY <1>1 DEF Kept
      <4>3. CheckedFile(requests'[r], checked'[r], o)
        BY <1>1, <2>1, <3>3, <4>1, <4>2 DEF CheckedFile, Moved
      <4>4. ASSUME o \notin others'[r] PROVE KeptFile(requests'[r], checked'[r], disk', o)
        <5>1. o \notin q.todo => disk[o] = checked[r][o]
          BY <1>1, <1>2, <4>1, <4>2, <4>4 DEF KeptFile, Touched
        <5> QED BY <1>2, <2>1, <3>1, <3>3, <4>1, <5>1 DEF KeptFile, Moved
      <4> QED BY <4>3, <4>4
    <3> QED BY <3>2, <3>3
  <2> QED BY <2>1, <2>5 DEF StillKept, Kept, Moved
<1>6. CASE ~BaseUnchanged(r, p)
  <2>1. Moved(r, "refused", q.todo, q.plan, q.preimages, q.applied) /\ UNCHANGED <<checked, others>>
    BY <1>1, <1>4, <1>6, StageMoves
  <2>2. ASSUME NEW o \in PathsOf(q.patch)
        PROVE  CheckedFile(requests'[r], checked'[r], o) /\ KeptFile(requests'[r], checked'[r], disk', o)
    <3>1. q.preimages[o] = None
      BY <1>2, <1>3
    <3>2. CheckedFile(q, checked[r], o)
      BY <1>1 DEF Kept
    <3>3. CheckedFile(requests'[r], checked'[r], o)
      BY <1>1, <2>1, <3>2 DEF CheckedFile, Moved
    <3>4. KeptFile(requests'[r], checked'[r], disk', o)
      BY <1>2, <2>1, <3>1 DEF KeptFile, Moved
    <3> QED BY <3>3, <3>4
  <2> QED BY <2>1, <2>2 DEF StillKept, Kept, Moved
<1> QED BY <1>5, <1>6
(* A step that moves the stage only.                                       *)
LEMMA StagesKeep ==
    ASSUME FilesAreKept, NEW r \in Requests,
           Moved(r, requests'[r].at, requests[r].todo, requests[r].plan,
                 requests[r].preimages, requests[r].applied),
           requests[r].at # "idle", UNCHANGED <<disk, checked, others>>,
           requests'[r].at \in {"refused", "rollback_failed", "crashed"}
    PROVE  StillKept(r)
<1> DEFINE q == requests[r]
<1>1. Kept(q, checked[r], others[r], disk)
  BY DEF FilesAreKept
<1>2. ASSUME NEW p \in PathsOf(q.patch)
      PROVE  /\ CheckedFile(requests'[r], checked'[r], p)
             /\ p \notin others'[r] => KeptFile(requests'[r], checked'[r], disk', p)
  <2>1. CheckedFile(q, checked[r], p) /\ (p \notin others[r] => KeptFile(q, checked[r], disk, p))
    BY <1>1 DEF Kept
  <2>2. CheckedFile(requests'[r], checked'[r], p)
    BY <2>1 DEF CheckedFile, Moved
  <2>3. p \notin others'[r] => KeptFile(requests'[r], checked'[r], disk', p)
    BY <2>1 DEF KeptFile, Moved
  <2> QED BY <2>2, <2>3
<1> QED BY <1>2 DEF StillKept, Kept, Moved

LEMMA PlansKeeping ==
    ASSUME FilesAreKept, NEW r \in Requests, PlanSection(r)
    PROVE  StillKept(r)
<1> DEFINE q == requests[r]
           i == Len(requests[r].plan) + 1
           section == requests[r].patch[i]
           at == IF i = Len(requests[r].patch) THEN "read" ELSE "plan"
<1>1. /\ Typed /\ AreRecords /\ IsRequest(q) /\ Staged(q) /\ q.at = "plan"
      /\ Kept(q, checked[r], others[r], disk) /\ UNCHANGED <<disk, checked, others>>
  BY DEF PlanSection, At, FilesAreKept, Consistent, Typed
<1>2. CASE ~CanPlan(section)
  <2>1. Moved(r, "refused", q.todo, q.plan, q.preimages, q.applied)
    BY <1>1, <1>2, StageMoves DEF PlanSection
  <2>2. requests'[r].at = "refused"
    BY <2>1 DEF Moved
  <2> QED BY <1>1, <2>1, <2>2, StagesKeep
<1>3. CASE CanPlan(section)
  <2>1. Moved(r, at, q.todo, Append(q.plan, Operation(section)), q.preimages, q.applied)
    BY <1>1, <1>3, SectionIsPlanned DEF PlanSection
  <2>2. i \in 1 .. Len(q.patch) /\ q.applied = 0 /\ i \in Nat /\ i > 0 /\ q.todo = {}
    BY <1>1 DEF IsRequest, Staged
  <2>3. section \in Sections /\ PathsOf(q.patch) \subseteq Paths
    BY <1>1, <2>2, PathsOfSections DEF IsRequest
  <2>4. Operation(section) \in Operations /\ Operation(section).path = section.path
    BY <2>3, OperationsAreTyped DEF FilesAreKept
  <2>5. /\ Len(requests'[r].plan) = i
        /\ requests'[r].plan[i] = Operation(section)
        /\ \A j \in 1 .. i - 1 : requests'[r].plan[j] = q.plan[j]
    BY <1>1, <2>1, <2>4 DEF IsRequest, Moved
  <2>6. requests'[r].at \in {"plan", "read"}
    BY <2>1 DEF Moved
  <2>7. Operation(section).text =
          IF section.kind = "delete" THEN Absent ELSE NewText(section, TextOf(disk[section.path]))
    BY DEF Operation, Exists, TextOf
  <2>8. section.kind = "create" => disk[section.path] = Absent
    BY <1>3 DEF CanPlan, Exists
  <2>9. section = q.patch[i] /\ q = requests[r]
    OBVIOUS
  <2>10. \A j \in 1 .. Len(q.plan) : j \in 1 .. i - 1
    BY <1>1 DEF IsRequest
  <2>11. \A j \in 1 .. i : j = i \/ j \in 1 .. i - 1
    BY <2>2
  <2>12. \A j \in 1 .. i - 1 : j \in 1 .. Len(q.plan)
    BY <1>1 DEF IsRequest
  <2> HIDE DEF section, at, i, q
  <2>13. ASSUME NEW p \in PathsOf(q.patch)
         PROVE  /\ CheckedFile(requests'[r], checked'[r], p)
                /\ p \notin others'[r] => KeptFile(requests'[r], checked'[r], disk', p)
    <3>1. CheckedFile(q, checked[r], p) /\ (p \notin others[r] => KeptFile(q, checked[r], disk, p))
      BY <1>1 DEF Kept
    <3>2. p \in Paths
      BY <2>3
    <3>3. CheckedFile(requests'[r], checked'[r], p)
      BY <1>1, <2>1, <2>9, <3>1 DEF CheckedFile, Moved
    <3>4. ASSUME p \notin others'[r] PROVE KeptFile(requests'[r], checked'[r], disk', p)
      <4>1. KeptFile(q, checked[r], disk, p)
        BY <1>1, <3>1, <3>4
      <4>2. disk[p] = checked[r][p] /\ TextOf(disk[p]) = q.base[p]
        BY <1>1, <2>2, <3>1, <4>1 DEF KeptFile, Touched, CheckedFile
      <4>3. \A j \in 1 .. i : requests'[r].plan[j].path = p =>
              /\ requests'[r].plan[j].text = PlannedText(q.patch[j], q.base[p])
              /\ q.patch[j].kind = "create" => q.base[p] = <<>>
        <5>1. ASSUME NEW j \in 1 .. i - 1, requests'[r].plan[j].path = p
              PROVE  /\ requests'[r].plan[j].text = PlannedText(q.patch[j], q.base[p])
                     /\ q.patch[j].kind = "create" => q.base[p] = <<>>
          BY <2>5, <2>12, <4>1, <5>1 DEF KeptFile
        <5>2. ASSUME requests'[r].plan[i].path = p
              PROVE  /\ requests'[r].plan[i].text = PlannedText(q.patch[i], q.base[p])
                     /\ q.patch[i].kind = "create" => q.base[p] = <<>>
          <6>1. section.path = p
            BY <2>4, <2>5, <5>2
          <6>2. requests'[r].plan[i].text = PlannedText(section, q.base[p])
            BY <2>5, <2>7, <4>2, <6>1 DEF PlannedText
          <6>3. section.kind = "create" => q.base[p] = <<>>
            BY <2>8, <4>2, <6>1 DEF TextOf
          <6> QED BY <2>9, <6>2, <6>3
        <5> QED BY <2>11, <5>1, <5>2
      <4>4. q.preimages[p] # None => q.preimages[p] = checked[r][p]
        BY <4>1 DEF KeptFile
      <4>5. /\ requests'[r].applied = 0 /\ requests'[r].preimages = q.preimages
            /\ requests'[r].patch = q.patch /\ requests'[r].base = q.base
            /\ checked'[r] = checked[r] /\ disk'[p] = disk[p]
        BY <1>1, <2>1, <2>2, <2>9 DEF Moved
      <4> QED BY <2>5, <2>6, <4>2, <4>3, <4>4, <4>5 DEF KeptFile, LastTouch
    <3> QED BY <3>3, <3>4
  <2> QED BY <2>1, <2>9, <2>13 DEF StillKept, Kept, Moved
<1> QED BY <1>2, <1>3

LEMMA ReadsKeeping ==
    ASSUME FilesAreKept, NEW r \in Requests, read_preimage(r)
    PROVE  StillKept(r)
<1> DEFINE q == requests[r]
           touched == NextOperation(r).path
<1>1. /\ Typed /\ AreRecords /\ IsRequest(q) /\ Staged(q) /\ q.at = "read"
      /\ Kept(q, checked[r], others[r], disk) /\ UNCHANGED <<disk, checked, others>>
  BY DEF read_preimage, At, FilesAreKept, Consistent, Typed
<1>2. Moved(r, "write", q.todo, q.plan,
            [q.preimages EXCEPT ![touched] = PreimageOfFirst(r, touched)], q.applied)
  BY <1>1, PreimageIsRead DEF read_preimage
<1>3. DOMAIN q.preimages = Paths
  BY <1>1 DEF AreRecords
<1>4. q.todo = {} /\ \A i \in 1 .. q.applied : q.preimages[q.plan[i].path] # None
  BY <1>1 DEF Staged
<1>5. PathsOf(q.patch) \subseteq Paths
  BY DEF PathsOf
<1>6. ASSUME NEW p \in PathsOf(q.patch)
      PROVE  /\ CheckedFile(requests'[r], checked'[r], p)
             /\ p \notin others'[r] => KeptFile(requests'[r], checked'[r], disk', p)
  <2>1. CheckedFile(q, checked[r], p) /\ (p \notin others[r] => KeptFile(q, checked[r], disk, p))
    BY <1>1 DEF Kept
  <2>2. CheckedFile(requests'[r], checked'[r], p)
    BY <1>1, <1>2, <2>1 DEF CheckedFile, Moved
  <2>3. ASSUME p \notin others'[r] PROVE KeptFile(requests'[r], checked'[r], disk', p)
    <3>1. KeptFile(q, checked[r], disk, p)
      BY <1>1, <2>1, <2>3
    <3>2. q.preimages[p] = None => disk[p] = checked[r][p]
      BY <1>1, <1>4, <3>1 DEF KeptFile, Touched
    <3>3. requests'[r].preimages[p] # None => requests'[r].preimages[p] = checked[r][p]
      <4>1. CASE p = touched
        <5>1. requests'[r].preimages[p] = PreimageOfFirst(r, p)
          BY <1>2, <1>3, <1>5, <4>1 DEF Moved
        <5> QED BY <3>1, <3>2, <5>1 DEF KeptFile, PreimageOfFirst
      <4>2. CASE p # touched
        <5>1. requests'[r].preimages[p] = q.preimages[p]
          BY <1>2, <1>3, <1>5, <4>2 DEF Moved
        <5> QED BY <3>1, <5>1 DEF KeptFile
      <4> QED BY <4>1, <4>2
    <3>4. /\ requests'[r].at = "write" /\ requests'[r].plan = q.plan
          /\ requests'[r].applied = q.applied /\ requests'[r].todo = q.todo
          /\ requests'[r].patch = q.patch /\ requests'[r].base = q.base
          /\ checked'[r] = checked[r] /\ disk' = disk
      BY <1>1, <1>2 DEF Moved
    <3> QED BY <1>1, <3>1, <3>3, <3>4 DEF KeptFile, Touched, LastTouch
  <2> QED BY <2>2, <2>3
<1> QED BY <1>2, <1>6 DEF StillKept, Kept, Moved

LEMMA FailsKeeping ==
    ASSUME FilesAreKept, NEW r \in Requests, FailOperation(r)
    PROVE  StillKept(r)
<1> DEFINE q == requests[r]
           at == IF requests[r].applied = 0 THEN "rolled_back" ELSE "rollback"
<1>1. /\ Typed /\ AreRecords /\ IsRequest(q) /\ Staged(q) /\ q.at \in {"read", "write"}
      /\ Kept(q, checked[r], others[r], disk) /\ UNCHANGED <<disk, checked, others>>
  BY DEF FailOperation, FilesAreKept, Consistent, Typed
<1>2. Moved(r, at, q.todo, q.plan, q.preimages, q.applied)
  BY <1>1, StageMoves DEF FailOperation
<1>3. PathsOf(q.patch) \subseteq Paths /\ q.todo = {}
  BY <1>1 DEF PathsOf, Staged
<1>4. ASSUME NEW p \in PathsOf(q.patch)
      PROVE  /\ CheckedFile(requests'[r], checked'[r], p)
             /\ p \notin others'[r] => KeptFile(requests'[r], checked'[r], disk', p)
  <2>1. CheckedFile(q, checked[r], p) /\ (p \notin others[r] => KeptFile(q, checked[r], disk, p))
    BY <1>1 DEF Kept
  <2>2. CheckedFile(requests'[r], checked'[r], p)
    BY <1>1, <1>2, <2>1 DEF CheckedFile, Moved
  <2>3. ASSUME p \notin others'[r] PROVE KeptFile(requests'[r], checked'[r], disk', p)
    <3>1. KeptFile(q, checked[r], disk, p)
      BY <1>1, <2>1, <2>3
    <3>2. checked[r][p] \in Files \cup {Absent}
      BY <1>1, <1>3, <2>1 DEF CheckedFile
    <3>3. ~Touched(q, p) => SameContent(disk[p], checked[r][p])
      <4>1. ~Touched(q, p) => disk[p] = checked[r][p]
        BY <1>1, <1>3, <3>1 DEF KeptFile
      <4> QED BY <3>2, <4>1 DEF SameContent
    <3>4. /\ requests'[r].at \in {"rolled_back", "rollback"} /\ requests'[r].plan = q.plan
          /\ requests'[r].applied = q.applied /\ requests'[r].preimages = q.preimages
          /\ requests'[r].patch = q.patch /\ requests'[r].base = q.base
          /\ checked'[r] = checked[r] /\ disk' = disk
      BY <1>1, <1>2 DEF Moved
    <3> QED BY <3>1, <3>3, <3>4 DEF KeptFile, Touched, LastTouch
  <2> QED BY <2>2, <2>3
<1> QED BY <1>2, <1>4 DEF StillKept, Kept, Moved
LEMMA WriteChanges ==
    ASSUME Typed, NEW p \in Paths, NEW file, NEW writer, Write(p, file, writer)
    PROVE  /\ disk'[p] = file /\ \A o \in Paths \ {p} : disk'[o] = disk[o]
           /\ writer \in Requests => others'[writer] = others[writer]
           /\ \A q \in Requests : q # writer => others'[q] = others[q] \cup {p}
BY DEF Typed, Write

LEMMA WritesKeeping ==
    ASSUME FilesAreKept, NEW r \in Requests, apply_operation(r)
    PROVE  StillKept(r)
<1> DEFINE q == requests[r]
           next == requests[r].applied + 1
           at == IF requests[r].applied + 1 = Len(requests[r].plan) THEN "committed" ELSE "read"
           written == NextOperation(r).path
           text == NextOperation(r).text
           file == IF text = Absent THEN Absent ELSE Written(written, text)
<1>1. /\ Consistent /\ Typed /\ AreRecords /\ IsRequest(q) /\ Staged(q) /\ q.at = "write"
      /\ Kept(q, checked[r], others[r], disk) /\ UNCHANGED checked /\ Write(written, file, r)
      /\ At(r, "write")
  BY DEF apply_operation, At, FilesAreKept, Consistent, Typed
<1>2. Moved(r, at, q.todo, q.plan, q.preimages, q.applied + 1)
  BY <1>1, OperationsAreCounted DEF apply_operation
<1>3. q.applied \in Nat /\ Len(q.plan) \in Nat /\ q.applied < Len(q.plan) /\ q.todo = {}
  BY <1>1 DEF IsRequest, Staged
<1>4. next \in 1 .. Len(q.plan) /\ next \in Nat /\ q.plan[next].path = written /\ q.plan[next].text = text
  BY <1>3 DEF NextOperation
<1>5. written \in Paths /\ text \in Texts \cup {Absent}
  BY <1>1, WritersAreTyped
<1>6. TextIn(file) = text
  <2>1. Absent \notin Files
    BY PatchAssumption
  <2>2. text # Absent => Written(written, text) \in Files
    BY <1>1, WritersAreTyped
  <2>3. Written(written, text).text = text
    BY DEF Written
  <2> QED BY <2>1, <2>2, <2>3 DEF TextIn
<1>7. /\ disk'[written] = file /\ \A o \in Paths \ {written} : disk'[o] = disk[o]
      /\ others'[r] = others[r]
  BY <1>1, <1>5, WriteChanges
<1>8. PathsOf(q.patch) \subseteq Paths
  BY DEF PathsOf
<1>9. /\ requests'[r].at \in {"committed", "read"} /\ requests'[r].plan = q.plan
      /\ requests'[r].applied = next /\ requests'[r].preimages = q.preimages
      /\ requests'[r].patch = q.patch /\ requests'[r].base = q.base
      /\ requests'[r].todo = q.todo /\ checked'[r] = checked[r]
  BY <1>1, <1>2 DEF Moved
<1>10. \A i \in 1 .. next : i = next \/ i \in 1 .. q.applied
  BY <1>3
<1>11. \A i : (\A j \in i + 1 .. q.applied : j \in i + 1 .. next)
  BY <1>3
<1>12. \A i \in 1 .. q.applied : i \in 1 .. next /\ next \in i + 1 .. next
  BY <1>3
<1>13. next \in 1 .. next
  BY <1>3
<1> HIDE DEF next, written, file, text, q, at
<1>14. ASSUME NEW p \in PathsOf(q.patch)
       PROVE  /\ CheckedFile(requests'[r], checked'[r], p)
              /\ p \notin others'[r] => KeptFile(requests'[r], checked'[r], disk', p)
  <2>1. CheckedFile(q, checked[r], p) /\ (p \notin others[r] => KeptFile(q, checked[r], disk, p))
    BY <1>1 DEF Kept
  <2>2. CheckedFile(requests'[r], checked'[r], p)
    BY <1>1, <1>9, <2>1 DEF CheckedFile
  <2>3. ASSUME p \notin others'[r] PROVE KeptFile(requests'[r], checked'[r], disk', p)
    <3>1. KeptFile(q, checked[r], disk, p)
      BY <1>7, <2>1, <2>3
    <3>2. CASE p = written
      <4>1. Touched(requests'[r], p)
        BY <1>4, <1>9, <1>13, <3>2 DEF Touched
      <4>2. ASSUME NEW i \in 1 .. next, LastTouch(requests'[r], p, i)
            PROVE  TextIn(disk'[p]) = q.plan[i].text
        <5>1. i = next
          BY <1>4, <1>9, <1>10, <1>12, <3>2, <4>2 DEF LastTouch
        <5> QED BY <1>4, <1>6, <1>7, <3>2, <5>1
      <4> QED BY <1>9, <3>1, <4>1, <4>2 DEF KeptFile
    <3>3. CASE p # written
      <4>1. disk'[p] = disk[p]
        BY <1>7, <1>8, <3>3
      <4>2. ~Touched(requests'[r], p) => ~Touched(q, p)
        BY <1>9, <1>12 DEF Touched
      <4>3. ASSUME NEW i \in 1 .. next, LastTouch(requests'[r], p, i)
            PROVE  i \in 1 .. q.applied /\ LastTouch(q, p, i)
        <5>1. i # next
          BY <1>4, <1>9, <3>3, <4>3 DEF LastTouch
        <5> QED BY <1>9, <1>10, <1>11, <4>3, <5>1 DEF LastTouch
      <4> QED BY <1>1, <1>9, <3>1, <4>1, <4>2, <4>3 DEF KeptFile
    <3> QED BY <3>2, <3>3
  <2> QED BY <2>2, <2>3
<1> QED BY <1>9, <1>14 DEF StillKept, Kept, q

LEMMA RollsBackKeeping ==
    ASSUME FilesAreKept, NEW r \in Requests, rollback(r)
    PROVE  StillKept(r)
<1> DEFINE q == requests[r]
           at == IF requests[r].applied = 1 THEN "rolled_back" ELSE "rollback"
           undone == LastOperation(r).path
           file == Restored(requests[r].preimages[LastOperation(r).path])
<1>1. /\ Consistent /\ Typed /\ AreRecords /\ IsRequest(q) /\ Staged(q) /\ q.at = "rollback"
      /\ Kept(q, checked[r], others[r], disk) /\ UNCHANGED checked /\ Write(undone, file, r)
      /\ At(r, "rollback")
  BY DEF rollback, At, FilesAreKept, Consistent, Typed
<1>2. Moved(r, at, q.todo, q.plan, q.preimages, q.applied - 1)
  BY <1>1, OperationsAreCounted DEF rollback
<1>3. q.applied \in Nat /\ q.applied > 0
  BY <1>1 DEF IsRequest, Staged
<1>4. q.plan[q.applied].path = undone
  BY DEF LastOperation
<1>5. undone \in Paths /\ q.preimages[undone] \in Files \cup {Absent}
  BY <1>1, WritersAreTyped
<1>6. SameContent(file, q.preimages[undone])
  <2>1. q.preimages[undone] \in Files => file # Absent
    <3>1. Absent \notin Files
      BY PatchAssumption
    <3>2. Restored(q.preimages[undone]) \in Files \/ q.preimages[undone] = Absent
      BY <1>5 DEF Restored, Files
    <3> QED BY <3>1, <3>2
  <2>2. CASE q.preimages[undone] = Absent
    BY <2>2 DEF SameContent, Restored
  <2>3. CASE q.preimages[undone] # Absent
    BY <1>5, <2>1, <2>3 DEF SameContent, Restored
  <2> QED BY <2>2, <2>3
<1>7. /\ disk'[undone] = file /\ \A o \in Paths \ {undone} : disk'[o] = disk[o]
      /\ others'[r] = others[r]
  BY <1>1, <1>5, WriteChanges
<1>8. PathsOf(q.patch) \subseteq Paths /\ None \notin Files \cup {Absent}
  BY PatchAssumption DEF PathsOf
<1>9. /\ requests'[r].at \in {"rolled_back", "rollback"} /\ requests'[r].plan = q.plan
      /\ requests'[r].applied = q.applied - 1 /\ requests'[r].preimages = q.preimages
      /\ requests'[r].patch = q.patch /\ requests'[r].base = q.base
      /\ requests'[r].todo = q.todo /\ checked'[r] = checked[r]
  BY <1>1, <1>2 DEF Moved
<1>10. \A i \in 1 .. q.applied : i = q.applied \/ i \in 1 .. q.applied - 1
  BY <1>3
<1> HIDE DEF undone, file, q, at
<1>11. ASSUME NEW p \in PathsOf(q.patch)
       PROVE  /\ CheckedFile(requests'[r], checked'[r], p)
              /\ p \notin others'[r] => KeptFile(requests'[r], checked'[r], disk', p)
  <2>1. CheckedFile(q, checked[r], p) /\ (p \notin others[r] => KeptFile(q, checked[r], disk, p))
    BY <1>1 DEF Kept
  <2>2. CheckedFile(requests'[r], checked'[r], p)
    BY <1>1, <1>9, <2>1 DEF CheckedFile
  <2>3. ASSUME p \notin others'[r] PROVE KeptFile(requests'[r], checked'[r], disk', p)
    <3>1. KeptFile(q, checked[r], disk, p)
      BY <1>7, <2>1, <2>3
    <3>2. ~Touched(requests'[r], p) => SameContent(disk'[p], checked[r][p])
      <4>1. CASE p = undone
        BY <1>5, <1>6, <1>7, <1>8, <3>1, <4>1 DEF KeptFile
      <4>2. CASE p # undone
        <5>1. ~Touched(requests'[r], p) => ~Touched(q, p)
          BY <1>4, <1>9, <1>10, <4>2 DEF Touched
        <5>2. disk'[p] = disk[p]
          BY <1>7, <1>8, <4>2
        <5> QED BY <1>1, <3>1, <5>1, <5>2 DEF KeptFile
      <4> QED BY <4>1, <4>2
    <3> QED BY <1>9, <3>1, <3>2 DEF KeptFile
  <2> QED BY <2>2, <2>3
<1> QED BY <1>9, <1>11 DEF StillKept, Kept, q

LEMMA FilesAreKeptNext == FilesAreKept /\ [Next]_vars => FilesAreKept'
<1> SUFFICES ASSUME FilesAreKept, [Next]_vars PROVE FilesAreKept'
  OBVIOUS
<1>1. /\ Consistent /\ Typed /\ AreRecords
      /\ \A r \in Requests : Kept(requests[r], checked[r], others[r], disk)
      /\ \A r \in Requests : PathsOf(requests[r].patch) \subseteq Paths
  BY DEF FilesAreKept, Consistent, Typed, PathsOf
<1>2. Consistent'
  BY <1>1, ConsistentNext
<1> DEFINE Goal == \A r \in Requests : StillKept(r)
<1>3. ASSUME UNCHANGED <<requests, checked, others, disk>> PROVE Goal
  BY <1>1, <1>3 DEF StillKept
<1>4. ASSUME NEW r \in Requests, StillRequests(r), StillKept(r),
             \A q \in Requests \ {r} : checked'[q] = checked[q] /\ others[q] \subseteq others'[q],
             \A q \in Requests \ {r} : \A p \in Paths \ others'[q] : disk'[p] = disk[p]
      PROVE  Goal
  <2>1. ASSUME NEW q \in Requests \ {r} PROVE StillKept(q)
    <3>1. /\ requests'[q] = requests[q] /\ checked'[q] = checked[q] /\ others[q] \subseteq others'[q]
          /\ \A p \in Paths \ others'[q] : disk'[p] = disk[p]
          /\ Kept(requests[q], checked[q], others[q], disk)
          /\ PathsOf(requests[q].patch) \subseteq Paths
      BY <1>1, <1>4 DEF StillRequests
    <3> QED BY <3>1, OthersKeep
  <2> QED BY <1>4, <2>1
<1>5. ASSUME \E v \in Previews, patch \in Patches : preview(v, patch) PROVE Goal
  BY <1>3, <1>5 DEF preview
<1>6. ASSUME NEW r \in Requests, NEW v \in Previews, BeginApply(r, v) PROVE Goal
  <2>1. StillRequests(r) /\ StillKept(r)
    BY <1>1, <1>6, BeginsRight, BeginsKeeping
  <2> QED BY <1>4, <1>6, <2>1 DEF BeginApply
<1>7. ASSUME NEW r \in Requests, CheckBase(r) PROVE Goal
  <2>1. StillRequests(r) /\ StillKept(r)
    BY <1>1, <1>7, ChecksRight, ChecksKeeping
  <2>2. \A q \in Requests \ {r} : checked'[q] = checked[q] /\ others'[q] = others[q]
    BY <1>1, <1>7 DEF CheckBase, Typed
  <2> QED BY <1>4, <1>7, <2>1, <2>2 DEF CheckBase
<1>8. ASSUME NEW r \in Requests, PlanSection(r) PROVE Goal
  <2>1. StillRequests(r) /\ StillKept(r)
    BY <1>1, <1>8, PlansRight, PlansKeeping
  <2> QED BY <1>4, <1>8, <2>1 DEF PlanSection
<1>9. ASSUME NEW r \in Requests, read_preimage(r) PROVE Goal
  <2>1. StillRequests(r) /\ StillKept(r)
    BY <1>1, <1>9, ReadsRight, ReadsKeeping
  <2> QED BY <1>4, <1>9, <2>1 DEF read_preimage
<1>10. ASSUME NEW r \in Requests, NEW p \in Paths, NEW file, Write(p, file, r),
              StillRequests(r), StillKept(r), UNCHANGED checked
       PROVE  Goal
  <2>1. /\ \A q \in Requests \ {r} : others'[q] = others[q] \cup {p}
        /\ \A o \in Paths \ {p} : disk'[o] = disk[o]
    BY <1>1, <1>10, WriteChanges
  <2>2. \A q \in Requests \ {r} : \A o \in Paths \ others'[q] : disk'[o] = disk[o]
    BY <2>1
  <2> QED BY <1>4, <1>10, <2>1, <2>2
<1>11. ASSUME NEW r \in Requests, apply_operation(r) PROVE Goal
  <2>1. StillRequests(r) /\ StillKept(r)
    BY <1>1, <1>11, WritesRight, WritesKeeping
  <2>2. NextOperation(r).path \in Paths
    BY <1>1, <1>11, WritersAreTyped DEF apply_operation
  <2> QED BY <1>10, <1>11, <2>1, <2>2 DEF apply_operation
<1>12. ASSUME NEW r \in Requests, FailOperation(r) PROVE Goal
  <2>1. StillRequests(r) /\ StillKept(r)
    BY <1>1, <1>12, FailsRight, FailsKeeping
  <2> QED BY <1>4, <1>12, <2>1 DEF FailOperation
<1>13. ASSUME NEW r \in Requests, rollback(r) PROVE Goal
  <2>1. StillRequests(r) /\ StillKept(r)
    BY <1>1, <1>13, RollsBackRight, RollsBackKeeping
  <2>2. LastOperation(r).path \in Paths
    BY <1>1, <1>13, WritersAreTyped DEF rollback
  <2> QED BY <1>10, <1>13, <2>1, <2>2 DEF rollback
<1>14. ASSUME NEW r \in Requests, FailRollback(r) PROVE Goal
  <2>1. StillRequests(r)
    BY <1>1, <1>14, RollbackFailsRight
  <2>2. Moved(r, "rollback_failed", requests[r].todo, requests[r].plan, requests[r].preimages,
              requests[r].applied)
    BY <1>1, <1>14, StageMoves DEF FailRollback
  <2>3. requests'[r].at = "rollback_failed"
    BY <2>2 DEF Moved
  <2>4. StillKept(r)
    BY <1>14, <2>2, <2>3, StagesKeep DEF FailRollback, At
  <2> QED BY <1>4, <1>14, <2>1, <2>4 DEF FailRollback
<1>15. ASSUME Crash PROVE Goal
  <2>1. ASSUME NEW r \in Requests PROVE StillKept(r)
    <3>1. CASE Active(r)
      <4>1. /\ requests'[r].at = "crashed" /\ requests'[r].todo = requests[r].todo
            /\ requests'[r].plan = requests[r].plan
            /\ requests'[r].preimages = requests[r].preimages
            /\ requests'[r].applied = requests[r].applied
            /\ requests'[r].patch = requests[r].patch
            /\ requests'[r].base = requests[r].base
        BY <1>1, <1>15, <3>1 DEF Crash, AreRecords, Fields
      <4>2. requests[r].at # "idle" /\ UNCHANGED <<disk, checked, others>>
        BY <1>15, <3>1 DEF Active, At, Crash
      <4>3. ASSUME NEW p \in PathsOf(requests[r].patch)
            PROVE  /\ CheckedFile(requests'[r], checked'[r], p)
                   /\ p \notin others'[r] => KeptFile(requests'[r], checked'[r], disk', p)
        <5>1. /\ CheckedFile(requests[r], checked[r], p)
              /\ p \notin others[r] => KeptFile(requests[r], checked[r], disk, p)
          BY <1>1 DEF Kept
        <5>2. CheckedFile(requests'[r], checked'[r], p)
          BY <4>1, <4>2, <5>1 DEF CheckedFile
        <5>3. p \notin others'[r] => KeptFile(requests'[r], checked'[r], disk', p)
          BY <4>1, <4>2, <5>1 DEF KeptFile
        <5> QED BY <5>2, <5>3
      <4> QED BY <4>1, <4>3 DEF StillKept, Kept
    <3>2. CASE ~Active(r)
      BY <1>1, <1>15, <3>2 DEF Crash, StillKept
    <3> QED BY <3>1, <3>2
  <2> QED BY <2>1
<1>16. ASSUME NEW p \in Paths, EditFile(p) PROVE Goal
  <2>1. PICK file : Write(p, file, None) /\ UNCHANGED <<requests, checked>>
    BY <1>16 DEF EditFile
  <2>2. None \notin Requests
    BY PatchAssumption
  <2>3. /\ \A o \in Paths \ {p} : disk'[o] = disk[o]
        /\ \A q \in Requests : others'[q] = others[q] \cup {p}
    BY <1>1, <2>1, <2>2, WriteChanges
  <2>4. ASSUME NEW r \in Requests PROVE StillKept(r)
    BY <1>1, <2>1, <2>3, OthersKeep
  <2> QED BY <2>4
<1>17. Goal
  <2>1. CASE UNCHANGED vars
    BY <1>3, <2>1 DEF vars
  <2>2. CASE Next
    BY <1>5, <1>6, <1>7, <1>8, <1>9, <1>11, <1>12, <1>13, <1>14, <1>15, <1>16, <2>2 DEF Next
  <2> QED BY <2>1, <2>2
<1> QED BY <1>2, <1>17 DEF FilesAreKept, StillKept

LEMMA FilesAlwaysKept == Spec => []FilesAreKept
<1>1. Init => FilesAreKept
  <2> SUFFICES ASSUME Init PROVE FilesAreKept
    OBVIOUS
  <2>1. ASSUME NEW r \in Requests PROVE Kept(requests[r], checked[r], others[r], disk)
    <3>1. requests[r].patch = <<>>
      BY DEF Init
    <3>2. PathsOf(requests[r].patch) = {}
      BY <3>1 DEF PathsOf, SectionsOf
    <3> QED BY <3>2 DEF Kept
  <2> QED BY <2>1, ConsistentInit DEF FilesAreKept
<1>2. FilesAreKept /\ [Next]_vars => FilesAreKept'
  BY FilesAreKeptNext
<1> QED BY <1>1, <1>2, PTL DEF Spec

(* When an apply reports that it rolled back, each of its files that       *)
(* nobody else wrote has the text and the mode that the apply found, and   *)
(* one that was absent is absent again, even if the patch wrote the file   *)
(* more than once (FileTransaction.commit and _rollback).                  *)
THEOREM RolledBackFilesAreRestored == Spec => []RolledBackIsRestored
<1>1. FilesAreKept => RolledBackIsRestored
  <2> SUFFICES ASSUME FilesAreKept, NEW r \in Requests, NEW p \in Undisturbed(r), At(r, "rolled_back")
               PROVE  SameContent(disk[p], checked[r][p])
    BY DEF RolledBackIsRestored, SameContent, Exists
  <2>1. p \in PathsOf(requests[r].patch) /\ p \notin others[r]
    BY DEF Undisturbed
  <2>2. KeptFile(requests[r], checked[r], disk, p)
    BY <2>1 DEF FilesAreKept, Kept
  <2>3. requests[r].at = "rolled_back" /\ requests[r].applied = 0
    BY DEF FilesAreKept, Consistent, Staged, At
  <2>4. ~Touched(requests[r], p)
    BY <2>3 DEF Touched
  <2> QED BY <2>2, <2>3, <2>4 DEF KeptFile
<1> QED BY <1>1, FilesAlwaysKept, PTL
-----------------------------------------------------------------------------
(* Hunks that are in place: applied from the first to the last, each where *)
(* the old text had its lines, they make the text that the diff stands for.*)

Fits(hunk, t) == hunk.start > 0 /\ hunk.count > 0 /\ hunk.start + hunk.count - 1 <= Len(t)
OldLines(hunk) == hunk.start .. hunk.start + hunk.count - 1

IsWhole(whole, s, t, u) ==
    /\ whole \in Texts
    /\ Len(whole) = Len(s) + Len(t) + Len(u)
    /\ \A k \in 1 .. Len(s) + Len(t) + Len(u) :
           whole[k] = IF k <= Len(s) THEN s[k]
                      ELSE IF k <= Len(s) + Len(t) THEN t[k - Len(s)]
                      ELSE u[k - Len(s) - Len(t)]

LEMMA ThreeTexts ==
    ASSUME NEW s \in Texts, NEW t \in Texts, NEW u \in Texts, NEW whole, whole = s \o t \o u
    PROVE  IsWhole(whole, s, t, u)
BY DEF Texts, IsWhole

(* Both ways to put a hunk where it is in place.                           *)
LEMMA PutIsWhole ==
    ASSUME NEW t \in Texts, NEW hunk \in Hunks, Fits(hunk, t)
    PROVE  /\ Put(t, hunk) = SubSeq(t, 1, hunk.start - 1) \o hunk.new
                                 \o SubSeq(t, hunk.start - 1 + hunk.count + 1, Len(t))
           /\ Splice(t, hunk) = Put(t, hunk)
<1>1. hunk.start \in Nat /\ hunk.count \in Nat /\ Len(t) \in Nat
  BY DEF Hunks, Texts
<1>2. hunk.count # 0
  BY <1>1 DEF Fits
<1>3. Cut(t, hunk.start - 1) = hunk.start - 1
  <2>1. hunk.start - 1 \in 0 .. Len(t)
    BY <1>1 DEF Fits
  <2>2. ~(hunk.start - 1 < -Len(t)) /\ (hunk.start - 1 \notin -Len(t) .. -1)
    BY <1>1, <2>1
  <2> QED BY <2>1, <2>2 DEF Cut
<1>4. Cut(t, hunk.start - 1 + hunk.count) = hunk.start - 1 + hunk.count
  <2>1. hunk.start - 1 + hunk.count \in 0 .. Len(t)
    BY <1>1 DEF Fits
  <2>2. /\ ~(hunk.start - 1 + hunk.count < -Len(t))
        /\ hunk.start - 1 + hunk.count \notin -Len(t) .. -1
    BY <1>1, <2>1
  <2> QED BY <2>1, <2>2 DEF Cut
<1>5. Put(t, hunk) = SubSeq(t, 1, hunk.start - 1) \o hunk.new
                        \o SubSeq(t, hunk.start - 1 + hunk.count + 1, Len(t))
  BY <1>2, Zenon DEF Put
<1>6. Splice(t, hunk) = SubSeq(t, 1, hunk.start - 1) \o hunk.new
                           \o SubSeq(t, hunk.start - 1 + hunk.count + 1, Len(t))
  BY <1>3, <1>4, Zenon DEF Splice, Before, From
<1> QED BY <1>5, <1>6, Zenon

IsPut(put, t, hunk) ==
    /\ put \in Texts
    /\ Len(put) = Len(t) - hunk.count + Len(hunk.new)
    /\ \A k \in 1 .. Len(t) - hunk.count + Len(hunk.new) :
           put[k] = IF k < hunk.start THEN t[k]
                    ELSE IF k < hunk.start + Len(hunk.new) THEN hunk.new[k - hunk.start + 1]
                    ELSE t[k - Len(hunk.new) + hunk.count]

LEMMA PutLines ==
    ASSUME NEW t \in Texts, NEW hunk \in Hunks, Fits(hunk, t), NEW put, put = Put(t, hunk)
    PROVE  IsPut(put, t, hunk)
<1>0. Put(t, hunk) = SubSeq(t, 1, hunk.start - 1) \o hunk.new
                      \o SubSeq(t, hunk.start - 1 + hunk.count + 1, Len(t))
  BY PutIsWhole, Zenon
<1>1. PICK s \in Nat : s = hunk.start
  BY DEF Hunks
<1>2. PICK c \in Nat : c = hunk.count
  BY DEF Hunks
<1>3. PICK new \in Texts : new = hunk.new
  BY DEF Hunks
<1>4. PICK m \in Nat : m = Len(new)
  BY DEF Texts
<1>5. PICK n \in Nat : n = Len(t)
  BY DEF Texts
<1>6. s > 0 /\ c > 0 /\ s + c - 1 <= n
  BY <1>1, <1>2, <1>5 DEF Fits
<1>7. PICK head : head = SubSeq(t, 1, hunk.start - 1)
  OBVIOUS
<1>8. PICK tail : tail = SubSeq(t, hunk.start - 1 + hunk.count + 1, Len(t))
  OBVIOUS
<1>9. put = head \o new \o tail
  BY <1>0, <1>3, <1>7, <1>8, Zenon
<1>10. head \in Texts /\ Len(head) = s - 1 /\ \A k \in 1 .. s - 1 : head[k] = t[k]
  <2>1. s - 1 \in 0 .. Len(t) /\ (s - 1) + 1 - 1 = s - 1
    BY <1>5, <1>6
  <2>2. head = SubSeq(t, 1, s - 1)
    BY <1>1, <1>7, Zenon
  <2>3. 1 \in Nat /\ 1 >= 1 /\ 1 <= (s - 1) + 1
    BY <1>6
  <2>4. \A k \in 1 .. s - 1 : 1 + k - 1 = k
    OBVIOUS
  <2> QED BY <2>1, <2>2, <2>3, <2>4, PartsOfTexts
<1>11. /\ tail \in Texts /\ Len(tail) = n + 1 - (s + c)
       /\ \A k \in 1 .. n + 1 - (s + c) : tail[k] = t[s + c + k - 1]
  <2>1. n \in 0 .. Len(t) /\ s + c \in Nat /\ s + c >= 1 /\ s + c <= n + 1 /\ s - 1 + c + 1 = s + c
    BY <1>5, <1>6
  <2>2. tail = SubSeq(t, s + c, n)
    <3>1. tail = SubSeq(t, s - 1 + c + 1, n)
      BY <1>1, <1>2, <1>5, <1>8, Zenon
    <3> QED BY <2>1, <3>1, Zenon
  <2> QED BY <2>1, <2>2, PartsOfTexts
<1>12. /\ put \in Texts
       /\ Len(put) = Len(head) + Len(new) + Len(tail)
       /\ \A k \in 1 .. Len(head) + Len(new) + Len(tail) :
              put[k] = IF k <= Len(head) THEN head[k]
                       ELSE IF k <= Len(head) + Len(new) THEN new[k - Len(head)]
                       ELSE tail[k - Len(head) - Len(new)]
  <2>1. IsWhole(put, head, new, tail)
    BY <1>9, <1>10, <1>11, ThreeTexts, Zenon
  <2> QED BY <2>1 DEF IsWhole
<1>13. Len(head) + Len(new) + Len(tail) = n - c + m
  BY <1>4, <1>10, <1>11
<1>14. ASSUME NEW k \in 1 .. n - c + m
       PROVE  put[k] = IF k < s THEN t[k] ELSE IF k < s + m THEN new[k - s + 1] ELSE t[k - m + c]
  <2>1. put[k] = IF k <= s - 1 THEN head[k]
                 ELSE IF k <= s - 1 + m THEN new[k - (s - 1)]
                 ELSE tail[k - (s - 1) - m]
    BY <1>4, <1>10, <1>12, <1>13
  <2>2. CASE k < s
    <3>1. k \in 1 .. s - 1 /\ k <= s - 1
      BY <2>2
    <3> QED BY <1>10, <2>1, <2>2, <3>1
  <2>3. CASE ~(k < s) /\ k < s + m
    <3>1. k <= s - 1 + m /\ ~(k <= s - 1) /\ k - (s - 1) = k - s + 1
      BY <2>3
    <3> QED BY <2>1, <2>3, <3>1
  <2>4. CASE ~(k < s + m)
    <3>1. /\ ~(k <= s - 1) /\ ~(k <= s - 1 + m) /\ k - (s - 1) - m \in 1 .. n + 1 - (s + c)
          /\ s + c + (k - (s - 1) - m) - 1 = k - m + c /\ ~(k < s)
      BY <2>4
    <3> QED BY <1>11, <2>1, <2>4, <3>1
  <2> QED BY <2>2, <2>3, <2>4
<1> QED BY <1>1, <1>2, <1>3, <1>4, <1>5, <1>12, <1>13, <1>14 DEF IsPut

(* u is t with the hunks numbered in I made to it, which keep its length.  *)
Painted(t, u, hunks, I) ==
    /\ u \in Texts /\ Len(u) = Len(t)
    /\ \A k \in 1 .. Len(t) :
           /\ \A i \in I : k \in OldLines(hunks[i]) => u[k] = hunks[i].new[k - hunks[i].start + 1]
           /\ (\A i \in I : k \notin OldLines(hunks[i])) => u[k] = t[k]

LEMMA PutPaints ==
    ASSUME NEW t \in Texts, NEW u, NEW hunks, NEW I, Painted(t, u, hunks, I), NEW j,
           hunks[j] \in Hunks, Fits(hunks[j], t), Len(hunks[j].new) = hunks[j].count,
           \A i \in I : OldLines(hunks[i]) \cap OldLines(hunks[j]) = {}
    PROVE  Painted(t, Put(u, hunks[j]), hunks, I \cup {j})
<1>1. PICK s \in Nat : s = hunks[j].start
  BY DEF Hunks
<1>2. PICK c \in Nat : c = hunks[j].count
  BY DEF Hunks
<1>3. PICK n \in Nat : n = Len(t)
  BY DEF Texts
<1>4. u \in Texts /\ Len(u) = n /\ Fits(hunks[j], u)
  BY <1>3 DEF Painted, Fits
<1>5. PICK v : v = Put(u, hunks[j])
  OBVIOUS
<1>6. IsPut(v, u, hunks[j])
  BY <1>4, <1>5, PutLines, Zenon
<1>7. /\ Len(v) = n
      /\ \A k \in 1 .. n : v[k] = IF k < s THEN u[k]
                                  ELSE IF k < s + c THEN hunks[j].new[k - s + 1]
                                  ELSE u[k]
  <2>1. n - c + c = n /\ \A k \in 1 .. n : k - c + c = k
    OBVIOUS
  <2> QED BY <1>1, <1>2, <1>4, <1>6, <2>1 DEF IsPut
<1>8. OldLines(hunks[j]) = s .. s + c - 1
  BY <1>1, <1>2 DEF OldLines
<1>9. ASSUME NEW k \in 1 .. n
      PROVE  /\ \A i \in I \cup {j} :
                    k \in OldLines(hunks[i]) => v[k] = hunks[i].new[k - hunks[i].start + 1]
             /\ (\A i \in I \cup {j} : k \notin OldLines(hunks[i])) => v[k] = t[k]
  <2>1. CASE k \in OldLines(hunks[j])
    <3>1. ~(k < s) /\ k < s + c
      BY <1>8, <2>1
    <3>2. v[k] = hunks[j].new[k - s + 1]
      BY <1>7, <3>1
    <3>3. \A i \in I : k \notin OldLines(hunks[i])
      BY <2>1
    <3> QED BY <1>1, <2>1, <3>2, <3>3
  <2>2. CASE k \notin OldLines(hunks[j])
    <3>1. k < s \/ ~(k < s + c)
      BY <1>8, <2>2
    <3>2. v[k] = u[k]
      BY <1>7, <3>1
    <3> QED BY <1>3, <2>2, <3>2 DEF Painted
  <2> QED BY <2>1, <2>2
<1> QED BY <1>3, <1>5, <1>6, <1>7, <1>9 DEF Painted, IsPut

PutsLast(put, t, hunks, N) ==
    /\ put[0] = t
    /\ \A n \in 1 .. N : put[n] = Put(put[n - 1], hunks[N + 1 - n])

(* The recursive definition of the text that a diff stands for.            *)
LEMMA PutLastSteps ==
    ASSUME NEW t, NEW hunks, NEW N \in Nat, N = Len(hunks), NEW course, course = PutLast(t, hunks)
    PROVE  PutsLast(course, t, hunks, N)
<1> DEFINE Course(f, n) == /\ f = [m \in 0 .. n |-> f[m]] /\ f[0] = t
                           /\ \A m \in 1 .. n : f[m] = Put(f[m - 1], hunks[N + 1 - m])
           T == {n \in Nat : \E f : Course(f, n)}
<1>1. 0 \in T
  <2>1. Course([m \in 0 .. 0 |-> t], 0)
    OBVIOUS
  <2> QED BY <2>1
<1>2. ASSUME NEW n \in Nat, n \in T PROVE n + 1 \in T
  <2>1. PICK g : Course(g, n)
    BY <1>2
  <2> DEFINE f == [m \in 0 .. n + 1 |-> IF m <= n THEN g[m] ELSE Put(g[n], hunks[N + 1 - (n + 1)])]
  <2>2. f = [m \in 0 .. n + 1 |-> f[m]] /\ f[0] = t
    BY <2>1
  <2>3. ASSUME NEW m \in 1 .. n + 1 PROVE f[m] = Put(f[m - 1], hunks[N + 1 - m])
    <3>1. CASE m <= n
      <4>1. m \in 1 .. n /\ m \in 0 .. n + 1 /\ m - 1 \in 0 .. n + 1 /\ m - 1 <= n
        BY <3>1
      <4>2. f[m] = g[m] /\ f[m - 1] = g[m - 1]
        BY <3>1, <4>1
      <4> QED BY <2>1, <4>1, <4>2
    <3>2. CASE m = n + 1
      <4>1. m - 1 = n /\ n \in 0 .. n + 1 /\ m \in 0 .. n + 1 /\ ~(m <= n)
        BY <3>2
      <4>2. f[m] = Put(g[n], hunks[N + 1 - m]) /\ f[n] = g[n]
        BY <3>2, <4>1
      <4> QED BY <4>1, <4>2
    <3> QED BY <3>1, <3>2
  <2> HIDE DEF f
  <2>4. Course(f, n + 1)
    BY <2>2, <2>3
  <2> HIDE DEF Course
  <2>5. \E run : Course(run, n + 1)
    BY <2>4
  <2>6. n + 1 \in Nat
    OBVIOUS
  <2> QED BY <2>5, <2>6
<1> HIDE DEF T
<1>3. N \in T
  BY <1>1, <1>2, Induction
<1>4. PICK f : Course(f, N)
  BY <1>3 DEF T
<1> DEFINE Body(g) == [n \in 0 .. N |-> IF n = 0 THEN t ELSE Put(g[n - 1], hunks[N + 1 - n])]
<1>5. f = Body(f)
  <2>1. ASSUME NEW n \in 0 .. N PROVE f[n] = Body(f)[n]
    <3>1. CASE n = 0
      BY <1>4, <3>1
    <3>2. CASE n # 0
      <4>1. n \in 1 .. N
        BY <3>2
      <4> QED BY <1>4, <3>2, <4>1
    <3> QED BY <3>1, <3>2
  <2> QED BY <1>4, <2>1
<1> DEFINE put == PutLast(t, hunks)
<1>6. put = Body(put)
  BY <1>5 DEF PutLast
<1> HIDE DEF put
<1>7. put[0] = t
  BY <1>6
<1>8. ASSUME NEW n \in 1 .. N PROVE put[n] = Put(put[n - 1], hunks[N + 1 - n])
  <2>1. n \in 0 .. N /\ n # 0
    OBVIOUS
  <2> QED BY <1>6, <2>1
<1> QED BY <1>7, <1>8 DEF put, PutsLast

LEMMA InPlaceHunksFit ==
    ASSUME NEW t \in Texts, NEW hunks \in Seq(Hunks), HunksInPlace(hunks, t),
           NEW N \in Nat, N = Len(hunks)
    PROVE  /\ \A i \in 1 .. N : hunks[i] \in Hunks /\ Fits(hunks[i], t)
           /\ \A i \in 1 .. N - 1 : Len(hunks[i].new) = hunks[i].count
           /\ \A i, j \in 1 .. N : i < j => OldLines(hunks[i]) \cap OldLines(hunks[j]) = {}
           /\ \A i, j \in 1 .. N : i < j => \A k \in OldLines(hunks[i]) : k < hunks[j].start
<1>1. ASSUME NEW i \in 1 .. N PROVE hunks[i] \in Hunks /\ Fits(hunks[i], t)
  BY DEF HunksInPlace, Fits
<1>2. \A i \in 1 .. N - 1 : Len(hunks[i].new) = hunks[i].count
  BY DEF HunksInPlace
<1>3. ASSUME NEW i \in 1 .. N, NEW j \in 1 .. N, i < j
      PROVE  /\ OldLines(hunks[i]) \cap OldLines(hunks[j]) = {}
             /\ \A k \in OldLines(hunks[i]) : k < hunks[j].start
  <2>1. hunks[i].start + hunks[i].count <= hunks[j].start
    BY <1>3 DEF HunksInPlace
  <2>2. /\ hunks[i].start \in Nat /\ hunks[i].count \in Nat
        /\ hunks[j].start \in Nat /\ hunks[j].count \in Nat
    BY <1>1 DEF Hunks
  <2> QED BY <2>1, <2>2 DEF OldLines
<1> QED BY <1>1, <1>2, <1>3

(* All hunks but the last, from the first on ...                           *)
LEMMA FirstHunksPaint ==
    ASSUME NEW t \in Texts, NEW hunks \in Seq(Hunks), HunksInPlace(hunks, t),
           NEW N \in Nat, N = Len(hunks), N > 0
    PROVE  /\ Painted(t, AfterHunks(t, hunks)[N - 1], hunks, 1 .. N - 1)
           /\ AfterHunks(t, hunks)[N] = Put(AfterHunks(t, hunks)[N - 1], hunks[N])
<1> DEFINE after == AfterHunks(t, hunks)
<1>1. /\ after[0] = t
      /\ \A n \in 1 .. N : after[n] = Splice(after[n - 1], hunks[n])
  BY AfterHunksSteps
<1> HIDE DEF after
<1> DEFINE T == {n \in Nat : n <= N - 1 => Painted(t, after[n], hunks, 1 .. n)}
<1>2. 0 \in T
  <2>1. Painted(t, t, hunks, {})
    BY DEF Painted
  <2>2. 1 .. 0 = {}
    OBVIOUS
  <2> QED BY <1>1, <2>1, <2>2
<1>3. ASSUME NEW n \in Nat, n \in T PROVE n + 1 \in T
  <2>1. ASSUME n + 1 <= N - 1 PROVE Painted(t, after[n + 1], hunks, 1 .. n + 1)
    <3>1. Painted(t, after[n], hunks, 1 .. n)
      BY <1>3, <2>1
    <3>2. n + 1 \in 1 .. N - 1 /\ n + 1 \in 1 .. N /\ (n + 1) - 1 = n /\ 1 .. n + 1 = (1 .. n) \cup {n + 1}
      BY <2>1
    <3>3. after[n + 1] = Splice(after[n], hunks[n + 1])
      BY <1>1, <3>2
    <3>4. hunks[n + 1] \in Hunks /\ Fits(hunks[n + 1], t) /\ Len(hunks[n + 1].new) = hunks[n + 1].count
      BY <3>2, InPlaceHunksFit
    <3>5. after[n] \in Texts /\ Fits(hunks[n + 1], after[n])
      BY <3>1, <3>4 DEF Painted, Fits
    <3>6. after[n + 1] = Put(after[n], hunks[n + 1])
      BY <3>3, <3>4, <3>5, PutIsWhole, Zenon
    <3>7. ASSUME NEW i \in 1 .. n PROVE OldLines(hunks[i]) \cap OldLines(hunks[n + 1]) = {}
      <4>1. i \in 1 .. N /\ i < n + 1
        BY <3>2
      <4> QED BY <3>2, <4>1, InPlaceHunksFit
    <3>8. Painted(t, Put(after[n], hunks[n + 1]), hunks, (1 .. n) \cup {n + 1})
      BY <3>1, <3>4, <3>7, PutPaints, Zenon
    <3> QED BY <3>2, <3>6, <3>8, Zenon
  <2>2. n + 1 \in Nat
    OBVIOUS
  <2> QED BY <2>1, <2>2
<1> HIDE DEF T
<1>4. N - 1 \in T
  <2>1. N - 1 \in Nat
    OBVIOUS
  <2> QED BY <1>2, <1>3, <2>1, Induction
<1>5. Painted(t, after[N - 1], hunks, 1 .. N - 1)
  BY <1>4 DEF T
<1>6. after[N] = Put(after[N - 1], hunks[N])
  <2>1. N \in 1 .. N
    OBVIOUS
  <2>2. after[N] = Splice(after[N - 1], hunks[N])
    BY <1>1, <2>1
  <2>3. hunks[N] \in Hunks /\ Fits(hunks[N], t)
    BY <2>1, InPlaceHunksFit
  <2>4. after[N - 1] \in Texts /\ Fits(hunks[N], after[N - 1])
    BY <1>5, <2>3 DEF Painted, Fits
  <2> QED BY <2>2, <2>3, <2>4, PutIsWhole, Zenon
<1> QED BY <1>5, <1>6 DEF after

(* ... and the same hunks after the last one.                              *)
LEMMA LastHunksPaint ==
    ASSUME NEW t \in Texts, NEW hunks \in Seq(Hunks), HunksInPlace(hunks, t),
           NEW N \in Nat, N = Len(hunks), N > 0
    PROVE  Painted(Put(t, hunks[N]), PutLast(t, hunks)[N], hunks, 1 .. N - 1)
<1> DEFINE first == Put(t, hunks[N])
<1>0. PICK put : put = PutLast(t, hunks)
  OBVIOUS
<1>1. /\ put[0] = t
      /\ \A n \in 1 .. N : put[n] = Put(put[n - 1], hunks[N + 1 - n])
  <2>1. PutsLast(put, t, hunks, N)
    BY <1>0, PutLastSteps, Zenon
  <2> QED BY <2>1 DEF PutsLast
<1>2. first \in Texts /\ \A i \in 1 .. N - 1 : Fits(hunks[i], first)
  <2>1. PICK u : u = first
    OBVIOUS
  <2>2. N \in 1 .. N
    OBVIOUS
  <2>3. hunks[N] \in Hunks /\ Fits(hunks[N], t)
    BY <2>2, InPlaceHunksFit
  <2>4. IsPut(u, t, hunks[N])
    BY <2>1, <2>3, PutLines, Zenon
  <2>5. /\ u \in Texts /\ Len(u) \in Nat /\ Len(t) \in Nat /\ Len(hunks[N].new) \in Nat
        /\ hunks[N].start \in Nat /\ hunks[N].count \in Nat
        /\ Len(u) = Len(t) - hunks[N].count + Len(hunks[N].new)
    BY <2>3, <2>4 DEF IsPut, Texts, Hunks
  <2>6. PICK length \in Nat : length = Len(u) /\ length >= hunks[N].start - 1
    <3>1. PICK s \in Nat, c \in Nat, m \in Nat, n \in Nat, length \in Nat :
            /\ s = hunks[N].start /\ c = hunks[N].count /\ m = Len(hunks[N].new)
            /\ n = Len(t) /\ length = Len(u)
      BY <2>5
    <3>2. length = n - c + m /\ s + c - 1 <= n
      BY <2>3, <2>5, <3>1 DEF Fits
    <3>3. length >= s - 1
      BY <3>2
    <3> QED BY <3>1, <3>3
  <2>7. ASSUME NEW i \in 1 .. N - 1 PROVE Fits(hunks[i], u)
    <3>1. i \in 1 .. N /\ i < N
      OBVIOUS
    <3>2. Fits(hunks[i], t) /\ hunks[i].start \in Nat /\ hunks[i].count \in Nat
      BY <3>1, InPlaceHunksFit DEF Hunks
    <3>3. hunks[i].start + hunks[i].count <= hunks[N].start
      BY <2>2, <3>1 DEF HunksInPlace
    <3>4. PICK si \in Nat, ci \in Nat, s \in Nat :
            si = hunks[i].start /\ ci = hunks[i].count /\ s = hunks[N].start
      BY <2>5, <3>2
    <3>5. si > 0 /\ ci > 0 /\ si + ci <= s /\ length >= s - 1
      BY <2>6, <3>2, <3>3, <3>4 DEF Fits
    <3>6. si + ci - 1 <= length
      BY <3>5
    <3> QED BY <2>6, <3>4, <3>5, <3>6 DEF Fits
  <2> QED BY <2>1, <2>5, <2>7
<1> HIDE DEF first
<1> DEFINE T == {n \in Nat : n <= N - 1 => Painted(first, put[n + 1], hunks, N - n .. N - 1)}
<1>3. put[1] = first
  <2>1. 1 \in 1 .. N /\ 1 - 1 = 0 /\ N + 1 - 1 = N
    OBVIOUS
  <2>2. put[1] = Put(put[1 - 1], hunks[N + 1 - 1])
    BY <1>1, <2>1
  <2> QED BY <1>1, <2>1, <2>2, Zenon DEF first
<1>4. 0 \in T
  <2>1. Painted(first, first, hunks, {})
    BY <1>2 DEF Painted
  <2>2. N - 0 .. N - 1 = {} /\ 0 + 1 = 1
    OBVIOUS
  <2> QED BY <1>3, <2>1, <2>2
<1>5. ASSUME NEW n \in Nat, n \in T PROVE n + 1 \in T
  <2>1. ASSUME n + 1 <= N - 1
        PROVE  Painted(first, put[(n + 1) + 1], hunks, N - (n + 1) .. N - 1)
    <3>1. Painted(first, put[n + 1], hunks, N - n .. N - 1)
      BY <1>5, <2>1
    <3>2. PICK j \in 1 .. N - 1 : j = N - (n + 1)
      <4>1. N - (n + 1) \in 1 .. N - 1
        BY <2>1
      <4> QED BY <4>1
    <3>3. /\ (n + 1) + 1 \in 1 .. N /\ ((n + 1) + 1) - 1 = n + 1 /\ N + 1 - ((n + 1) + 1) = j
          /\ N - (n + 1) .. N - 1 = (N - n .. N - 1) \cup {j}
      BY <2>1, <3>2
    <3>4. put[(n + 1) + 1] = Put(put[n + 1], hunks[j])
      <4>1. put[(n + 1) + 1] = Put(put[((n + 1) + 1) - 1], hunks[N + 1 - ((n + 1) + 1)])
        BY <1>1, <3>3, Zenon
      <4> QED BY <3>3, <4>1, Zenon
    <3>5. j \in 1 .. N /\ hunks[j] \in Hunks /\ Len(hunks[j].new) = hunks[j].count
      BY <3>2, InPlaceHunksFit
    <3>6. ASSUME NEW i \in N - n .. N - 1 PROVE OldLines(hunks[i]) \cap OldLines(hunks[j]) = {}
      <4>1. i \in 1 .. N /\ j < i
        BY <2>1, <3>2
      <4>2. OldLines(hunks[j]) \cap OldLines(hunks[i]) = {}
        BY <3>5, <4>1, InPlaceHunksFit
      <4> QED BY <4>2
    <3>7. Fits(hunks[j], first)
      BY <1>2, <3>2
    <3>8. Painted(first, Put(put[n + 1], hunks[j]), hunks, (N - n .. N - 1) \cup {j})
      BY <1>2, <3>1, <3>5, <3>6, <3>7, PutPaints, Zenon
    <3> QED BY <3>3, <3>4, <3>8, Zenon
  <2>2. n + 1 \in Nat
    OBVIOUS
  <2> QED BY <2>1, <2>2
<1> HIDE DEF T
<1>6. N - 1 \in T
  <2>1. N - 1 \in Nat
    OBVIOUS
  <2> QED BY <1>4, <1>5, <2>1, Induction
<1>7. Painted(first, put[(N - 1) + 1], hunks, N - (N - 1) .. N - 1)
  BY <1>6 DEF T
<1>8. (N - 1) + 1 = N /\ N - (N - 1) = 1
  OBVIOUS
<1>9. Painted(first, put[N], hunks, 1 .. N - 1)
  BY <1>7, <1>8, Zenon
<1> QED BY <1>0, <1>9, Zenon DEF first

LEMMA InPlaceHunksMakeTheText ==
    ASSUME NEW t \in Texts, NEW hunks \in Seq(Hunks), HunksInPlace(hunks, t)
    PROVE  apply_hunks_to_content(t, hunks) = Patched(t, hunks)
<1>1. PICK N \in Nat : N = Len(hunks)
  OBVIOUS
<1>2. CASE N = 0
  <2>1. AfterHunks(t, hunks)[N] = t
    BY <1>1, <1>2, AfterHunksSteps
  <2>2. PICK put : put = PutLast(t, hunks)
    OBVIOUS
  <2>3. PutsLast(put, t, hunks, N)
    BY <1>1, <2>2, PutLastSteps, Zenon
  <2>4. put[N] = t
    BY <1>2, <2>3, Zenon DEF PutsLast
  <2> QED BY <1>1, <2>1, <2>2, <2>4, Zenon DEF apply_hunks_to_content, Patched
<1>3. CASE N > 0
  <2>1. PICK last : last = hunks[N]
    OBVIOUS
  <2>2. last \in Hunks /\ Fits(last, t)
    <3>1. N \in 1 .. N
      BY <1>3
    <3> QED BY <1>1, <2>1, <3>1, InPlaceHunksFit
  <2>3. PICK s \in Nat, c \in Nat, m \in Nat : s = last.start /\ c = last.count /\ m = Len(last.new)
    BY <2>2 DEF Hunks, Texts
  <2>4. PICK n \in Nat : n = Len(t)
    BY DEF Texts
  <2>5. PICK almost : almost = AfterHunks(t, hunks)[N - 1]
    OBVIOUS
  <2>6. PICK first : first = Put(t, last)
    OBVIOUS
  <2>7. PICK left : left = apply_hunks_to_content(t, hunks)
    OBVIOUS
  <2>8. PICK right : right = Patched(t, hunks)
    OBVIOUS
  <2>9. Painted(t, almost, hunks, 1 .. N - 1) /\ left = Put(almost, last)
    <3>1. /\ Painted(t, AfterHunks(t, hunks)[N - 1], hunks, 1 .. N - 1)
          /\ AfterHunks(t, hunks)[N] = Put(AfterHunks(t, hunks)[N - 1], hunks[N])
      BY <1>1, <1>3, FirstHunksPaint, Zenon
    <3> QED BY <1>1, <2>1, <2>5, <2>7, <3>1, Zenon DEF apply_hunks_to_content
  <2>10. Painted(first, right, hunks, 1 .. N - 1)
    <3>1. Painted(Put(t, hunks[N]), PutLast(t, hunks)[N], hunks, 1 .. N - 1)
      BY <1>1, <1>3, LastHunksPaint, Zenon
    <3> QED BY <1>1, <2>1, <2>6, <2>8, <3>1, Zenon DEF Patched
  <2>11. almost \in Texts /\ Len(almost) = n /\ Fits(last, almost)
    BY <2>2, <2>4, <2>9 DEF Painted, Fits
  <2>12. IsPut(left, almost, last) /\ IsPut(first, t, last)
    BY <2>2, <2>6, <2>9, <2>11, PutLines, Zenon
  <2>13. left \in Texts /\ Len(left) = n - c + m
    BY <2>3, <2>11, <2>12 DEF IsPut
  <2>14. right \in Texts /\ Len(right) = n - c + m
    BY <2>3, <2>4, <2>10, <2>12 DEF IsPut, Painted
  <2>15. ASSUME NEW k \in 1 .. n - c + m PROVE left[k] = right[k]
    <3>1. /\ left[k] = IF k < s THEN almost[k] ELSE IF k < s + m THEN last.new[k - s + 1]
                       ELSE almost[k - m + c]
          /\ first[k] = IF k < s THEN t[k] ELSE IF k < s + m THEN last.new[k - s + 1]
                        ELSE t[k - m + c]
      BY <2>3, <2>4, <2>11, <2>12 DEF IsPut
    <3>2. s > 0 /\ c > 0 /\ s + c - 1 <= n
      BY <2>2, <2>3, <2>4 DEF Fits
    <3>3. ASSUME NEW i \in 1 .. N - 1, NEW o \in OldLines(hunks[i]) PROVE o < s
      <4>1. i \in 1 .. N /\ N \in 1 .. N /\ i < N
        BY <1>3
      <4> QED BY <1>1, <2>1, <2>3, <4>1, InPlaceHunksFit
    <3>4. Len(first) = n - c + m
      BY <2>3, <2>4, <2>12 DEF IsPut
    <3>5. /\ \A i \in 1 .. N - 1 : k \in OldLines(hunks[i]) =>
                 right[k] = hunks[i].new[k - hunks[i].start + 1]
          /\ (\A i \in 1 .. N - 1 : k \notin OldLines(hunks[i])) => right[k] = first[k]
      BY <2>10, <3>4 DEF Painted
    <3>6. \A o \in 1 .. n :
            /\ \A i \in 1 .. N - 1 : o \in OldLines(hunks[i]) =>
                   almost[o] = hunks[i].new[o - hunks[i].start + 1]
            /\ (\A i \in 1 .. N - 1 : o \notin OldLines(hunks[i])) => almost[o] = t[o]
      BY <2>4, <2>9 DEF Painted
    <3>7. CASE k < s
      <4>1. k \in 1 .. n
        BY <3>2, <3>7
      <4>2. left[k] = almost[k] /\ first[k] = t[k]
        BY <3>1, <3>7
      <4>3. CASE \E i \in 1 .. N - 1 : k \in OldLines(hunks[i])
        BY <3>5, <3>6, <4>1, <4>2, <4>3
      <4>4. CASE \A i \in 1 .. N - 1 : k \notin OldLines(hunks[i])
        BY <3>5, <3>6, <4>1, <4>2, <4>4
      <4> QED BY <4>3, <4>4
    <3>8. CASE ~(k < s)
      <4>1. right[k] = first[k]
        BY <3>3, <3>5, <3>8
      <4>2. CASE k < s + m
        BY <3>1, <3>8, <4>1, <4>2
      <4>3. CASE ~(k < s + m)
        <5>1. PICK o \in 1 .. n : o = k - m + c /\ ~(o < s)
          BY <3>2, <4>3
        <5>2. almost[o] = t[o]
          BY <3>3, <3>6, <5>1
        <5>3. left[k] = almost[o] /\ first[k] = t[o]
          BY <3>1, <3>8, <4>3, <5>1
        <5> QED BY <4>1, <5>2, <5>3
      <4> QED BY <4>2, <4>3
    <3> QED BY <3>7, <3>8
  <2>16. left = right
    BY <2>13, <2>14, <2>15, SeqEqual DEF Texts
  <2> QED BY <2>7, <2>8, <2>16, Zenon
<1> QED BY <1>2, <1>3
(* A hunk without old lines makes the text of a new file.                  *)
LEMMA NewFilesAreMade ==
    ASSUME NEW hunk \in Hunks, hunk.start = 0, hunk.count = 0
    PROVE  Splice(<<>>, hunk) = Put(<<>>, hunk)
<1>1. Len(<<>>) = 0 /\ 0 - 1 = -1 /\ -1 + 0 = -1 /\ 0 + 1 = 1 /\ 0 + 0 + 1 = 1
  OBVIOUS
<1>2. Cut(<<>>, -1) = 0
  BY <1>1 DEF Cut
<1>3. Splice(<<>>, hunk) = SubSeq(<<>>, 1, 0) \o hunk.new \o SubSeq(<<>>, 1, 0)
  BY <1>1, <1>2, Zenon DEF Splice, Before, From
<1>4. Put(<<>>, hunk) = SubSeq(<<>>, 1, 0) \o hunk.new \o SubSeq(<<>>, 1, 0)
  BY <1>1, Zenon DEF Put
<1> QED BY <1>3, <1>4, Zenon

LEMMA CreatedText ==
    ASSUME NEW hunks \in Seq(Hunks),
           \A i \in 1 .. Len(hunks) : i = 1 /\ hunks[i].start = 0 /\ hunks[i].count = 0
    PROVE  apply_hunks_to_content(<<>>, hunks) = Patched(<<>>, hunks)
<1>1. PICK N \in Nat : N = Len(hunks)
  OBVIOUS
<1>2. N = 0 \/ N = 1
  <2>1. N > 1 => 2 \in 1 .. N
    OBVIOUS
  <2> QED BY <1>1, <2>1
<1>3. PICK put : put = PutLast(<<>>, hunks)
  OBVIOUS
<1>4. PutsLast(put, <<>>, hunks, N)
  BY <1>1, <1>3, PutLastSteps, Zenon
<1>5. PICK after : after = AfterHunks(<<>>, hunks)
  OBVIOUS
<1>6. after[0] = <<>> /\ \A n \in 1 .. N : after[n] = Splice(after[n - 1], hunks[n])
  <2>1. <<>> \in Texts
    BY DEF Texts
  <2> QED BY <1>1, <1>5, <2>1, AfterHunksSteps, Zenon
<1>7. CASE N = 0
  <2>1. put[N] = <<>> /\ after[N] = <<>>
    BY <1>4, <1>6, <1>7, Zenon DEF PutsLast
  <2> QED BY <1>1, <1>3, <1>5, <2>1, Zenon DEF apply_hunks_to_content, Patched
<1>8. CASE N = 1
  <2>1. 1 \in 1 .. N /\ 1 - 1 = 0 /\ N + 1 - 1 = 1
    BY <1>8
  <2>2. hunks[1] \in Hunks /\ hunks[1].start = 0 /\ hunks[1].count = 0
    BY <1>1, <2>1
  <2>3. put[1] = Put(<<>>, hunks[1])
    <3>1. put[1] = Put(put[1 - 1], hunks[N + 1 - 1])
      BY <1>4, <2>1, Zenon DEF PutsLast
    <3>2. put[0] = <<>>
      BY <1>4, Zenon DEF PutsLast
    <3> QED BY <2>1, <3>1, <3>2, Zenon
  <2>4. after[1] = Splice(<<>>, hunks[1])
    <3>1. after[1] = Splice(after[1 - 1], hunks[1])
      BY <1>6, <2>1, Zenon
    <3> QED BY <1>6, <2>1, <3>1, Zenon
  <2>5. after[1] = put[1]
    BY <2>2, <2>3, <2>4, NewFilesAreMade, Zenon
  <2> QED BY <1>1, <1>3, <1>5, <1>8, <2>5, Zenon DEF apply_hunks_to_content, Patched
<1> QED BY <1>2, <1>7, <1>8
-----------------------------------------------------------------------------
(* What is committed.                                                      *)

LEMMA OnlySection ==
    ASSUME NEW patch \in Seq(Sections), NEW p, Cardinality(SectionsOf(patch, p)) = 1
    PROVE  \E i \in 1 .. Len(patch) : /\ SectionsOf(patch, p) = {i}
                                      /\ LastSection(patch, p) = patch[i]
<1>1. SectionsOf(patch, p) \subseteq 1 .. Len(patch)
  BY DEF SectionsOf
<1>2. IsFiniteSet(1 .. Len(patch))
  <2>1. Len(patch) \in Nat /\ 1 \in Int
    OBVIOUS
  <2> QED BY <2>1, FS_Interval
<1>3. IsFiniteSet(SectionsOf(patch, p))
  BY <1>1, <1>2, FS_Subset
<1>4. PICK i : SectionsOf(patch, p) = {i}
  BY <1>3, FS_Singleton
<1>5. i \in 1 .. Len(patch)
  BY <1>1, <1>4
<1>6. (CHOOSE k \in {i} : \A j \in {i} : j <= k) = i
  BY <1>5
<1>7. LastSection(patch, p) = patch[i]
  BY <1>4, <1>6, Zenon DEF LastSection
<1> QED BY <1>4, <1>5, <1>7

(* The text that the plan has for a section is the one that was asked for. *)
LEMMA PlannedIsAsked ==
    ASSUME NEW section \in Sections, NEW t \in Texts, InPlace(section, t),
           section.kind = "create" => t = <<>>
    PROVE  PlannedText(section, t) = Asked(section, t)
<1>1. CASE section.kind \in {"delete", "fill", "replace"}
  BY <1>1 DEF PlannedText, Asked, NewText
<1>2. CASE section.kind \in {"patch", "create"}
  <2>1. PlannedText(section, t) = apply_hunks_to_content(t, section.hunks)
    BY <1>2 DEF PlannedText, NewText
  <2>2. Asked(section, t) = Patched(t, section.hunks)
    BY <1>2 DEF Asked
  <2>3. section.hunks \in Seq(Hunks)
    BY <1>2, SectionsAreTyped
  <2>4. CASE section.kind = "patch"
    <3>1. HunksInPlace(section.hunks, t)
      BY <2>4 DEF InPlace
    <3> QED BY <2>1, <2>2, <2>3, <3>1, InPlaceHunksMakeTheText, Zenon
  <2>5. CASE section.kind = "create"
    <3>1. /\ t = <<>>
          /\ \A i \in 1 .. Len(section.hunks) :
                 i = 1 /\ section.hunks[i].start = 0 /\ section.hunks[i].count = 0
      BY <2>5 DEF InPlace
    <3> QED BY <2>1, <2>2, <2>3, <3>1, CreatedText, Zenon
  <2> QED BY <1>2, <2>4, <2>5
<1> QED BY <1>1, <1>2, SectionsAreTyped

(* CommittedIsPatched: when an apply commits, each file of the patch that  *)
(* nobody else wrote since the apply checked it has the text that the      *)
(* preview showed, with every hunk of its section made to it: neither the  *)
(* order of checks, plan and writes, nor other applies, failures and       *)
(* crashes, nor the line numbers that shift while hunks are applied make a *)
(* difference (apply, _apply_unified_diff_text, FileTransaction.commit).   *)
THEOREM CommittedFilesArePatched == Spec => []CommittedIsPatched
<1>1. FilesAreKept => CommittedIsPatched
  <2> SUFFICES ASSUME FilesAreKept, NEW r \in Requests, NEW p \in Undisturbed(r),
                      At(r, "committed"),
                      InPlace(LastSection(requests[r].patch, p), requests[r].base[p]),
                      Cardinality(SectionsOf(requests[r].patch, p)) = 1
               PROVE  HasWhatWasAsked(r, p)
    BY DEF CommittedIsPatched
  <2>1. PICK patch : patch = requests[r].patch
    OBVIOUS
  <2>2. PICK plan : plan = requests[r].plan
    OBVIOUS
  <2>3. /\ Staged(requests[r]) /\ IsRequest(requests[r]) /\ requests[r].at = "committed"
        /\ patch \in Seq(Sections)
    BY <2>1 DEF FilesAreKept, Consistent, Typed, IsRequest, At
  <2>4. p \in PathsOf(patch) /\ p \notin others[r]
    BY <2>1 DEF Undisturbed
  <2>5. KeptFile(requests[r], checked[r], disk, p)
    BY <2>1, <2>4 DEF FilesAreKept, Kept
  <2>6. requests[r].applied = Len(plan) /\ Len(plan) = Len(patch) /\ Len(patch) \in Nat
    BY <2>1, <2>2, <2>3 DEF Staged
  <2>7. \A i \in 1 .. Len(plan) : plan[i].path = patch[i].path
    BY <2>1, <2>2, <2>3 DEF Staged
  <2>8. PICK i \in 1 .. Len(patch) : SectionsOf(patch, p) = {i} /\ LastSection(patch, p) = patch[i]
    BY <2>1, <2>3, OnlySection
  <2>9. patch[i] \in Sections /\ patch[i].path = p
    <3>1. i \in SectionsOf(patch, p)
      BY <2>8
    <3> QED BY <2>3, <3>1 DEF SectionsOf
  <2>10. LastTouch(requests[r], p, i)
    <3>1. plan[i].path = p
      BY <2>6, <2>7, <2>8, <2>9
    <3>2. ASSUME NEW j \in i + 1 .. Len(plan) PROVE plan[j].path # p
      <4>1. j \in 1 .. Len(plan) /\ j \in 1 .. Len(patch) /\ j # i
        BY <2>6, <2>8
      <4>2. j \notin SectionsOf(patch, p)
        BY <2>8, <4>1
      <4>3. patch[j].path # p
        BY <2>3, <4>1, <4>2 DEF SectionsOf
      <4> QED BY <2>7, <4>1, <4>3
    <3> QED BY <2>2, <2>6, <3>1, <3>2 DEF LastTouch
  <2>11. TextIn(disk[p]) = plan[i].text
    BY <2>2, <2>3, <2>5, <2>6, <2>8, <2>10 DEF KeptFile
  <2>12. /\ plan[i].text = PlannedText(patch[i], requests[r].base[p])
         /\ patch[i].kind = "create" => requests[r].base[p] = <<>>
    BY <2>1, <2>2, <2>5, <2>6, <2>7, <2>8, <2>9 DEF KeptFile
  <2>13. requests[r].base[p] \in Texts
    BY <2>1, <2>3, <2>4 DEF Staged
  <2>14. InPlace(patch[i], requests[r].base[p])
    BY <2>1, <2>8, Zenon
  <2>15. PlannedText(patch[i], requests[r].base[p]) = Asked(patch[i], requests[r].base[p])
    BY <2>9, <2>12, <2>13, <2>14, PlannedIsAsked, Zenon
  <2>16. TextAt(p) = TextIn(disk[p])
    BY DEF TextAt, TextIn, Exists
  <2> QED BY <2>1, <2>8, <2>11, <2>12, <2>15, <2>16, Zenon DEF HasWhatWasAsked
<1> QED BY <1>1, FilesAlwaysKept, PTL
=============================================================================

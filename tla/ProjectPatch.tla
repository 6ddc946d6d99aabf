---------------------------- MODULE ProjectPatch ----------------------------
(***************************************************************************)
(* Patches of project files: preview, and apply through a file transaction *)
(* (runner/mcp_project_patch.py, runner/file_transaction.py).              *)
(*                                                                         *)
(* A preview records the text of each file that it is about.  Its apply    *)
(* compares them again, computes the new texts and hands them to a file    *)
(* transaction, which undoes what it wrote when an operation fails.        *)
(* Applies take no project lease: they interleave with each other and with *)
(* whoever else edits the files.                                           *)
(*                                                                         *)
(* A text is a sequence of lines.  Reading drops the carriage returns of   *)
(* CRLF line endings, and writing does not bring them back.                *)
(***************************************************************************)
EXTENDS Integers, FiniteSets, Sequences

CONSTANTS
    Paths,
    Lines,            \* the lines that texts are made of
    Patches,          \* what clients ask for: sequences of sections
    Previews,         \* preview_id
    Requests,         \* apply requests
    InitialDisk,      \* the files of the project
    Foreign,          \* a line that somebody else writes
    MaxEdits,         \* bound: writes by somebody else
    MaxFailures,      \* bound: file operations that fail
    Absent, None

Texts == Seq(Lines)
Modes == {"plain", "executable", "private"}
Files == [text : Texts, crlf : BOOLEAN, mode : Modes]

(* A hunk is the start and count of its old lines and the lines that its   *)
(* body keeps or adds.                                                     *)
Hunks == [start : Nat, count : Nat, new : Texts]

(* A patch is a sequence of sections: hunks that change or create a file   *)
(* (several sections in one patch); or, on its own, a line to replace, the *)
(* text of a new or empty file, or a file to delete.                       *)
Sections ==
    [kind : {"patch", "create"}, path : Paths, hunks : Seq(Hunks)]
      \cup [kind : {"replace"}, path : Paths, old : Lines, new : Lines]
      \cup [kind : {"fill"}, path : Paths, new : Texts]
      \cup [kind : {"delete"}, path : Paths]

ASSUME PatchAssumption ==
    /\ Patches \subseteq Seq(Sections)
    /\ InitialDisk \in [Paths -> Files \cup {Absent}]
    /\ Foreign \in Lines
    /\ MaxEdits \in Nat /\ MaxFailures \in Nat
    /\ Absent \notin Files /\ Absent \notin Texts
    /\ None \notin Files /\ None # Absent /\ None \notin Requests

VARIABLES
    disk,             \* the file of each path
    previews,         \* project-patch-previews/*.json
    requests,         \* each apply: where it is and what it holds
    checked,          \* history: the files that an apply found when it checked them
    others,           \* history: the paths that others wrote since it checked them
    edits, failures   \* counters of the bounds

vars == <<disk, previews, requests, checked, others, edits, failures>>

-----------------------------------------------------------------------------
(* Hunks.                                                                  *)

(* Where Python's lines[:i] ends and lines[i:] begins.                     *)
Cut(lines, i) ==
    LET n == Len(lines)
    IN  CASE i < -n -> 0 [] i \in -n .. -1 -> n + i [] i \in 0 .. n -> i [] OTHER -> n

Before(lines, i) == SubSeq(lines, 1, Cut(lines, i))
From(lines, i) == SubSeq(lines, Cut(lines, i) + 1, Len(lines))

SpliceOneLate(lines, hunk) ==
    Before(lines, hunk.start) \o hunk.new \o From(lines, hunk.start + hunk.count)
Splice(lines, hunk) ==
    Before(lines, hunk.start - 1) \o hunk.new \o From(lines, hunk.start - 1 + hunk.count)

(* Each hunk is applied to what the earlier ones have left, at the line    *)
(* where the old text had it.                                              *)
AfterHunks(lines, hunks) ==
    LET after[n \in 0 .. Len(hunks)] ==
            IF n = 0 THEN lines ELSE Splice(after[n - 1], hunks[n])
    IN  after
apply_hunks_to_content(lines, hunks) == AfterHunks(lines, hunks)[Len(hunks)]

(* content.replace(old_text, new_text, 1), where both are a line.          *)
ReplaceLine(lines, old, new) ==
    LET places == {i \in DOMAIN lines : lines[i] = old}
    IN  IF places = {} THEN lines
        ELSE [lines EXCEPT ![CHOOSE i \in places : \A j \in places : i <= j] = new]

NewText(section, lines) ==
    CASE section.kind = "fill" -> section.new
      [] section.kind = "replace" -> ReplaceLine(lines, section.old, section.new)
      [] OTHER -> apply_hunks_to_content(lines, section.hunks)

-----------------------------------------------------------------------------
(* Previews.                                                               *)

SectionsOf(patch, p) == {i \in DOMAIN patch : patch[i].path = p}
PathsOf(patch) == {p \in Paths : SectionsOf(patch, p) # {}}
LastSection(patch, p) ==
    patch[CHOOSE i \in SectionsOf(patch, p) : \A j \in SectionsOf(patch, p) : j <= i]

Exists(p) == disk[p] # Absent

(* The checks of a section, at its preview.                                *)
CanPreview(section) ==
    LET p == section.path
    IN  CASE section.kind = "create" -> ~Exists(p)
          [] section.kind = "fill" -> Exists(p) => disk[p].text = <<>>
          [] section.kind = "replace" ->
                 /\ Exists(p)
                 /\ Cardinality({i \in DOMAIN disk[p].text : disk[p].text[i] = section.old}) = 1
          [] OTHER -> Exists(p)

Init ==
    /\ disk = InitialDisk
    /\ previews = [v \in Previews |-> None]
    /\ requests = [r \in Requests |->
           [at |-> "idle", patch |-> <<>>, base |-> None, creates |-> {}, todo |-> {}, plan |-> <<>>,
            preimages |-> [p \in Paths |-> None], applied |-> 0]]
    /\ checked = [r \in Requests |-> [p \in Paths |-> None]]
    /\ others = [r \in Requests |-> {}]
    /\ edits = 0 /\ failures = 0

(* Of the sections for one file only the last one is looked at.            *)
preview(v, patch) ==
    /\ previews[v] = None
    /\ \A p \in PathsOf(patch) : CanPreview(LastSection(patch, p))
    /\ previews' = [previews EXCEPT ![v] =
           [patch |-> patch,
            creates |-> {p \in PathsOf(patch) : ~Exists(p)},
            base |-> [p \in PathsOf(patch) |-> IF Exists(p) THEN disk[p].text ELSE <<>>]]]
    /\ UNCHANGED <<disk, requests, checked, others, edits, failures>>

-----------------------------------------------------------------------------
(* Apply: check every base, plan every section, commit.                    *)

At(r, where) == requests[r].at = where
Finished(r) ==
    requests[r].at \in {"committed", "refused", "rolled_back", "rollback_failed", "crashed"}
Active(r) == ~At(r, "idle") /\ ~Finished(r)

BeginApply(r, v) ==
    /\ At(r, "idle") /\ previews[v] # None
    /\ requests' = [requests EXCEPT
           ![r].at = "check", ![r].patch = previews[v].patch, ![r].base = previews[v].base,
           ![r].creates = previews[v].creates, ![r].todo = PathsOf(previews[v].patch)]
    /\ UNCHANGED <<disk, previews, checked, others, edits, failures>>

BaseThere(r, p) == Exists(p) <=> p \notin requests[r].creates
BaseUnchanged(r, p) ==
    /\ Exists(p) <=> p \notin requests[r].creates
    /\ Exists(p) => disk[p].text = requests[r].base[p]

(* The files in any order.                                                 *)
CheckBase(r) ==
    /\ At(r, "check")
    /\ \E p \in requests[r].todo :
         IF BaseUnchanged(r, p)
           THEN /\ requests' = [requests EXCEPT
                       ![r].todo = @ \ {p},
                       ![r].at = IF requests[r].todo = {p} THEN "plan" ELSE "check"]
                /\ checked' = [checked EXCEPT ![r][p] = disk[p]]
                /\ others' = [others EXCEPT ![r] = @ \ {p}]
           ELSE /\ requests' = [requests EXCEPT ![r].at = "refused"]
                /\ UNCHANGED <<checked, others>>
    /\ UNCHANGED <<disk, previews, edits, failures>>

(* Each section reads its file once more, and none sees what the sections  *)
(* before it have planned.                                                 *)
CanPlan(section) ==
    CASE section.kind \in {"delete", "fill"} -> TRUE
      [] section.kind = "create" -> ~Exists(section.path)
      [] OTHER -> Exists(section.path)

Operation(section) ==
    [path |-> section.path,
     text |-> IF section.kind = "delete" THEN Absent
              ELSE NewText(section, IF Exists(section.path) THEN disk[section.path].text ELSE <<>>)]

PlanSection(r) ==
    LET i == Len(requests[r].plan) + 1
        section == requests[r].patch[i]
    IN  /\ At(r, "plan")
        /\ requests' =
             IF CanPlan(section)
               THEN [requests EXCEPT
                       ![r].plan = Append(@, Operation(section)),
                       ![r].at = IF i = Len(requests[r].patch) THEN "read" ELSE "plan"]
               ELSE [requests EXCEPT ![r].at = "refused"]
        /\ UNCHANGED <<disk, previews, checked, others, edits, failures>>

-----------------------------------------------------------------------------
(* FileTransaction.commit.                                                 *)

NextOperation(r) == requests[r].plan[requests[r].applied + 1]
LastOperation(r) == requests[r].plan[requests[r].applied]

(* Somebody writes the file of p: every other apply will find it changed.  *)
Write(p, file, writer) ==
    /\ disk' = [disk EXCEPT ![p] = file]
    /\ others' = [r \in Requests |-> IF r = writer THEN others[r] ELSE others[r] \cup {p}]

PreimageOfLast(r, p) == disk[p]
PreimageOfFirst(r, p) ==
    IF requests[r].preimages[p] = None THEN disk[p] ELSE requests[r].preimages[p]

read_preimage(r) ==
    LET p == NextOperation(r).path
    IN  /\ At(r, "read")
        /\ requests' = [requests EXCEPT
               ![r].preimages[p] = PreimageOfFirst(r, p), ![r].at = "write"]
        /\ UNCHANGED <<disk, previews, checked, others, edits, failures>>

(* os.replace of a temporary file, which mkstemp makes private and which   *)
(* takes over the mode of an existing one; or unlink.                      *)
WrittenModeless(p, text) ==
    [text |-> text, crlf |-> FALSE, mode |-> IF Exists(p) THEN disk[p].mode ELSE None]
Written(p, text) ==
    [text |-> text, crlf |-> FALSE, mode |-> IF Exists(p) THEN disk[p].mode ELSE "private"]

apply_operation(r) ==
    LET operation == NextOperation(r)
        p == operation.path
    IN  /\ At(r, "write")
        /\ Write(p, IF operation.text = Absent THEN Absent ELSE Written(p, operation.text), r)
        /\ requests' = [requests EXCEPT
               ![r].applied = @ + 1,
               ![r].at = IF requests[r].applied + 1 = Len(requests[r].plan)
                           THEN "committed" ELSE "read"]
        /\ UNCHANGED <<previews, checked, edits, failures>>

(* Whatever fails before os.replace or unlink leaves the file as it was.   *)
FailOperation(r) ==
    /\ requests[r].at \in {"read", "write"}
    /\ failures < MaxFailures
    /\ failures' = failures + 1
    /\ requests' = [requests EXCEPT
           ![r].at = IF requests[r].applied = 0 THEN "rolled_back" ELSE "rollback"]
    /\ UNCHANGED <<disk, previews, checked, others, edits>>

Restored(preimage) ==
    IF preimage = Absent THEN Absent
    ELSE [text |-> preimage.text, crlf |-> FALSE, mode |-> preimage.mode]

rollback(r) ==
    LET p == LastOperation(r).path
    IN  /\ At(r, "rollback")
        /\ Write(p, Restored(requests[r].preimages[p]), r)
        /\ requests' = [requests EXCEPT
               ![r].applied = @ - 1,
               ![r].at = IF requests[r].applied = 1 THEN "rolled_back" ELSE "rollback"]
        /\ UNCHANGED <<previews, checked, edits, failures>>

FailRollback(r) ==
    /\ At(r, "rollback")
    /\ failures < MaxFailures
    /\ failures' = failures + 1
    /\ requests' = [requests EXCEPT ![r].at = "rollback_failed"]
    /\ UNCHANGED <<disk, previews, checked, others, edits>>

(* The server dies; nothing tells the next one where the applies were.     *)
Crash ==
    /\ \E r \in Requests : Active(r)
    /\ requests' = [r \in Requests |->
           IF Active(r) THEN [requests[r] EXCEPT !.at = "crashed"] ELSE requests[r]]
    /\ UNCHANGED <<disk, previews, checked, others, edits, failures>>

(* Somebody else creates, changes or removes a file.                       *)
EditFile(p) ==
    /\ edits < MaxEdits
    /\ edits' = edits + 1
    /\ \/ ~Exists(p) /\ Write(p, [text |-> <<Foreign>>, crlf |-> FALSE, mode |-> "plain"], None)
       \/ /\ Exists(p)
          /\ Write(p, [text |-> <<Foreign>> \o disk[p].text, crlf |-> disk[p].crlf,
                       mode |-> disk[p].mode], None)
       \/ Exists(p) /\ Write(p, Absent, None)
    /\ UNCHANGED <<previews, requests, checked, failures>>

Next ==
    \/ \E v \in Previews, patch \in Patches : preview(v, patch)
    \/ \E r \in Requests :
         \/ \E v \in Previews : BeginApply(r, v)
         \/ CheckBase(r) \/ PlanSection(r)
         \/ read_preimage(r) \/ apply_operation(r) \/ FailOperation(r)
         \/ rollback(r) \/ FailRollback(r)
    \/ Crash
    \/ \E p \in Paths : EditFile(p)

Spec == Init /\ [][Next]_vars

-----------------------------------------------------------------------------
(* Properties.                                                             *)

Stages == {"idle", "check", "plan", "read", "write", "rollback",
           "committed", "refused", "rolled_back", "rollback_failed", "crashed"}

(* The files are files, and each request is at a stage that its plan and   *)
(* the operations applied of it agree with.                                *)
TypeOK ==
    /\ \A p \in Paths : disk[p] \in Files \cup {Absent}
    /\ \A v \in Previews : previews[v] # None =>
           /\ previews[v].patch \in Patches
           /\ \A p \in PathsOf(previews[v].patch) : previews[v].base[p] \in Texts
    /\ \A r \in Requests :
           LET request == requests[r]
           IN  /\ request.at \in Stages
               /\ request.applied \in 0 .. Len(request.plan)
               /\ Len(request.plan) <= Len(request.patch)
               /\ request.todo \subseteq PathsOf(request.patch)
               /\ request.at \in {"read", "write"} => request.applied < Len(request.plan)
               /\ \A i \in 1 .. Len(request.plan) : request.plan[i].text \in Texts \cup {Absent}
    /\ edits \in 0 .. MaxEdits /\ failures \in 0 .. MaxFailures

(* The files of an apply that nobody else has written since it checked them. *)
Undisturbed(r) == PathsOf(requests[r].patch) \ others[r]

(* The text that a unified diff stands for.  Its hunks name lines of the   *)
(* old text, so the last one goes first; one without old lines goes after  *)
(* the line that it names.                                                 *)
Put(text, hunk) ==
    LET kept == IF hunk.count = 0 THEN hunk.start ELSE hunk.start - 1
    IN  SubSeq(text, 1, kept) \o hunk.new \o SubSeq(text, kept + hunk.count + 1, Len(text))
PutLast(lines, hunks) ==
    LET put[n \in 0 .. Len(hunks)] ==
            IF n = 0 THEN lines ELSE Put(put[n - 1], hunks[Len(hunks) + 1 - n])
    IN  put
Patched(lines, hunks) == PutLast(lines, hunks)[Len(hunks)]

Asked(section, base) ==
    CASE section.kind = "delete" -> Absent
      [] section.kind = "fill" -> section.new
      [] section.kind = "replace" -> ReplaceLine(base, section.old, section.new)
      [] OTHER -> Patched(base, section.hunks)

TextAt(p) == IF Exists(p) THEN disk[p].text ELSE Absent

HasWhatWasAsked(r, p) ==
    TextAt(p) = Asked(LastSection(requests[r].patch, p), requests[r].base[p])

(* The hunks name lines that the base has, in order, and every hunk but    *)
(* the last keeps their number, so that those after it find theirs in      *)
(* place.                                                                  *)
HunksInPlace(hunks, base) ==
    /\ \A i \in 1 .. Len(hunks) :
           hunks[i].start > 0 /\ hunks[i].count > 0 /\ hunks[i].start + hunks[i].count - 1 <= Len(base)
    /\ \A i \in 1 .. Len(hunks) - 1 : Len(hunks[i].new) = hunks[i].count
    /\ \A i, j \in 1 .. Len(hunks) : i < j => hunks[i].start + hunks[i].count <= hunks[j].start
InPlace(section, base) ==
    /\ section.kind = "patch" => HunksInPlace(section.hunks, base)
    /\ section.kind = "create" =>
           \A i \in 1 .. Len(section.hunks) :
               i = 1 /\ section.hunks[i].start = 0 /\ section.hunks[i].count = 0

(* AppliedAsPreviewed: when an apply reports that it committed, each file  *)
(* that one section of the patch is about, and that nobody else wrote      *)
(* since the apply checked it, has the text that the preview showed: the   *)
(* one of the preview with the patch made to it (apply,                    *)
(* _apply_unified_diff_text, FileTransaction.commit).                      *)
AppliedAsPreviewed ==
    \A r \in Requests : \A p \in Undisturbed(r) :
        At(r, "committed") /\ Cardinality(SectionsOf(requests[r].patch, p)) = 1
            => HasWhatWasAsked(r, p)

(* CommittedIsPatched: the same of the patches whose hunks leave the later *)
(* ones in place, whatever edits, other applies, failures and crashes      *)
(* happen meanwhile: nothing that changed between preview and apply is     *)
(* overwritten, and no file is left out (the checks of the base signatures *)
(* in apply and the operations of FileTransaction).                        *)
CommittedIsPatched ==
    \A r \in Requests : \A p \in Undisturbed(r) :
        LET section == LastSection(requests[r].patch, p)
        IN  /\ At(r, "committed") /\ InPlace(section, requests[r].base[p])
            /\ Cardinality(SectionsOf(requests[r].patch, p)) = 1
            => HasWhatWasAsked(r, p)

(* RolledBackIsRestored: when an apply reports that it rolled back, each   *)
(* of its files that nobody else wrote has the text and the mode that the  *)
(* apply found when it checked the file, and one that was absent is absent *)
(* again, even if the patch wrote the file more than once                  *)
(* (FileTransaction.commit and _rollback).                                 *)
RolledBackIsRestored ==
    \A r \in Requests : \A p \in Undisturbed(r) :
        At(r, "rolled_back") =>
            IF checked[r][p] = Absent THEN ~Exists(p)
            ELSE /\ Exists(p)
                 /\ disk[p].text = checked[r][p].text
                 /\ disk[p].mode = checked[r][p].mode
=============================================================================

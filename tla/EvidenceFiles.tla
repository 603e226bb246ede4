--------------------------- MODULE EvidenceFiles ---------------------------
(***************************************************************************)
(* The vocabulary that the evidence scripts share.  Each of them runs or   *)
(* collects a test, writes what it saw into a directory, describes the     *)
(* files in a report, and lists the digests of everything in SHA256SUMS;   *)
(* a verifier later decides from the directory and the repository alone    *)
(* whether the evidence may be believed.                                   *)
(*                                                                         *)
(* A directory is a function from the names of the files that are there to *)
(* their contents.  A content names the run that wrote it and what it      *)
(* says; a digest identifies a content, so it is the content.  A file that *)
(* was being written when its process died is cut.  A repository is its    *)
(* commit, the version of each group of files in the working tree, the Go  *)
(* release that go.work pins and the one that is installed.                *)
(***************************************************************************)
EXTENDS Naturals, FiniteSets, SequencesExt

Groups == {"program", "tests", "docs", "tooling"}

Nothing == <<>>                                   \* an empty directory
File(run, says) == [run |-> run, says |-> says, cut |-> FALSE]
Cut(file) == [file EXCEPT !.cut = TRUE]

Has(d, names) == names \subseteq DOMAIN d
Exactly(d, names) == DOMAIN d = names
Put(d, name, content) == [n \in DOMAIN d \cup {name} |-> IF n = name THEN content ELSE d[n]]
Without(d, names) == [n \in DOMAIN d \ names |-> d[n]]

\* Path, size and digest of each of the files that are there.
Records(d, names) == [n \in names \cap DOMAIN d |-> d[n]]

\* Every recorded file is there and has the recorded digest.
Recorded(d, records) == \A n \in DOMAIN records : n \in DOMAIN d /\ d[n] = records[n]

\* What a file says: nothing that can be read when it is cut short.
Says(d, name) == IF d[name].cut THEN {} ELSE {d[name].says}

\* The files that the test of a passing run must have left, none of them cut.
Whole(d, names) == Has(d, names) /\ \A n \in names : ~d[n].cut

\* SHA256SUMS lists the digests of the named files, in one order.
Checksums(d, run, names) == [run |-> run, cut |-> FALSE, of |-> Records(d, names)]
ChecksumsHold(d, names) ==
    /\ Has(d, names \cup {"SHA256SUMS"})
    /\ ~d["SHA256SUMS"].cut
    /\ d["SHA256SUMS"].of = Records(d, names)

\* The groups of the working tree that a report describes.  A group stands for
\* the files of that group that a contract lists; files that no contract lists
\* are outside the model.
Sources(w, groups) == [g \in groups |-> w.src[g]]

(***************************************************************************)
(* The end of a test process.  "slow" is an end that the runner's process  *)
(* timeout forced, just after the timeout.  marks: the output names every  *)
(* test as passed.  quiet: nothing was written to the standard error.      *)
(***************************************************************************)
Exits == {"zero", "nonzero", "slow", "unstarted"}
Executions == {x \in [exit : Exits, marks : BOOLEAN, quiet : BOOLEAN] :
                  x.marks => x.exit \in {"zero", "nonzero"}}
Elapsed(x, timeout) == IF x.exit = "slow" THEN timeout + 1 ELSE timeout
StatusOf(x) == IF x.exit = "zero" THEN "passed" ELSE "failed"

\* A runner is a list of steps.
Do(step, name) == [do |-> step, name |-> name]
Each(step, names) == [i \in DOMAIN names |-> Do(step, names[i])]
=============================================================================

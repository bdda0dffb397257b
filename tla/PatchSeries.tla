----------------------------- MODULE PatchSeries -----------------------------
(* The U-Boot patch series 0004-0007 and the maintenance scripts that        *)
(* generate, edit, check and mirror it.  Two directories hold the series:    *)
(* `out' is the working copy (OUT), `mirror' the WSL copy Buildroot builds   *)
(* from (DST, DST2).  A script reads and edits text in memory, then writes,  *)
(* applies and copies files one at a time, so it can be killed between any   *)
(* two of those steps and run again.  A step is whole: write_text and copy2  *)
(* truncate before they write, and a kill inside one of them, which leaves   *)
(* an empty or partial file behind, is not modelled.                         *)
(*                                                                           *)
(* A patch is abstracted to what some script looks for or changes in it.     *)
EXTENDS Naturals, Sequences, FiniteSets

CONSTANT MaxRuns  (* bound: scripts started *)

VARIABLES
  out,      (* file name -> patch, the files present in OUT                  *)
  mirror,   (* file name -> patch, the files present in DST2                 *)
  wsl,      (* DST2's parent directory exists                                *)
  tree,     (* edits in the U-Boot tree that Buildroot extracted (UB)        *)
  script,   (* the running script, or "none"                                 *)
  plan,     (* the steps it still has to make                                *)
  runs,     (* scripts started so far                                        *)
  ended,    (* the last script to end, and whether its exit status was 0     *)
  trusted   (* history: rewrite succeeded, and every start since was an editor
               that applies the series before it copies                      *)

vars == <<out, mirror, wsl, tree, script, plan, runs, ended,
          trusted>>

(* The scripts that copy to the mirror with no trial of the series before.   *)
Unchecked == {"gen_mram_fram", "gen_dual", "fix_patches", "nowhere"}

(*---------------------------------------------------------------------------*)
(* The patches.  0006: the call form of mram_xfer; whether the line counts   *)
(* of the hunk that holds it are right; the state of the board header's      *)
(* environment block; where CONFIG_ENV_SIZE is in it; the hunks appended     *)
(* after the generated ones.  0007: how the layout header gates the overlay; *)
(* whether the line count of fram_mission.c is right; whether                *)
(* board_late_init calls the overlay.                                        *)
WhitelistHunks == {"whitelist", "whitelist_sorted"}

P4and5 == [dual |-> TRUE]

(* ENV_MRAM_C of gen-mram-fram-uboot-patches.py drives SPI through a         *)
(* four-argument mram_xfer; its header block keeps the USBETH guard.  Its    *)
(* diff base is a copy of the extracted tree, taken to be clean: an edit     *)
(* that the tree already holds leaves no hunk, file by file.                 *)
GenP6(t) ==
  [xfer |-> "four", counts |-> TRUE, size |-> "inner", tail |-> <<>>,
   header |-> IF t.header THEN "unchanged" ELSE "usbeth"]

GenP7(t) == [gate |-> "require", counts |-> TRUE, call |-> ~t.call]

(* The rewrite always starts from a fresh extract.                           *)
RewriteP6 == [xfer |-> "three", counts |-> TRUE, size |-> "inner",
              tail |-> <<>>, header |-> "spl"]
RewriteP7 == [gate |-> "tolerate", counts |-> TRUE, call |-> TRUE]

(* The lines of the environment block that `diff' shows with a plus sign:    *)
(* the NOWHERE and EXT4_WRITE lines exist before and after, and so does the  *)
(* guard when it is not rewritten.                                           *)
Added(p) ==
  {"mram"} \cup (IF p.header = "usbeth" THEN {} ELSE {"guard"})
           \cup (IF p.size = "gone" THEN {} ELSE {"size"})

(* patch(1) refuses a hunk whose lines are fewer than its header counts.     *)
(* Surplus lines of a new file are skipped as text between patches.          *)
WellFormed(p) == p.counts /\ p.header # "miscounted" /\ p.size # "gone"

Has(dir, names) == names \subseteq DOMAIN dir

Put(dir, name, p) ==
  [f \in DOMAIN dir \cup {name} |-> IF f = name THEN p ELSE dir[f]]

Applies(dir, names) ==
  /\ Has(dir, {"0004", "0005"} \cup names)
  /\ "0006" \in names => WellFormed(dir["0006"])

(*---------------------------------------------------------------------------*)
(* Steps of a script's plan.                                                 *)
Write(name, p) == [op |-> "write", file |-> name, patch |-> p]
Apply(names) == [op |-> "apply", files |-> names]
AssertSize == [op |-> "assert_size"]
Copy(name) == [op |-> "copy", file |-> name]
Exit(msg) == [op |-> "exit", msg |-> msg]

Series == {"0006", "0007"}

(*---------------------------------------------------------------------------*)
(* What each script does with the files it reads, as the steps that follow.  *)

(* gen-dual-uboot-patches.py: every edit must find its block, so the script  *)
(* stops on a tree that holds the fall-back already.  It mirrors before its  *)
(* dry run on the tree it made the patches from.                             *)
GenDual ==
  IF tree.dual THEN <<Exit("missing block")>>
  ELSE <<Write("0004", P4and5), Write("0005", P4and5),
         Copy("0004"), Copy("0005")>>

(* gen-mram-fram-uboot-patches.py: no trial application.                     *)
GenMramFram ==
  <<Write("0006", GenP6(tree)), Write("0007", GenP7(tree)),
    Copy("0006"), Copy("0007")>>

(* Mutant: the rewrite forgets to mirror 0007.                               *)
Rewrite_OneCopy ==
  <<Apply({}), Write("0006", RewriteP6), Write("0007", RewriteP7),
    Apply(Series), Copy("0006")>>

(* Mutant: a 0007 that is there is kept.                                     *)
Rewrite_Keeps0007 ==
  <<Apply({}), Write("0006", RewriteP6),
    Write("0007", IF Has(out, {"0007"}) THEN out["0007"] ELSE RewriteP7),
    Apply(Series), Copy("0006"), Copy("0007")>>

(* rewrite-uboot-0006-0007.py: fresh extract, 0001-0005, edits, both files,  *)
(* a trial of both, then the mirror.                                         *)
Rewrite ==
  <<Apply({}), Write("0006", RewriteP6), Write("0007", RewriteP7),
    Apply(Series), Copy("0006"), Copy("0007")>>

(* fix-uboot-patches-mram.py replaces text inside new files and leaves the   *)
(* line counts of their hunks: 0007 grows, 0006 shrinks.  0007 is written    *)
(* before 0006 is looked at, and nothing is applied.                         *)
FixPatches ==
  IF ~Has(out, {"0007"}) THEN <<Exit("no file")>>
  ELSE IF out["0007"].gate # "require" THEN <<Exit("fn missing")>>
  ELSE <<Write("0007", [out["0007"] EXCEPT !.gate = "tolerate",
                                           !.counts = FALSE])>>
       \o (IF ~Has(out, {"0006"}) THEN <<Exit("no file")>>
           ELSE IF out["0006"].xfer # "four" THEN <<Exit("xfer missing")>>
           ELSE <<Write("0006", [out["0006"] EXCEPT !.xfer = "three",
                                                    !.counts = FALSE]),
                  Copy("0007"), Copy("0006")>>)

(* Mutant: a fix mirrors 0006 and tries the series afterwards.               *)
HeaderFix_CopiesFirst(found, p, steps) ==
  IF ~Has(out, {"0006"}) THEN <<Exit("no file")>>
  ELSE IF ~found THEN <<Exit("pattern missing")>>
  ELSE <<Write("0006", p), Copy("0006")>> \o steps

(* The header fixes.  An edit that looks for plus signs on lines that `diff' *)
(* keeps finds nothing.                                                      *)
HeaderFix(found, p, steps) ==
  IF ~Has(out, {"0006"}) THEN <<Exit("no file")>>
  ELSE IF ~found THEN <<Exit("pattern missing")>>
  ELSE <<Write("0006", p)>> \o steps \o <<Copy("0006")>>

Lines(h, lines) ==
  /\ Has(out, {"0006"})
  /\ out["0006"].header = h
  /\ lines \subseteq Added(out["0006"])

NoWhere ==
  HeaderFix(Lines("usbeth", {"guard", "nowhere", "mram"}), RewriteP6, <<>>)
NoWhere3 ==
  HeaderFix(Lines("usbeth", {"guard", "nowhere", "mram"}), RewriteP6,
            <<Apply(Series)>>)

(* fix-spl-env-nowhere4.py also counts one line too many in the hunk header. *)
NoWhere4 ==
  HeaderFix(Lines("usbeth", {"mram"}),
            [out["0006"] EXCEPT !.header = "miscounted"], <<Apply(Series)>>)

EnvSizeSpl ==
  HeaderFix(Lines("spl", {"guard", "nowhere", "mram", "size"}),
            [out["0006"] EXCEPT !.size = "leading"],
            <<Apply(Series), AssertSize>>)

ShowAndFixEnvSize == EnvSizeSpl

EnvSize2 ==
  HeaderFix(Lines("spl", {"guard", "size", "ext4_write"}),
            [out["0006"] EXCEPT !.size = "leading"],
            <<Apply(Series), AssertSize>>)

(* fix-envsize3.py drops the inner line if it is there and adds the leading  *)
(* one if the rewritten comment is; neither edit has to succeed.             *)
EnvSize3 ==
  HeaderFix(TRUE,
            [out["0006"] EXCEPT
               !.size = CASE out["0006"].header = "spl" -> "leading"
                          [] out["0006"].header = "unchanged" -> @
                          [] OTHER -> "gone"],
            <<Apply(Series), AssertSize>>)

HasHunk(p, kinds) == \E i \in DOMAIN p.tail : p.tail[i] \in kinds

(* Mutant: the script does not look for a hunk that is there.                *)
Whitelist_Again ==
  IF ~Has(out, {"0006"}) THEN <<Exit("no file")>>
  ELSE <<Apply({}), Apply({"0006"}),
         Write("0006", [out["0006"] EXCEPT !.tail = Append(@, "whitelist")]),
         Apply(Series), Copy("0006"), Copy("0007")>>

(* fix-uboot-whitelist.py: nothing is applied or mirrored when the text      *)
(* already names the whitelist.                                              *)
Whitelist ==
  IF ~Has(out, {"0006"}) THEN <<Exit("no file")>>
  ELSE IF HasHunk(out["0006"], WhitelistHunks) THEN <<>>
  ELSE <<Apply({}), Apply({"0006"}),
         Write("0006", [out["0006"] EXCEPT !.tail = Append(@, "whitelist")]),
         Apply(Series), Copy("0006"), Copy("0007")>>

(* fix-uboot-whitelist-sorted.py keeps what precedes the first whitelist     *)
(* hunk and drops the rest of the file, a later hunk of another script too.  *)
BeforeWhitelist(tail) ==
  LET cuts == {i \in DOMAIN tail : tail[i] \in WhitelistHunks}
  IN  IF cuts = {} THEN tail
      ELSE SubSeq(tail, 1, (CHOOSE i \in cuts : \A j \in cuts : i <= j) - 1)

WhitelistSorted ==
  IF ~Has(out, {"0006"}) THEN <<Exit("no file")>>
  ELSE LET kept == BeforeWhitelist(out["0006"].tail)
       IN  <<Write("0006", [out["0006"] EXCEPT !.tail = kept]),
             Apply({}), Apply({"0006"}),
             Write("0006", [out["0006"] EXCEPT
                              !.tail = Append(kept, "whitelist_sorted")]),
             Apply(Series), Copy("0006")>>

(* add-nvedit-mram.py: a second run finds the hunk and stops with status 0.  *)
AddNvedit ==
  IF ~Has(out, {"0006"}) THEN <<Exit("no file")>>
  ELSE IF HasHunk(out["0006"], {"nvedit"}) THEN <<>>
  ELSE <<Apply({"0006"}),
         Write("0006", [out["0006"] EXCEPT !.tail = Append(@, "nvedit")]),
         Apply(Series), Copy("0006")>>

(*---------------------------------------------------------------------------*)
Init ==
  /\ \E made \in {{}, {"0004", "0005"}} :
       /\ out = [f \in made |-> P4and5]
       /\ mirror = out
  /\ wsl \in BOOLEAN
  /\ tree = [dual |-> FALSE, header |-> FALSE, call |-> FALSE]
  /\ script = "none" /\ plan = <<>> /\ runs = 0
  /\ ended = [by |-> "none", ok |-> TRUE]
  /\ trusted = FALSE

Run(s, steps) ==
  /\ script = "none" /\ runs < MaxRuns
  /\ runs' = runs + 1
  /\ script' = s /\ plan' = steps
  /\ trusted' = (trusted /\ s \notin Unchecked)
  /\ UNCHANGED <<out, mirror, wsl, tree, ended>>

Start ==
  \/ Run("gen_dual", GenDual)
  \/ Run("gen_mram_fram", GenMramFram)
  \/ Run("rewrite", Rewrite)
  \/ Run("fix_patches", FixPatches)
  \/ Run("nowhere", NoWhere)
  \/ Run("nowhere3", NoWhere3)
  \/ Run("nowhere4", NoWhere4)
  \/ Run("env_size_spl", EnvSizeSpl)
  \/ Run("show_and_fix_envsize", ShowAndFixEnvSize)
  \/ Run("envsize2", EnvSize2)
  \/ Run("envsize3", EnvSize3)
  \/ Run("whitelist", Whitelist)
  \/ Run("whitelist_sorted", WhitelistSorted)
  \/ Run("add_nvedit", AddNvedit)

Next0(op) == script # "none" /\ plan # <<>> /\ Head(plan).op = op

Stop(ok) ==
  /\ script' = "none" /\ plan' = <<>>
  /\ ended' = [by |-> script, ok |-> ok]

WriteStep ==
  /\ Next0("write")
  /\ out' = Put(out, Head(plan).file, Head(plan).patch)
  /\ plan' = Tail(plan)
  /\ UNCHANGED <<mirror, wsl, tree, script, ended, trusted, runs>>

(* A trial application: subprocess.check_call raises when patch(1) fails.    *)
ApplyStep ==
  /\ Next0("apply")
  /\ \/ /\ Applies(out, Head(plan).files)
        /\ plan' = Tail(plan)
        /\ UNCHANGED <<script, ended>>
     \/ /\ ~Applies(out, Head(plan).files)
        /\ Stop(FALSE)
  /\ UNCHANGED <<out, mirror, wsl, tree, trusted, runs>>

(* CONFIG_ENV_SIZE has to come before `#ifdef CONFIG_SPL_BUILD'.  Whether an *)
(* unpatched header has it so is not in this repository.                     *)
AssertStep ==
  /\ Next0("assert_size")
  /\ \/ /\ \/ out["0006"].size = "leading"
           \/ out["0006"].header = "unchanged"
        /\ plan' = Tail(plan)
        /\ UNCHANGED <<script, ended>>
     \/ /\ out["0006"].size # "leading"
        /\ Stop(FALSE)
  /\ UNCHANGED <<out, mirror, wsl, tree, trusted, runs>>

(* shutil.copy2 when the mirror's parent exists; gen-dual makes it exist.    *)
(* The generators and rewrite make DST2 itself too.  The editors that do not *)
(* (nowhere3, nowhere4, the environment-size scripts, add-nvedit) are taken  *)
(* to find it there.                                                         *)
CopyStep ==
  /\ Next0("copy")
  /\ wsl' = (wsl \/ script = "gen_dual")
  /\ mirror' = IF wsl' THEN Put(mirror, Head(plan).file, out[Head(plan).file])
               ELSE mirror
  /\ plan' = Tail(plan)
  /\ UNCHANGED <<out, tree, script, ended, trusted, runs>>

ExitStep ==
  /\ Next0("exit")
  /\ Stop(FALSE)
  /\ UNCHANGED <<out, mirror, wsl, tree, trusted, runs>>

Finish ==
  /\ script # "none" /\ plan = <<>>
  /\ Stop(TRUE)
  /\ trusted' = (trusted \/ script = "rewrite")
  /\ UNCHANGED <<out, mirror, wsl, tree, runs>>

(* The script is stopped between two of its steps.                           *)
Kill ==
  /\ script # "none"
  /\ Stop(FALSE)
  /\ UNCHANGED <<out, mirror, wsl, tree, trusted, runs>>

(* Buildroot extracts U-Boot afresh and applies the mirror's patches; a      *)
(* series that does not apply fails the build.  Any prefix of the series may *)
(* be there: the mirror is a directory.                                      *)
Rebuild ==
  /\ script = "none"
  /\ "0006" \in DOMAIN mirror => WellFormed(mirror["0006"])
  /\ tree' = [dual |-> Has(mirror, {"0004"}),
              header |-> /\ Has(mirror, {"0006"})
                         /\ mirror["0006"].header # "unchanged",
              call |-> Has(mirror, {"0007"}) /\ mirror["0007"].call]
  /\ UNCHANGED <<out, mirror, wsl, script, plan, ended, trusted, runs>>

Next ==
  \/ Start \/ WriteStep \/ ApplyStep \/ AssertStep \/ CopyStep \/ ExitStep
  \/ Finish \/ Kill \/ Rebuild

Spec == Init /\ [][Next]_vars

(*---------------------------------------------------------------------------*)
(* Once rewrite-uboot-0006-0007.py has succeeded, no sequence of the editing *)
(* scripts that try the series, stopped between two of their steps, failing  *)
(* or repeated, brings a patch to the mirror that patch(1) refuses or that   *)
(* lacks an edit the board needs.  fix-uboot-patches-mram.py and             *)
(* fix-spl-env-nowhere.py edit too, but copy without a trial: they end the   *)
(* trust, as the two generators do.                                          *)
TrustedMirrorWhole ==
  trusted /\ wsl =>
    /\ Has(mirror, {"0006", "0007"})
    /\ WellFormed(mirror["0006"])
    /\ mirror["0006"].header = "spl"
    /\ mirror["0007"].counts /\ mirror["0007"].call

(* A successful rewrite repairs the working copy and the mirror whatever a   *)
(* script that failed, or was stopped between two of its steps, left there.  *)
RewriteRepairs ==
  script = "none" /\ ended = [by |-> "rewrite", ok |-> TRUE] =>
    /\ out["0006"] = RewriteP6 /\ out["0007"] = RewriteP7
    /\ wsl => mirror["0006"] = RewriteP6 /\ mirror["0007"] = RewriteP7

(* Runs of the scripts that append a hunk to 0006, repeated or stopped       *)
(* between two of their steps, never leave two hunks for the same file,      *)
(* which --forward would refuse.                                             *)
NoDoubleHunk ==
  \A dir \in {out, mirror} : "0006" \in DOMAIN dir =>
    \A kinds \in {WhitelistHunks, {"nvedit"}} :
      Cardinality({i \in DOMAIN dir["0006"].tail :
                     dir["0006"].tail[i] \in kinds}) <= 1

(* A script that applies the series never mirrors a 0006 that does not apply,*)
(* even from a working copy an earlier script has broken.                    *)
CheckedCopies ==
  [][mirror' # mirror /\ script \notin Unchecked
       => WellFormed(mirror'["0006"])]_vars

=============================================================================

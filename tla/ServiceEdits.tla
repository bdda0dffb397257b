----------------------------- MODULE ServiceEdits -----------------------------
(* The maintenance scripts that edit the flight services' sources: the       *)
(* two-part MRAM/FRAM plan, the environment region, the repairs that         *)
(* followed, and FRAM layouts v4 and v5.                                     *)
(* A script reads one file, edits its text and writes it back, then goes on  *)
(* to the next; a step here is one such read-edit-write.  Some edits must    *)
(* find their text (must_replace, SystemExit), some are guarded by a mark    *)
(* that they leave, some replace silently or overwrite.                      *)
(* A file is abstracted to what some script looks for or changes in it.      *)
EXTENDS Naturals, Sequences, FiniteSets

CONSTANT MaxEditRuns  (* bound: scripts started *)

VARIABLES
  mram,     (* mram-service sources                                          *)
  fram,     (* fram-service sources                                          *)
  image,    (* package makefile, overlay and sync-and-build-image.sh         *)
  editor,   (* the running script, or "none"                                 *)
  edits,    (* the steps it still has to make                                *)
  editRuns, (* scripts started so far                                        *)
  editsEnded  (* the last script to end, and whether its exit status was 0   *)

editsVars == <<mram, fram, image, editor, edits, editRuns, editsEnded>>

(* mram.errors: BackendError's variants in order.  "plain" and "custom" are  *)
(* the two declarations of InvalidConfig.  mram.tests, mram.config and       *)
(* image.fragment count the env_offset entries of a configuration.           *)
(* Each of the two scripts that rewrite the makefile's spi_mode line expects *)
(* its own form of it.  The services are trees of their own: the window may  *)
(* be there, and fram-service may be at layout 3, when the scripts start.    *)
EditsInit ==
  /\ \E window \in {0, 1} :
       mram = [errors |-> <<"io", "custom">>, windows |-> window,
               mount |-> "device", blocks |-> "device",
               subsystem |-> "whole", region |-> FALSE, query |-> FALSE,
               config |-> 0, tests |-> 0, bins |-> FALSE]
  /\ \E v3 \in BOOLEAN :
       fram = [header |-> v3, version |-> IF v3 THEN 3 ELSE 0, reserved |-> 32,
               table |-> IF v3 THEN "v3" ELSE "older", map |-> v3,
               stamps |-> v3, guarded |-> v3, test |-> FALSE,
               bus |-> 1, mirrors |-> TRUE]
  /\ \E form \in {"echo", "echo_e"} :
       image = [spi_mode |-> form, fragment |-> 0, installs |-> FALSE,
                s79 |-> FALSE, helpers |-> FALSE, lists |-> 0, chmods |-> 0,
                verifies |-> 0]
  /\ editor = "none" /\ edits = <<>> /\ editRuns = 0
  /\ editsEnded = [by |-> "none", ok |-> TRUE]

(*---------------------------------------------------------------------------*)
(* Mutant: the subsystem is rewritten before the mount.                      *)
EnvRegion_SubsystemFirst ==
  <<"region", "subsystem", "fs_capacity", "schema", "config",
    "bins", "s79", "makefile", "tests">>

(* Mutant: model.rs is written before layout.rs.                             *)
LayoutV4_ModelFirst == <<"model_v4", "layout_v4">>

(* The order in which each script's main edits its files.                    *)
Plan1 == <<"layout", "model", "mirror_default">>
Plan2 == <<"fram_subsystem", "fram_env", "helpers", "window", "errors">>
EnvRegion == <<"region", "fs_capacity", "subsystem", "schema", "config",
               "bins", "s79", "makefile", "tests">>
MramBits == <<"dedup", "blocks", "makefile_bits", "chmod">>
SyncAndTests == <<"tests_again", "sync_lists">>
LayoutV4 == <<"layout_v4", "model_v4">>

RunEdits(s, steps) ==
  /\ editor = "none" /\ editRuns < MaxEditRuns
  /\ editRuns' = editRuns + 1
  /\ editor' = s /\ edits' = steps
  /\ UNCHANGED <<mram, fram, image, editsEnded>>

StartEdits ==
  \/ RunEdits("plan", Plan1)
  \/ RunEdits("plan2", Plan2)
  \/ RunEdits("env_region", EnvRegion)
  \/ RunEdits("mram_bits", MramBits)
  \/ RunEdits("backend_enum", <<"backend_enum">>)
  \/ RunEdits("graphql_cap", <<"graphql_cap">>)
  \/ RunEdits("sync_and_tests", SyncAndTests)
  \/ RunEdits("sync_verify", <<"sync_verify">>)
  \/ RunEdits("fram_test", <<"fram_test">>)
  \/ RunEdits("i2c_default", <<"i2c_default">>)
  \/ RunEdits("layout_v4", LayoutV4)
  \/ RunEdits("model_v5", <<"model_v5">>)

At(step) == editor # "none" /\ edits # <<>> /\ Head(edits) = step

StopEdits(ok) ==
  /\ editor' = "none" /\ edits' = <<>>
  /\ editsEnded' = [by |-> editor, ok |-> ok]

Done == edits' = Tail(edits) /\ UNCHANGED <<editor, editsEnded, editRuns>>
Abort == StopEdits(FALSE) /\ UNCHANGED <<mram, fram, image, editRuns>>

(* One file of a part of the tree is written back with these contents.       *)
Mram(m) == mram' = m /\ Done /\ UNCHANGED <<fram, image>>
Fram(f) == fram' = f /\ Done /\ UNCHANGED <<mram, image>>
Image(i) == image' = i /\ Done /\ UNCHANGED <<mram, fram>>

(* must_replace: the text is there, or the script exits before it writes.    *)
Must(found, written) == (found /\ written) \/ (~found /\ Abort)

(*---------------------------------------------------------------------------*)
(* apply-mram-fram-plan.py.  The last two of its functions write back what   *)
(* they read.                                                                *)
PatchFramLayout ==
  /\ At("layout")
  /\ Must(~fram.header, Fram([fram EXCEPT !.header = TRUE, !.version = 1]))

PatchFramModel ==
  /\ At("model")
  /\ Must(~fram.map, Fram([fram EXCEPT !.map = TRUE]))

PatchFramSchemaMirrorDefault ==
  At("mirror_default") /\ Fram([fram EXCEPT !.mirrors = FALSE])

(* apply-mram-fram-plan2.py. *)
PatchFramSubsystem ==
  /\ At("fram_subsystem")
  /\ Must(~fram.stamps, Fram([fram EXCEPT !.stamps = TRUE]))

PatchFramEnv == At("fram_env") /\ Fram([fram EXCEPT !.guarded = TRUE])

WriteFramHelpers == At("helpers") /\ Image([image EXCEPT !.helpers = TRUE])

(* A backend that has the window already ends the script here.               *)
PatchMramBackendWindow ==
  /\ At("window")
  /\ \/ mram.windows > 0 /\ edits' = <<>>
        /\ UNCHANGED <<mram, editor, editsEnded, editRuns>>
     \/ mram.windows = 0 /\ mram' = [mram EXCEPT !.windows = 1] /\ Done
  /\ UNCHANGED <<fram, image>>

(* Mutant: the variant is appended to the enum.                              *)
AddInvalidConfig_AtEnd ==
  At("errors") /\ Mram([mram EXCEPT !.errors = Append(@, "plain")])

(* The search for an existing InvalidConfig ends at the first closing brace, *)
(* the one inside the first variant's "{0}", so it never finds one.          *)
AddInvalidConfig ==
  At("errors") /\ Mram([mram EXCEPT !.errors = <<"plain">> \o @])

(*---------------------------------------------------------------------------*)
(* apply-mram-env-region.py. *)
WriteEnvMod == At("region") /\ Mram([mram EXCEPT !.region = TRUE])

PatchFsCapacity ==
  /\ At("fs_capacity")
  /\ Must(mram.mount = "device", Mram([mram EXCEPT !.mount = "payload"]))

RewriteSubsystem ==
  At("subsystem") /\ Mram([mram EXCEPT !.subsystem = "windowed"])

PatchSchema == At("schema") /\ Mram([mram EXCEPT !.query = TRUE])

PatchConfig ==
  At("config") /\ Mram([mram EXCEPT !.config = IF @ > 0 THEN @ ELSE @ + 1])

WriteSyncBin == At("bins") /\ Mram([mram EXCEPT !.bins = TRUE])

WriteS79 == At("s79") /\ Image([image EXCEPT !.s79 = TRUE])

(* Guarded by the installation of the sync program, not by env_offset.       *)
PatchMakefile ==
  /\ At("makefile")
  /\ \/ image.installs /\ Image(image)
     \/ /\ ~image.installs
        /\ Must(image.spi_mode = "echo",
                Image([image EXCEPT !.installs = TRUE, !.spi_mode = "split",
                                    !.fragment = @ + 1]))

FixTests ==
  At("tests") /\ Mram([mram EXCEPT !.tests = IF @ > 0 THEN @ ELSE @ + 1])

(*---------------------------------------------------------------------------*)
(* fix-mram-bits.py: two equal variants at the head become one, text from a  *)
(* second window on is cut.                                                  *)
Dedup ==
  /\ At("dedup")
  /\ Mram([mram EXCEPT
             !.errors = IF Len(@) > 1 /\ @[1] = "plain" /\ @[2] = "plain"
                        THEN Tail(@) ELSE @,
             !.windows = IF @ > 1 THEN 1 ELSE @])

FixBlockCount == At("blocks") /\ Mram([mram EXCEPT !.blocks = "payload"])

(* Mutant: the entries are inserted without looking for env_offset, and the  *)
(* anchor stays.                                                             *)
FixMakefile_Again ==
  /\ At("makefile_bits")
  /\ Image([image EXCEPT !.fragment =
                IF image.spi_mode = "echo_e" THEN @ + 1 ELSE @,
              !.installs = TRUE])

(* Guarded by env_offset and by the installation, each on its own.           *)
FixMakefile ==
  /\ At("makefile_bits")
  /\ LET insert == image.fragment = 0 /\ image.spi_mode = "echo_e"
     IN  Image([image EXCEPT !.fragment = IF insert THEN 1 ELSE @,
                             !.spi_mode = IF insert THEN "split" ELSE @,
                             !.installs = TRUE])

ChmodOverlay ==
  /\ At("chmod")
  /\ Must(image.helpers /\ image.s79, Image(image))

(* fix-backend-enum.py. *)
FixBackendEnum ==
  /\ At("backend_enum")
  /\ Must(mram.errors = <<"plain", "io", "custom">>,
          Mram([mram EXCEPT !.errors = Tail(@)]))

FixGraphqlCap ==
  At("graphql_cap") /\ Mram([mram EXCEPT !.tests = IF @ > 0 THEN @ ELSE @ + 1])

(* fix-sync-and-tests.py: the test's entries are inserted without a guard.   *)
InsertTestKeys ==
  At("tests_again") /\ Mram([mram EXCEPT !.tests = @ + 1])

(* The chmod lines are guarded by the text between two chmods, where they    *)
(* never are.                                                                *)
SyncLists ==
  /\ At("sync_lists")
  /\ Image([image EXCEPT !.lists = IF @ > 0 THEN @ ELSE @ + 1,
                         !.chmods = @ + 1])

(* fix-sync-verify-helper.py anchors on the lines the script above adds.     *)
SyncVerify ==
  /\ At("sync_verify")
  /\ Image([image EXCEPT
              !.verifies = IF @ = 0 /\ image.lists > 0 THEN 1 ELSE @])

(*---------------------------------------------------------------------------*)
(* fix-fram-graphql-test.py and fix-fram-i2c-default.py. *)
FixFramTest ==
  /\ At("fram_test")
  /\ Must(~fram.test, Fram([fram EXCEPT !.test = TRUE]))

FixI2cDefault == At("i2c_default") /\ Fram([fram EXCEPT !.bus = 2])

(* apply-fram-layout-v4.py: layout.rs by two silent replacements, written    *)
(* first; every edit of model.rs must find its text, written once.           *)
LayoutRsV4 ==
  /\ At("layout_v4")
  /\ Fram([fram EXCEPT !.reserved = 40, !.version = IF @ = 3 THEN 4 ELSE @])

ModelRsV4 ==
  /\ At("model_v4")
  /\ Must(fram.table = "v3", Fram([fram EXCEPT !.table = "v4"]))

(* patch-fram-v5-model.py: the anchors in MissionState are those of v3, the  *)
(* replaced functions keep a brace of the old ones, layout.rs is untouched.  *)
ModelRsV5 ==
  /\ At("model_v5")
  /\ Must(fram.table = "v3", Fram([fram EXCEPT !.table = "v5_unbalanced"]))

(*---------------------------------------------------------------------------*)
FinishEdits ==
  /\ editor # "none" /\ edits = <<>>
  /\ StopEdits(TRUE)
  /\ UNCHANGED <<mram, fram, image, editRuns>>

(* The script is interrupted between two of its writes.                      *)
KillEdits == editor # "none" /\ Abort

EditsNext ==
  \/ StartEdits
  \/ PatchFramLayout \/ PatchFramModel \/ PatchFramSchemaMirrorDefault
  \/ PatchFramSubsystem \/ PatchFramEnv \/ WriteFramHelpers
  \/ PatchMramBackendWindow \/ AddInvalidConfig
  \/ WriteEnvMod \/ PatchFsCapacity \/ RewriteSubsystem \/ PatchSchema
  \/ PatchConfig \/ WriteSyncBin \/ WriteS79 \/ PatchMakefile \/ FixTests
  \/ Dedup \/ FixBlockCount \/ FixMakefile \/ ChmodOverlay
  \/ FixBackendEnum \/ FixGraphqlCap \/ InsertTestKeys \/ SyncLists
  \/ SyncVerify \/ FixFramTest \/ FixI2cDefault
  \/ LayoutRsV4 \/ ModelRsV4 \/ ModelRsV5
  \/ FinishEdits \/ KillEdits

EditsSpec == EditsInit /\ [][EditsNext]_editsVars

(*---------------------------------------------------------------------------*)
(* The duplicate InvalidConfig that apply-mram-fram-plan2.py leaves is one   *)
(* that fix-backend-enum.py recognises, whatever was interrupted, repeated   *)
(* or deduplicated in between.                                               *)
DuplicateIsRepairable ==
  Cardinality({i \in DOMAIN mram.errors : mram.errors[i] # "io"}) > 1
    => mram.errors = <<"plain", "io", "custom">>

(* The rewritten subsystem hands littlefs a window of the payload's size: at *)
(* no point of an interrupted run does it meet a mount that still asks for   *)
(* the whole device.                                                         *)
WindowedMountsPayload ==
  mram.subsystem = "windowed" => mram.mount = "payload" /\ mram.region

(* The two scripts that add env_offset to the service's configuration guard  *)
(* it differently, yet in no order do they declare the key twice, which TOML *)
(* refuses.                                                                  *)
EnvKeysOnce == mram.config <= 1 /\ image.fragment <= 1

(* model.rs never has the key ids of layout v4 while layout.rs stamps another*)
(* version or reserves too few keys, also when the script is interrupted     *)
(* between the two files.                                                    *)
TableHasItsVersion ==
  fram.table = "v4" => fram.version = 4 /\ fram.reserved = 40

=============================================================================

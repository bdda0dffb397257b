--------------------------- MODULE ServiceEditsProofs ---------------------------
(***************************************************************************)
(* Why no order, repetition or interruption of the scripts leaves the      *)
(* services' sources in a state that the next script cannot repair or that *)
(* does not build as it should: for every number of scripts started.       *)
(*                                                                         *)
(* The argument rests on what a step can rely on because the script made   *)
(* another right before it, and on marks that outlive an interrupted run.  *)
(***************************************************************************)
EXTENDS ServiceEdits, TLAPS, SequenceTheorems, FiniteSetTheorems

Clean == <<"io", "custom">>
Doubled == <<"plain", "io", "custom">>

(* Every read-edit-write of some script.                                   *)
Steps ==
  {"layout", "model", "mirror_default", "fram_subsystem", "fram_env",
   "helpers", "window", "errors", "region", "fs_capacity", "subsystem",
   "schema", "config", "bins", "s79", "makefile", "tests", "dedup",
   "blocks", "makefile_bits", "chmod", "backend_enum", "graphql_cap",
   "tests_again", "sync_lists", "sync_verify", "fram_test", "i2c_default",
   "layout_v4", "model_v4", "model_v5"}

MramType ==
  [errors : {Clean, Doubled}, windows : {0, 1}, mount : {"device", "payload"},
   blocks : {"device", "payload"}, subsystem : {"whole", "windowed"}, region : BOOLEAN,
   query : BOOLEAN, config : {0, 1}, tests : Nat, bins : BOOLEAN]

FramType ==
  [header : BOOLEAN, version : Nat, reserved : Nat,
   table : {"older", "v3", "v4", "v5_unbalanced"}, map : BOOLEAN,
   stamps : BOOLEAN, guarded : BOOLEAN, test : BOOLEAN, bus : Nat,
   mirrors : BOOLEAN]

ImageType ==
  [spi_mode : {"echo", "echo_e", "split"}, fragment : {0, 1},
   installs : BOOLEAN, s79 : BOOLEAN, helpers : BOOLEAN, lists : Nat,
   chmods : Nat, verifies : {0, 1}]

Typed ==
  /\ mram \in MramType /\ fram \in FramType /\ image \in ImageType
  /\ edits \in Seq(Steps)

(* What the scripts do right before the steps that rely on it.             *)
InOrder ==
  \A i \in 2 .. Len(edits) :
    /\ edits[i] = "errors" => edits[i - 1] = "window"
    /\ edits[i] = "fs_capacity" => edits[i - 1] = "region"
    /\ edits[i] = "subsystem" => edits[i - 1] = "fs_capacity"
    /\ edits[i] = "model_v4" => edits[i - 1] = "layout_v4"

(* A backend without the window was never given the second variant.        *)
EnumFollowsWindow ==
  /\ mram.windows = 0 => mram.errors = Clean
  /\ At("errors") => mram.errors = Clean /\ mram.windows = 1

SubsystemFollowsMount ==
  /\ WindowedMountsPayload
  /\ At("fs_capacity") => mram.region
  /\ At("subsystem") => mram.region /\ mram.mount = "payload"

(* The entries are made where the anchor was, and the anchor is gone.      *)
FragmentTakesAnchor == image.fragment = 1 => image.spi_mode = "split"

(* A header is never added to a layout.rs that has one, so nothing sets    *)
(* the version of layouts 3 and 4 back.                                    *)
TableFollowsVersion ==
  /\ fram.table \in {"v3", "v4"} => fram.header /\ fram.version \in {3, 4}
  /\ fram.version = 4 => fram.reserved = 40
  /\ fram.table = "v4" => fram.version = 4
  /\ At("model_v4") /\ fram.table = "v3" => fram.version = 4

(* The inductive invariant.                                                *)
IInv ==
  /\ Typed /\ InOrder
  /\ EnumFollowsWindow /\ SubsystemFollowsMount
  /\ FragmentTakesAnchor /\ TableFollowsVersion
-----------------------------------------------------------------------------
(* The two states of the enum.                                             *)

LEMMA Prepend ==
  ASSUME NEW a, NEW b, NEW c
  PROVE  <<a>> \o <<b, c>> = <<a, b, c>>
<1> DEFINE S == {a, b, c}
<1>1. <<a>> \in Seq(S) /\ <<b, c>> \in Seq(S) /\ <<a, b, c>> \in Seq(S)
  OBVIOUS
<1>2. Len(<<a>>) = 1 /\ Len(<<b, c>>) = 2 /\ Len(<<a, b, c>>) = 3
  OBVIOUS
<1>3. /\ <<a>> \o <<b, c>> \in Seq(S) /\ Len(<<a>> \o <<b, c>>) = 3
      /\ \A i \in 1 .. 3 :
           (<<a>> \o <<b, c>>)[i] = IF i <= 1 THEN <<a>>[i] ELSE <<b, c>>[i - 1]
  BY <1>1, <1>2, ConcatProperties
<1>4. \A i \in 1 .. 3 : (<<a>> \o <<b, c>>)[i] = <<a, b, c>>[i]
  <2> TAKE i \in 1 .. 3
  <2>1. i = 1 \/ i = 2 \/ i = 3
    OBVIOUS
  <2> QED BY <1>3, <2>1
<1> HIDE DEF S
<1> QED BY <1>1, <1>2, <1>3, <1>4, SeqEqual

LEMMA EnumStates ==
  /\ Clean # Doubled /\ <<"plain">> \o Clean = Doubled
  /\ Tail(Doubled) = Clean
  /\ ~(Clean[1] = "plain" /\ Clean[2] = "plain")
  /\ ~(Doubled[1] = "plain" /\ Doubled[2] = "plain")
<1>1. Len(Clean) = 2 /\ Len(Doubled) = 3
  BY DEF Clean, Doubled
<1>2. Clean # Doubled
  BY <1>1
<1>3. <<"plain">> \o Clean = Doubled
  BY Prepend DEF Clean, Doubled
<1>4. Tail(Doubled) = Clean
  BY DEF Clean, Doubled
<1> QED BY <1>2, <1>3, <1>4 DEF Clean, Doubled

(* Plans.                                                                  *)

LEMMA NoPlan ==
  ASSUME edits' = <<>>
  PROVE  /\ edits' \in Seq(Steps) /\ InOrder' /\ \A step : ~At(step)'
<1>1. edits' \in Seq(Steps)
  BY EmptySeq, Zenon
<1>2. Len(edits') = 0
  BY <1>1, EmptySeq, Zenon
<1> QED BY <1>1, <1>2 DEF InOrder, At

(* The next step of a plan has the one just made before it.                *)
LEMMA PlanDone ==
  ASSUME edits \in Seq(Steps), InOrder, NEW x, At(x), edits' = Tail(edits)
  PROVE  /\ edits' \in Seq(Steps) /\ InOrder'
         /\ At("errors")' => x = "window"
         /\ At("fs_capacity")' => x = "region"
         /\ At("subsystem")' => x = "fs_capacity"
         /\ At("model_v4")' => x = "layout_v4"
<1>1. /\ edits # <<>> /\ x = edits[1] /\ Len(edits) \in Nat \ {0}
      /\ edits' \in Seq(Steps) /\ Len(edits') = Len(edits) - 1
      /\ \A i \in 1 .. Len(edits') : edits'[i] = edits[i + 1]
  <2>1. edits # <<>> /\ x = Head(edits)
    BY DEF At
  <2>2. Len(edits) \in Nat \ {0} /\ x = edits[1]
    BY <2>1, EmptySeq
  <2> QED BY <2>1, <2>2, HeadTailProperties
<1>2. InOrder'
  <2> SUFFICES ASSUME NEW i \in 2 .. Len(edits')
               PROVE  /\ edits'[i] = "errors" => edits'[i - 1] = "window"
                      /\ edits'[i] = "fs_capacity" => edits'[i - 1] = "region"
                      /\ edits'[i] = "subsystem" => edits'[i - 1] = "fs_capacity"
                      /\ edits'[i] = "model_v4" => edits'[i - 1] = "layout_v4"
    BY DEF InOrder
  <2>1. /\ i + 1 \in 2 .. Len(edits) /\ i \in 1 .. Len(edits') /\ i - 1 \in 1 .. Len(edits')
        /\ edits'[i] = edits[i + 1] /\ edits'[i - 1] = edits[i]
    BY <1>1
  <2> QED BY <2>1 DEF InOrder
<1>3. ASSUME NEW step, At(step)'
      PROVE  2 \in 2 .. Len(edits) /\ edits[2] = step /\ edits[2 - 1] = x
  <2>1. edits' # <<>> /\ Head(edits') = step
    BY <1>3 DEF At
  <2>2. Len(edits') # 0
    BY <1>1, <2>1, EmptySeq
  <2>3. 1 \in 1 .. Len(edits') /\ 2 \in 2 .. Len(edits) /\ edits'[1] = step
    BY <1>1, <2>1, <2>2
  <2> QED BY <1>1, <2>3
<1> QED BY <1>1, <1>2, <1>3 DEF InOrder

(* A step that writes back a part of mram-service.                         *)
LEMMA MramStep ==
  ASSUME IInv, NEW x \in Steps, At(x), NEW m \in MramType, Mram(m),
         m.windows = 0 => m.errors = Clean,
         x = "window" => m.errors = Clean /\ m.windows = 1,
         m.subsystem = "windowed" => m.mount = "payload" /\ m.region,
         x = "region" => m.region,
         x = "fs_capacity" => m.region /\ m.mount = "payload",
         x # "layout_v4"
  PROVE  IInv'
<1>1. mram' = m /\ edits' = Tail(edits) /\ UNCHANGED <<fram, image>>
  BY DEF Mram, Done
<1>2. /\ edits' \in Seq(Steps) /\ InOrder'
      /\ At("errors")' => x = "window"
      /\ At("fs_capacity")' => x = "region"
      /\ At("subsystem")' => x = "fs_capacity"
      /\ ~At("model_v4")'
  BY <1>1, PlanDone DEF IInv, Typed
<1>3. Typed'
  BY <1>1, <1>2 DEF IInv, Typed
<1>4. EnumFollowsWindow'
  BY <1>1, <1>2 DEF EnumFollowsWindow
<1>5. SubsystemFollowsMount'
  BY <1>1, <1>2 DEF SubsystemFollowsMount, WindowedMountsPayload
<1>6. FragmentTakesAnchor'
  BY <1>1 DEF IInv, FragmentTakesAnchor
<1>7. TableFollowsVersion'
  BY <1>1, <1>2 DEF IInv, TableFollowsVersion
<1> QED BY <1>2, <1>3, <1>4, <1>5, <1>6, <1>7 DEF IInv

(* One that writes back a part of fram-service.                            *)
LEMMA FramStep ==
  ASSUME IInv, NEW x \in Steps, At(x), NEW f \in FramType, Fram(f),
         f.table \in {"v3", "v4"} => f.header /\ f.version \in {3, 4},
         f.version = 4 => f.reserved = 40,
         f.table = "v4" => f.version = 4,
         x = "layout_v4" /\ f.table = "v3" => f.version = 4,
         x \notin {"window", "region", "fs_capacity"}
  PROVE  IInv'
<1>1. fram' = f /\ edits' = Tail(edits) /\ UNCHANGED <<mram, image>>
  BY DEF Fram, Done
<1>2. /\ edits' \in Seq(Steps) /\ InOrder'
      /\ ~At("errors")' /\ ~At("fs_capacity")' /\ ~At("subsystem")'
      /\ At("model_v4")' => x = "layout_v4"
  BY <1>1, PlanDone DEF IInv, Typed
<1>3. Typed'
  BY <1>1, <1>2 DEF IInv, Typed
<1>4. EnumFollowsWindow'
  BY <1>1, <1>2 DEF IInv, EnumFollowsWindow
<1>5. SubsystemFollowsMount'
  BY <1>1, <1>2 DEF IInv, SubsystemFollowsMount, WindowedMountsPayload
<1>6. FragmentTakesAnchor'
  BY <1>1 DEF IInv, FragmentTakesAnchor
<1>7. TableFollowsVersion'
  BY <1>1, <1>2 DEF TableFollowsVersion
<1> QED BY <1>2, <1>3, <1>4, <1>5, <1>6, <1>7 DEF IInv

(* One that writes back a part of the image's files.                       *)
LEMMA ImageStep ==
  ASSUME IInv, NEW x \in Steps, At(x), NEW g \in ImageType, Image(g),
         g.fragment = 1 => g.spi_mode = "split",
         x \notin {"window", "region", "fs_capacity", "layout_v4"}
  PROVE  IInv'
<1>1. image' = g /\ edits' = Tail(edits) /\ UNCHANGED <<mram, fram>>
  BY DEF Image, Done
<1>2. /\ edits' \in Seq(Steps) /\ InOrder' /\ ~At("errors")'
      /\ ~At("fs_capacity")' /\ ~At("subsystem")' /\ ~At("model_v4")'
  BY <1>1, PlanDone DEF IInv, Typed
<1>3. Typed'
  BY <1>1, <1>2 DEF IInv, Typed
<1>4. EnumFollowsWindow'
  BY <1>1, <1>2 DEF IInv, EnumFollowsWindow
<1>5. SubsystemFollowsMount'
  BY <1>1, <1>2 DEF IInv, SubsystemFollowsMount, WindowedMountsPayload
<1>6. FragmentTakesAnchor'
  BY <1>1 DEF FragmentTakesAnchor
<1>7. TableFollowsVersion'
  BY <1>1, <1>2 DEF IInv, TableFollowsVersion
<1> QED BY <1>2, <1>3, <1>4, <1>5, <1>6, <1>7 DEF IInv

(* The files stay as they are and the script has no step left.             *)
LEMMA EndStep ==
  ASSUME IInv, edits' = <<>>, UNCHANGED <<mram, fram, image>>
  PROVE  IInv'
<1>1. edits' \in Seq(Steps) /\ InOrder' /\ \A step : ~At(step)'
  BY NoPlan
<1>2. Typed'
  BY <1>1 DEF IInv, Typed
<1>3. EnumFollowsWindow'
  BY <1>1 DEF IInv, EnumFollowsWindow
<1>4. SubsystemFollowsMount'
  BY <1>1 DEF IInv, SubsystemFollowsMount, WindowedMountsPayload
<1>5. FragmentTakesAnchor'
  BY DEF IInv, FragmentTakesAnchor
<1>6. TableFollowsVersion'
  BY <1>1 DEF IInv, TableFollowsVersion
<1> QED BY <1>1, <1>2, <1>3, <1>4, <1>5, <1>6 DEF IInv

LEMMA AbortStep ==
  ASSUME IInv, Abort
  PROVE  IInv'
BY EndStep DEF Abort, StopEdits

(* A script starts at a step that relies on none before it.                *)
LEMMA RunStep ==
  ASSUME IInv, NEW s, NEW steps \in Seq(Steps), Len(steps) > 0, RunEdits(s, steps),
         steps[1] \notin {"errors", "fs_capacity", "subsystem", "model_v4"},
         \A i \in 2 .. Len(steps) :
           /\ steps[i] = "errors" => steps[i - 1] = "window"
           /\ steps[i] = "fs_capacity" => steps[i - 1] = "region"
           /\ steps[i] = "subsystem" => steps[i - 1] = "fs_capacity"
           /\ steps[i] = "model_v4" => steps[i - 1] = "layout_v4"
  PROVE  IInv'
<1>1. edits' = steps /\ UNCHANGED <<mram, fram, image>>
  BY DEF RunEdits
<1>2. InOrder'
  BY <1>1 DEF InOrder
<1>3. /\ ~At("errors")' /\ ~At("fs_capacity")' /\ ~At("subsystem")'
      /\ ~At("model_v4")'
  <2>1. edits' = steps /\ Head(steps) = steps[1]
    BY <1>1
  <2> QED BY <2>1 DEF At
<1>4. Typed'
  BY <1>1 DEF IInv, Typed
<1>5. EnumFollowsWindow'
  BY <1>1, <1>3 DEF IInv, EnumFollowsWindow
<1>6. SubsystemFollowsMount'
  BY <1>1, <1>3 DEF IInv, SubsystemFollowsMount, WindowedMountsPayload
<1>7. FragmentTakesAnchor'
  BY <1>1 DEF IInv, FragmentTakesAnchor
<1>8. TableFollowsVersion'
  BY <1>1, <1>3 DEF IInv, TableFollowsVersion
<1> QED BY <1>2, <1>4, <1>5, <1>6, <1>7, <1>8 DEF IInv

LEMMA StartStep ==
  ASSUME IInv, StartEdits
  PROVE  IInv'
<1>1. ASSUME NEW s, NEW x \in Steps \ {"errors", "fs_capacity", "subsystem", "model_v4"},
             RunEdits(s, <<x>>)
      PROVE  IInv'
  <2>1. <<x>> \in Seq(Steps) /\ Len(<<x>>) > 0 /\ <<x>>[1] = x
    OBVIOUS
  <2>2. 2 .. Len(<<x>>) = {}
    OBVIOUS
  <2> DEFINE steps == <<x>>
  <2> HIDE DEF steps
  <2> QED BY <1>1, <2>1, <2>2, RunStep DEF steps
<1>2. CASE RunEdits("plan", Plan1)
  <2>1. Plan1 \in Seq(Steps) /\ Len(Plan1) = 3 /\ Len(Plan1) > 0
    BY DEF Plan1, Steps
  <2>2. \A i \in 2 .. 3 : \/ i = 2 \/ i = 3
    OBVIOUS
  <2>3. Plan1[1] \notin {"errors", "fs_capacity", "subsystem", "model_v4"}
    BY DEF Plan1
  <2>4. \A i \in 2 .. Len(Plan1) :
          /\ Plan1[i] = "errors" => Plan1[i - 1] = "window"
          /\ Plan1[i] = "fs_capacity" => Plan1[i - 1] = "region"
          /\ Plan1[i] = "subsystem" => Plan1[i - 1] = "fs_capacity"
          /\ Plan1[i] = "model_v4" => Plan1[i - 1] = "layout_v4"
    BY <2>1, <2>2 DEF Plan1
  <2> QED BY <1>2, <2>1, <2>3, <2>4, RunStep
<1>3. CASE RunEdits("plan2", Plan2)
  <2>1. Plan2 \in Seq(Steps) /\ Len(Plan2) = 5 /\ Len(Plan2) > 0
    BY DEF Plan2, Steps
  <2>2. \A i \in 2 .. 5 : \/ i = 2 \/ i = 3 \/ i = 4 \/ i = 5
    OBVIOUS
  <2>3. Plan2[1] \notin {"errors", "fs_capacity", "subsystem", "model_v4"}
    BY DEF Plan2
  <2>4. \A i \in 2 .. Len(Plan2) :
          /\ Plan2[i] = "errors" => Plan2[i - 1] = "window"
          /\ Plan2[i] = "fs_capacity" => Plan2[i - 1] = "region"
          /\ Plan2[i] = "subsystem" => Plan2[i - 1] = "fs_capacity"
          /\ Plan2[i] = "model_v4" => Plan2[i - 1] = "layout_v4"
    BY <2>1, <2>2 DEF Plan2
  <2> QED BY <1>3, <2>1, <2>3, <2>4, RunStep
<1>4. CASE RunEdits("env_region", EnvRegion)
  <2>1. EnvRegion \in Seq(Steps) /\ Len(EnvRegion) = 9 /\ Len(EnvRegion) > 0
    BY DEF EnvRegion, Steps
  <2>2. \A i \in 2 .. 9 : \/ i = 2 \/ i = 3 \/ i = 4 \/ i = 5 \/ i = 6 \/ i = 7 \/ i = 8 \/ i = 9
    OBVIOUS
  <2>3. EnvRegion[1] \notin {"errors", "fs_capacity", "subsystem", "model_v4"}
    BY DEF EnvRegion
  <2>4. \A i \in 2 .. Len(EnvRegion) :
          /\ EnvRegion[i] = "errors" => EnvRegion[i - 1] = "window"
          /\ EnvRegion[i] = "fs_capacity" => EnvRegion[i - 1] = "region"
          /\ EnvRegion[i] = "subsystem" => EnvRegion[i - 1] = "fs_capacity"
          /\ EnvRegion[i] = "model_v4" => EnvRegion[i - 1] = "layout_v4"
    BY <2>1, <2>2 DEF EnvRegion
  <2> QED BY <1>4, <2>1, <2>3, <2>4, RunStep
<1>5. CASE RunEdits("mram_bits", MramBits)
  <2>1. MramBits \in Seq(Steps) /\ Len(MramBits) = 4 /\ Len(MramBits) > 0
    BY DEF MramBits, Steps
  <2>2. \A i \in 2 .. 4 : \/ i = 2 \/ i = 3 \/ i = 4
    OBVIOUS
  <2>3. MramBits[1] \notin {"errors", "fs_capacity", "subsystem", "model_v4"}
    BY DEF MramBits
  <2>4. \A i \in 2 .. Len(MramBits) :
          /\ MramBits[i] = "errors" => MramBits[i - 1] = "window"
          /\ MramBits[i] = "fs_capacity" => MramBits[i - 1] = "region"
          /\ MramBits[i] = "subsystem" => MramBits[i - 1] = "fs_capacity"
          /\ MramBits[i] = "model_v4" => MramBits[i - 1] = "layout_v4"
    BY <2>1, <2>2 DEF MramBits
  <2> QED BY <1>5, <2>1, <2>3, <2>4, RunStep
<1>6. CASE RunEdits("sync_and_tests", SyncAndTests)
  <2>1. SyncAndTests \in Seq(Steps) /\ Len(SyncAndTests) = 2 /\ Len(SyncAndTests) > 0
    BY DEF SyncAndTests, Steps
  <2>2. \A i \in 2 .. 2 : \/ i = 2
    OBVIOUS
  <2>3. SyncAndTests[1] \notin {"errors", "fs_capacity", "subsystem", "model_v4"}
    BY DEF SyncAndTests
  <2>4. \A i \in 2 .. Len(SyncAndTests) :
          /\ SyncAndTests[i] = "errors" => SyncAndTests[i - 1] = "window"
          /\ SyncAndTests[i] = "fs_capacity" => SyncAndTests[i - 1] = "region"
          /\ SyncAndTests[i] = "subsystem" => SyncAndTests[i - 1] = "fs_capacity"
          /\ SyncAndTests[i] = "model_v4" => SyncAndTests[i - 1] = "layout_v4"
    BY <2>1, <2>2 DEF SyncAndTests
  <2> QED BY <1>6, <2>1, <2>3, <2>4, RunStep
<1>7. CASE RunEdits("layout_v4", LayoutV4)
  <2>1. LayoutV4 \in Seq(Steps) /\ Len(LayoutV4) = 2 /\ Len(LayoutV4) > 0
    BY DEF LayoutV4, Steps
  <2>2. \A i \in 2 .. 2 : \/ i = 2
    OBVIOUS
  <2>3. LayoutV4[1] \notin {"errors", "fs_capacity", "subsystem", "model_v4"}
    BY DEF LayoutV4
  <2>4. \A i \in 2 .. Len(LayoutV4) :
          /\ LayoutV4[i] = "errors" => LayoutV4[i - 1] = "window"
          /\ LayoutV4[i] = "fs_capacity" => LayoutV4[i - 1] = "region"
          /\ LayoutV4[i] = "subsystem" => LayoutV4[i - 1] = "fs_capacity"
          /\ LayoutV4[i] = "model_v4" => LayoutV4[i - 1] = "layout_v4"
    BY <2>1, <2>2 DEF LayoutV4
  <2> QED BY <1>7, <2>1, <2>3, <2>4, RunStep
<1>8. {"backend_enum", "graphql_cap", "sync_verify", "fram_test", "i2c_default",
      "model_v5"} \subseteq
        Steps \ {"errors", "fs_capacity", "subsystem", "model_v4"}
  BY DEF Steps
<1> QED
  BY <1>1, <1>8, <1>2, <1>3, <1>4, <1>5, <1>6, <1>7 DEF StartEdits

(* Steps that change nothing the invariant is about.                       *)

LEMMA MramAside ==
  ASSUME IInv, NEW x \in Steps, At(x), NEW m \in MramType, Mram(m),
         m.errors = mram.errors, m.windows = mram.windows, m.mount = mram.mount,
         m.subsystem = mram.subsystem, m.region <=> mram.region,
         x \notin {"window", "region", "fs_capacity", "layout_v4"}
  PROVE  IInv'
<1>1. /\ mram.windows = 0 => mram.errors = Clean
      /\ mram.subsystem = "windowed" => mram.mount = "payload" /\ mram.region
  BY DEF IInv, EnumFollowsWindow, SubsystemFollowsMount, WindowedMountsPayload
<1> QED BY <1>1, MramStep

LEMMA FramAside ==
  ASSUME IInv, NEW x \in Steps, At(x), NEW f \in FramType, Fram(f),
         f.header <=> fram.header, f.version = fram.version,
         f.reserved = fram.reserved, f.table = fram.table,
         x \notin {"window", "region", "fs_capacity", "layout_v4"}
  PROVE  IInv'
<1>1. /\ fram.table \in {"v3", "v4"} => fram.header /\ fram.version \in {3, 4}
      /\ fram.version = 4 => fram.reserved = 40
      /\ fram.table = "v4" => fram.version = 4
  BY DEF IInv, TableFollowsVersion
<1> QED BY <1>1, FramStep

LEMMA ImageAside ==
  ASSUME IInv, NEW x \in Steps, At(x), NEW g \in ImageType, Image(g),
         g.fragment = image.fragment, g.spi_mode = image.spi_mode,
         x \notin {"window", "region", "fs_capacity", "layout_v4"}
  PROVE  IInv'
<1>1. image.fragment = 1 => image.spi_mode = "split"
  BY DEF IInv, FragmentTakesAnchor
<1> QED BY <1>1, ImageStep

(* mram-service.                                                           *)

LEMMA WindowStep ==
  ASSUME IInv, PatchMramBackendWindow
  PROVE  IInv'
<1> DEFINE m == [mram EXCEPT !.windows = 1]
<1>1. CASE mram.windows > 0 /\ edits' = <<>> /\ UNCHANGED <<mram, editor, editsEnded, editRuns>>
  BY <1>1, EndStep DEF PatchMramBackendWindow
<1>2. CASE mram.windows = 0 /\ mram' = m /\ Done
  <2>1. At("window") /\ Mram(m)
    BY <1>2 DEF PatchMramBackendWindow, Mram
  <2>2. /\ m \in MramType /\ m.errors = mram.errors /\ m.windows = 1
        /\ m.subsystem = mram.subsystem /\ m.mount = mram.mount
        /\ m.region <=> mram.region
    BY DEF IInv, Typed, MramType
  <2>3. mram.errors = Clean
    BY <1>2 DEF IInv, EnumFollowsWindow
  <2>4. m.subsystem = "windowed" => m.mount = "payload" /\ m.region
    BY <2>2 DEF IInv, SubsystemFollowsMount, WindowedMountsPayload
  <2>5. "window" \in Steps
    BY DEF Steps
  <2> HIDE DEF m
  <2> QED BY <2>1, <2>2, <2>3, <2>4, <2>5, MramStep
<1> QED BY <1>1, <1>2 DEF PatchMramBackendWindow

LEMMA ErrorsStep ==
  ASSUME IInv, AddInvalidConfig
  PROVE  IInv'
<1> DEFINE m == [mram EXCEPT !.errors = Doubled]
<1>1. At("errors") /\ Mram(m)
  <2>1. At("errors") /\ Mram([mram EXCEPT !.errors = <<"plain">> \o @])
    BY DEF AddInvalidConfig
  <2>2. mram.errors = Clean
    BY <2>1 DEF IInv, EnumFollowsWindow
  <2> QED BY <2>1, <2>2, EnumStates
<1>2. /\ m \in MramType /\ m.errors = Doubled /\ m.windows = mram.windows
      /\ m.mount = mram.mount /\ m.subsystem = mram.subsystem
      /\ (m.region <=> mram.region)
  BY <1>1 DEF IInv, Typed, MramType
<1>3. "errors" \in Steps
  BY DEF Steps
<1>4. /\ mram.windows = 1
      /\ m.subsystem = "windowed" => m.mount = "payload" /\ m.region
  BY <1>1, <1>2 DEF IInv, EnumFollowsWindow, SubsystemFollowsMount, WindowedMountsPayload
<1> HIDE DEF m
<1> QED BY <1>1, <1>2, <1>3, <1>4, MramStep

LEMMA RegionStep ==
  ASSUME IInv, WriteEnvMod
  PROVE  IInv'
<1> DEFINE m == [mram EXCEPT !.region = TRUE]
<1>1. At("region") /\ Mram(m)
  BY DEF WriteEnvMod
<1>2. /\ m \in MramType /\ m.errors = mram.errors /\ m.windows = mram.windows
      /\ m.mount = mram.mount /\ m.subsystem = mram.subsystem /\ m.region
  BY <1>1 DEF IInv, Typed, MramType
<1>3. "region" \in Steps
  BY DEF Steps
<1>4. /\ m.windows = 0 => m.errors = Clean
      /\ m.subsystem = "windowed" => m.mount = "payload" /\ m.region
  BY <1>1, <1>2 DEF IInv, EnumFollowsWindow, SubsystemFollowsMount, WindowedMountsPayload
<1> HIDE DEF m
<1> QED BY <1>1, <1>2, <1>3, <1>4, MramStep

LEMMA FsCapacityStep ==
  ASSUME IInv, PatchFsCapacity
  PROVE  IInv'
<1> DEFINE m == [mram EXCEPT !.mount = "payload"]
<1>1. CASE Abort
  BY <1>1, AbortStep
<1>2. CASE ~Abort
  <2>1. At("fs_capacity") /\ Mram(m)
    BY <1>2 DEF PatchFsCapacity, Must
  <2>2. /\ m \in MramType /\ m.errors = mram.errors
          /\ m.windows = mram.windows /\ m.mount = "payload"
          /\ m.subsystem = mram.subsystem /\ (m.region <=> mram.region)
    BY <2>1 DEF IInv, Typed, MramType
  <2>3. "fs_capacity" \in Steps
    BY DEF Steps
  <2>4. /\ m.windows = 0 => m.errors = Clean
        /\ m.region
    BY <2>1, <2>2 DEF IInv, EnumFollowsWindow, SubsystemFollowsMount, WindowedMountsPayload
  <2> HIDE DEF m
  <2> QED BY <2>1, <2>2, <2>3, <2>4, MramStep
<1> QED BY <1>1, <1>2

LEMMA SubsystemStep ==
  ASSUME IInv, RewriteSubsystem
  PROVE  IInv'
<1> DEFINE m == [mram EXCEPT !.subsystem = "windowed"]
<1>1. At("subsystem") /\ Mram(m)
  BY DEF RewriteSubsystem
<1>2. /\ m \in MramType /\ m.errors = mram.errors /\ m.windows = mram.windows
      /\ m.mount = mram.mount /\ m.subsystem = "windowed"
      /\ (m.region <=> mram.region)
  BY <1>1 DEF IInv, Typed, MramType
<1>3. "subsystem" \in Steps
  BY DEF Steps
<1>4. /\ m.windows = 0 => m.errors = Clean
      /\ m.subsystem = "windowed" => m.mount = "payload" /\ m.region
  BY <1>1, <1>2 DEF IInv, EnumFollowsWindow, SubsystemFollowsMount, WindowedMountsPayload
<1> HIDE DEF m
<1> QED BY <1>1, <1>2, <1>3, <1>4, MramStep

LEMMA SchemaStep ==
  ASSUME IInv, PatchSchema
  PROVE  IInv'
<1> DEFINE m == [mram EXCEPT !.query = TRUE]
<1>1. At("schema") /\ Mram(m)
  BY DEF PatchSchema
<1>2. /\ m \in MramType /\ m.errors = mram.errors /\ m.windows = mram.windows
      /\ m.mount = mram.mount /\ m.subsystem = mram.subsystem
      /\ (m.region <=> mram.region)
  BY <1>1 DEF IInv, Typed, MramType
<1>3. "schema" \in Steps
  BY DEF Steps
<1> HIDE DEF m
<1> QED BY <1>1, <1>2, <1>3, MramAside

LEMMA ConfigStep ==
  ASSUME IInv, PatchConfig
  PROVE  IInv'
<1> DEFINE m == [mram EXCEPT !.config = IF @ > 0 THEN @ ELSE @ + 1]
<1>1. At("config") /\ Mram(m)
  BY DEF PatchConfig
<1>2. /\ m \in MramType /\ m.errors = mram.errors /\ m.windows = mram.windows
      /\ m.mount = mram.mount /\ m.subsystem = mram.subsystem
      /\ (m.region <=> mram.region)
  BY <1>1 DEF IInv, Typed, MramType
<1>3. "config" \in Steps
  BY DEF Steps
<1> HIDE DEF m
<1> QED BY <1>1, <1>2, <1>3, MramAside

LEMMA BinsStep ==
  ASSUME IInv, WriteSyncBin
  PROVE  IInv'
<1> DEFINE m == [mram EXCEPT !.bins = TRUE]
<1>1. At("bins") /\ Mram(m)
  BY DEF WriteSyncBin
<1>2. /\ m \in MramType /\ m.errors = mram.errors /\ m.windows = mram.windows
      /\ m.mount = mram.mount /\ m.subsystem = mram.subsystem
      /\ (m.region <=> mram.region)
  BY <1>1 DEF IInv, Typed, MramType
<1>3. "bins" \in Steps
  BY DEF Steps
<1> HIDE DEF m
<1> QED BY <1>1, <1>2, <1>3, MramAside

LEMMA TestsStep ==
  ASSUME IInv, FixTests
  PROVE  IInv'
<1> DEFINE m == [mram EXCEPT !.tests = IF @ > 0 THEN @ ELSE @ + 1]
<1>1. At("tests") /\ Mram(m)
  BY DEF FixTests
<1>2. /\ m \in MramType /\ m.errors = mram.errors /\ m.windows = mram.windows
      /\ m.mount = mram.mount /\ m.subsystem = mram.subsystem
      /\ (m.region <=> mram.region)
  BY <1>1 DEF IInv, Typed, MramType
<1>3. "tests" \in Steps
  BY DEF Steps
<1> HIDE DEF m
<1> QED BY <1>1, <1>2, <1>3, MramAside

LEMMA BlocksStep ==
  ASSUME IInv, FixBlockCount
  PROVE  IInv'
<1> DEFINE m == [mram EXCEPT !.blocks = "payload"]
<1>1. At("blocks") /\ Mram(m)
  BY DEF FixBlockCount
<1>2. /\ m \in MramType /\ m.errors = mram.errors /\ m.windows = mram.windows
      /\ m.mount = mram.mount /\ m.subsystem = mram.subsystem
      /\ (m.region <=> mram.region)
  BY <1>1 DEF IInv, Typed, MramType
<1>3. "blocks" \in Steps
  BY DEF Steps
<1> HIDE DEF m
<1> QED BY <1>1, <1>2, <1>3, MramAside

LEMMA GraphqlStep ==
  ASSUME IInv, FixGraphqlCap
  PROVE  IInv'
<1> DEFINE m == [mram EXCEPT !.tests = IF @ > 0 THEN @ ELSE @ + 1]
<1>1. At("graphql_cap") /\ Mram(m)
  BY DEF FixGraphqlCap
<1>2. /\ m \in MramType /\ m.errors = mram.errors /\ m.windows = mram.windows
      /\ m.mount = mram.mount /\ m.subsystem = mram.subsystem
      /\ (m.region <=> mram.region)
  BY <1>1 DEF IInv, Typed, MramType
<1>3. "graphql_cap" \in Steps
  BY DEF Steps
<1> HIDE DEF m
<1> QED BY <1>1, <1>2, <1>3, MramAside

LEMMA TestsAgainStep ==
  ASSUME IInv, InsertTestKeys
  PROVE  IInv'
<1> DEFINE m == [mram EXCEPT !.tests = @ + 1]
<1>1. At("tests_again") /\ Mram(m)
  BY DEF InsertTestKeys
<1>2. /\ m \in MramType /\ m.errors = mram.errors /\ m.windows = mram.windows
      /\ m.mount = mram.mount /\ m.subsystem = mram.subsystem
      /\ (m.region <=> mram.region)
  BY <1>1 DEF IInv, Typed, MramType
<1>3. "tests_again" \in Steps
  BY DEF Steps
<1> HIDE DEF m
<1> QED BY <1>1, <1>2, <1>3, MramAside

LEMMA BackendEnumStep ==
  ASSUME IInv, FixBackendEnum
  PROVE  IInv'
<1> DEFINE m == [mram EXCEPT !.errors = Clean]
<1>1. CASE Abort
  BY <1>1, AbortStep
<1>2. CASE ~Abort
  <2>1. At("backend_enum") /\ Mram(m)
    <3>1. /\ At("backend_enum") /\ mram.errors = Doubled
          /\ Mram([mram EXCEPT !.errors = Tail(@)])
      BY <1>2 DEF FixBackendEnum, Must, Doubled
    <3> QED BY <3>1, EnumStates
  <2>2. /\ m \in MramType /\ m.errors = Clean /\ m.windows = mram.windows
          /\ m.mount = mram.mount /\ m.subsystem = mram.subsystem
          /\ (m.region <=> mram.region)
    BY <2>1 DEF IInv, Typed, MramType
  <2>3. "backend_enum" \in Steps
    BY DEF Steps
  <2>4. m.subsystem = "windowed" => m.mount = "payload" /\ m.region
    BY <2>1, <2>2 DEF IInv, EnumFollowsWindow, SubsystemFollowsMount, WindowedMountsPayload
  <2> HIDE DEF m
  <2> QED BY <2>1, <2>2, <2>3, <2>4, MramStep
<1> QED BY <1>1, <1>2

LEMMA DedupStep ==
  ASSUME IInv, Dedup
  PROVE  IInv'
<1>1. mram \in MramType
  BY DEF IInv, Typed
<1>2. ~(/\ Len(mram.errors) > 1
        /\ mram.errors[1] = "plain" /\ mram.errors[2] = "plain")
  BY <1>1, EnumStates DEF MramType
<1>3. ~(mram.windows > 1)
  BY <1>1 DEF MramType
<1>4. /\ At("dedup")
      /\ Mram([mram EXCEPT !.errors = mram.errors, !.windows = mram.windows])
  BY <1>2, <1>3 DEF Dedup
<1>5. [mram EXCEPT !.errors = mram.errors, !.windows = mram.windows] = mram
  BY <1>1 DEF MramType
<1>6. "dedup" \in Steps
  BY DEF Steps
<1> QED BY <1>1, <1>4, <1>5, <1>6, MramAside

(* fram-service.                                                           *)

LEMMA LayoutStep ==
  ASSUME IInv, PatchFramLayout
  PROVE  IInv'
<1> DEFINE f == [fram EXCEPT !.header = TRUE, !.version = 1]
<1>1. CASE Abort
  BY <1>1, AbortStep
<1>2. CASE ~Abort
  <2>1. At("layout") /\ ~fram.header /\ Fram(f)
    BY <1>2 DEF PatchFramLayout, Must
  <2>2. /\ f \in FramType /\ f.version = 1 /\ f.table = fram.table
    BY <2>1 DEF IInv, Typed, FramType
  <2>3. "layout" \in Steps
    BY DEF Steps
  <2>4. f.table \notin {"v3", "v4"}
    BY <2>1, <2>2 DEF IInv, TableFollowsVersion
  <2> HIDE DEF f
  <2> QED BY <2>1, <2>2, <2>3, <2>4, FramStep
<1> QED BY <1>1, <1>2

LEMMA ModelStep ==
  ASSUME IInv, PatchFramModel
  PROVE  IInv'
<1> DEFINE f == [fram EXCEPT !.map = TRUE]
<1>1. CASE Abort
  BY <1>1, AbortStep
<1>2. CASE ~Abort
  <2>1. At("model") /\ Fram(f)
    BY <1>2 DEF PatchFramModel, Must
  <2>2. /\ f \in FramType /\ (f.header <=> fram.header)
          /\ f.version = fram.version /\ f.reserved = fram.reserved
          /\ f.table = fram.table
    BY <2>1 DEF IInv, Typed, FramType
  <2>3. "model" \in Steps
    BY DEF Steps
  <2> HIDE DEF f
  <2> QED BY <2>1, <2>2, <2>3, FramAside
<1> QED BY <1>1, <1>2

LEMMA MirrorStep ==
  ASSUME IInv, PatchFramSchemaMirrorDefault
  PROVE  IInv'
<1> DEFINE f == [fram EXCEPT !.mirrors = FALSE]
<1>1. At("mirror_default") /\ Fram(f)
  BY DEF PatchFramSchemaMirrorDefault
<1>2. /\ f \in FramType /\ (f.header <=> fram.header)
      /\ f.version = fram.version /\ f.reserved = fram.reserved
      /\ f.table = fram.table
  BY <1>1 DEF IInv, Typed, FramType
<1>3. "mirror_default" \in Steps
  BY DEF Steps
<1> HIDE DEF f
<1> QED BY <1>1, <1>2, <1>3, FramAside

LEMMA FramSubsystemStep ==
  ASSUME IInv, PatchFramSubsystem
  PROVE  IInv'
<1> DEFINE f == [fram EXCEPT !.stamps = TRUE]
<1>1. CASE Abort
  BY <1>1, AbortStep
<1>2. CASE ~Abort
  <2>1. At("fram_subsystem") /\ Fram(f)
    BY <1>2 DEF PatchFramSubsystem, Must
  <2>2. /\ f \in FramType /\ (f.header <=> fram.header)
          /\ f.version = fram.version /\ f.reserved = fram.reserved
          /\ f.table = fram.table
    BY <2>1 DEF IInv, Typed, FramType
  <2>3. "fram_subsystem" \in Steps
    BY DEF Steps
  <2> HIDE DEF f
  <2> QED BY <2>1, <2>2, <2>3, FramAside
<1> QED BY <1>1, <1>2

LEMMA FramEnvStep ==
  ASSUME IInv, PatchFramEnv
  PROVE  IInv'
<1> DEFINE f == [fram EXCEPT !.guarded = TRUE]
<1>1. At("fram_env") /\ Fram(f)
  BY DEF PatchFramEnv
<1>2. /\ f \in FramType /\ (f.header <=> fram.header)
      /\ f.version = fram.version /\ f.reserved = fram.reserved
      /\ f.table = fram.table
  BY <1>1 DEF IInv, Typed, FramType
<1>3. "fram_env" \in Steps
  BY DEF Steps
<1> HIDE DEF f
<1> QED BY <1>1, <1>2, <1>3, FramAside

LEMMA FramTestStep ==
  ASSUME IInv, FixFramTest
  PROVE  IInv'
<1> DEFINE f == [fram EXCEPT !.test = TRUE]
<1>1. CASE Abort
  BY <1>1, AbortStep
<1>2. CASE ~Abort
  <2>1. At("fram_test") /\ Fram(f)
    BY <1>2 DEF FixFramTest, Must
  <2>2. /\ f \in FramType /\ (f.header <=> fram.header)
          /\ f.version = fram.version /\ f.reserved = fram.reserved
          /\ f.table = fram.table
    BY <2>1 DEF IInv, Typed, FramType
  <2>3. "fram_test" \in Steps
    BY DEF Steps
  <2> HIDE DEF f
  <2> QED BY <2>1, <2>2, <2>3, FramAside
<1> QED BY <1>1, <1>2

LEMMA I2cStep ==
  ASSUME IInv, FixI2cDefault
  PROVE  IInv'
<1> DEFINE f == [fram EXCEPT !.bus = 2]
<1>1. At("i2c_default") /\ Fram(f)
  BY DEF FixI2cDefault
<1>2. /\ f \in FramType /\ (f.header <=> fram.header)
      /\ f.version = fram.version /\ f.reserved = fram.reserved
      /\ f.table = fram.table
  BY <1>1 DEF IInv, Typed, FramType
<1>3. "i2c_default" \in Steps
  BY DEF Steps
<1> HIDE DEF f
<1> QED BY <1>1, <1>2, <1>3, FramAside

LEMMA LayoutV4Step ==
  ASSUME IInv, LayoutRsV4
  PROVE  IInv'
<1> DEFINE f == [fram EXCEPT !.reserved = 40, !.version = IF @ = 3 THEN 4 ELSE @]
<1>1. At("layout_v4") /\ Fram(f)
  BY DEF LayoutRsV4
<1>2. /\ f \in FramType /\ f.reserved = 40
      /\ f.version = IF fram.version = 3 THEN 4 ELSE fram.version
      /\ f.table = fram.table /\ (f.header <=> fram.header)
  BY <1>1 DEF IInv, Typed, FramType
<1>3. "layout_v4" \in Steps
  BY DEF Steps
<1>4. /\ f.table \in {"v3", "v4"} => f.header /\ f.version = 4
      /\ f.table = "v4" => f.version = 4
  BY <1>1, <1>2 DEF IInv, TableFollowsVersion
<1> HIDE DEF f
<1> QED BY <1>1, <1>2, <1>3, <1>4, FramStep

LEMMA ModelV4Step ==
  ASSUME IInv, ModelRsV4
  PROVE  IInv'
<1> DEFINE f == [fram EXCEPT !.table = "v4"]
<1>1. CASE Abort
  BY <1>1, AbortStep
<1>2. CASE ~Abort
  <2>1. At("model_v4") /\ fram.table = "v3" /\ Fram(f)
    BY <1>2 DEF ModelRsV4, Must
  <2>2. /\ f \in FramType /\ f.reserved = fram.reserved
          /\ f.version = fram.version /\ f.table = "v4"
          /\ (f.header <=> fram.header)
    BY <2>1 DEF IInv, Typed, FramType
  <2>3. "model_v4" \in Steps
    BY DEF Steps
  <2>4. f.version = 4 /\ f.reserved = 40 /\ f.header
    BY <2>1, <2>2 DEF IInv, TableFollowsVersion
  <2> HIDE DEF f
  <2> QED BY <2>1, <2>2, <2>3, <2>4, FramStep
<1> QED BY <1>1, <1>2

LEMMA ModelV5Step ==
  ASSUME IInv, ModelRsV5
  PROVE  IInv'
<1> DEFINE f == [fram EXCEPT !.table = "v5_unbalanced"]
<1>1. CASE Abort
  BY <1>1, AbortStep
<1>2. CASE ~Abort
  <2>1. At("model_v5") /\ Fram(f)
    BY <1>2 DEF ModelRsV5, Must
  <2>2. /\ f \in FramType /\ f.reserved = fram.reserved
          /\ f.version = fram.version /\ f.table = "v5_unbalanced"
    BY <2>1 DEF IInv, Typed, FramType
  <2>3. "model_v5" \in Steps
    BY DEF Steps
  <2>4. f.version = 4 => f.reserved = 40
    BY <2>1, <2>2 DEF IInv, TableFollowsVersion
  <2> HIDE DEF f
  <2> QED BY <2>1, <2>2, <2>3, <2>4, FramStep
<1> QED BY <1>1, <1>2

(* The files of the image.                                                 *)

LEMMA HelpersStep ==
  ASSUME IInv, WriteFramHelpers
  PROVE  IInv'
<1> DEFINE g == [image EXCEPT !.helpers = TRUE]
<1>1. At("helpers") /\ Image(g)
  BY DEF WriteFramHelpers
<1>2. /\ g \in ImageType /\ g.fragment = image.fragment
      /\ g.spi_mode = image.spi_mode
  BY <1>1 DEF IInv, Typed, ImageType
<1>3. "helpers" \in Steps
  BY DEF Steps
<1> HIDE DEF g
<1> QED BY <1>1, <1>2, <1>3, ImageAside

LEMMA S79Step ==
  ASSUME IInv, WriteS79
  PROVE  IInv'
<1> DEFINE g == [image EXCEPT !.s79 = TRUE]
<1>1. At("s79") /\ Image(g)
  BY DEF WriteS79
<1>2. /\ g \in ImageType /\ g.fragment = image.fragment
      /\ g.spi_mode = image.spi_mode
  BY <1>1 DEF IInv, Typed, ImageType
<1>3. "s79" \in Steps
  BY DEF Steps
<1> HIDE DEF g
<1> QED BY <1>1, <1>2, <1>3, ImageAside

LEMMA SyncVerifyStep ==
  ASSUME IInv, SyncVerify
  PROVE  IInv'
<1> DEFINE g == [image EXCEPT !.verifies = IF @ = 0 /\ image.lists > 0 THEN 1 ELSE @]
<1>1. At("sync_verify") /\ Image(g)
  BY DEF SyncVerify
<1>2. /\ g \in ImageType /\ g.fragment = image.fragment
      /\ g.spi_mode = image.spi_mode
  BY <1>1 DEF IInv, Typed, ImageType
<1>3. "sync_verify" \in Steps
  BY DEF Steps
<1> HIDE DEF g
<1> QED BY <1>1, <1>2, <1>3, ImageAside

LEMMA SyncListsStep ==
  ASSUME IInv, SyncLists
  PROVE  IInv'
<1> DEFINE lists == IF image.lists > 0 THEN image.lists ELSE image.lists + 1
           g == [image EXCEPT !.lists = lists, !.chmods = image.chmods + 1]
<1>1. At("sync_lists") /\ Image(g) /\ "sync_lists" \in Steps
  BY DEF SyncLists, Steps
<1>2. image \in ImageType /\ lists \in Nat /\ image.chmods + 1 \in Nat
  BY DEF IInv, Typed, ImageType
<1> HIDE DEF lists
<1>3. /\ g \in ImageType /\ g.fragment = image.fragment
      /\ g.spi_mode = image.spi_mode
  BY <1>2 DEF ImageType
<1> HIDE DEF g
<1> QED BY <1>1, <1>3, ImageAside

LEMMA ChmodStep ==
  ASSUME IInv, ChmodOverlay
  PROVE  IInv'
<1> DEFINE g == image
<1>1. CASE Abort
  BY <1>1, AbortStep
<1>2. CASE ~Abort
  <2>1. At("chmod") /\ Image(image)
    BY <1>2 DEF ChmodOverlay, Must
  <2>2. /\ image \in ImageType /\ image.fragment = image.fragment
          /\ image.spi_mode = image.spi_mode
    BY <2>1 DEF IInv, Typed, ImageType
  <2>3. "chmod" \in Steps
    BY DEF Steps
  <2> HIDE DEF g
  <2> QED BY <2>1, <2>2, <2>3, ImageAside
<1> QED BY <1>1, <1>2

LEMMA MakefileStep ==
  ASSUME IInv, PatchMakefile
  PROVE  IInv'
<1> DEFINE g == [image EXCEPT !.installs = TRUE, !.spi_mode = "split",
                              !.fragment = @ + 1]
<1>1. At("makefile") /\ "makefile" \in Steps /\ image \in ImageType
  BY DEF PatchMakefile, Steps, IInv, Typed
<1>2. CASE Image(image)
  BY <1>1, <1>2, ImageAside
<1>3. CASE Abort
  BY <1>3, AbortStep
<1>4. CASE image.spi_mode = "echo" /\ Image(g)
  <2>1. image.fragment = 0
    BY <1>4 DEF IInv, Typed, ImageType, FragmentTakesAnchor
  <2>2. g = [image EXCEPT !.installs = TRUE, !.spi_mode = "split", !.fragment = 1]
    BY <2>1
  <2>3. g \in ImageType /\ g.spi_mode = "split"
    BY <2>2 DEF IInv, Typed, ImageType
  <2> HIDE DEF g
  <2> QED BY <1>1, <1>4, <2>3, ImageStep
<1> QED BY <1>2, <1>3, <1>4 DEF PatchMakefile, Must

LEMMA MakefileBitsStep ==
  ASSUME IInv, FixMakefile
  PROVE  IInv'
<1> DEFINE insert == image.fragment = 0 /\ image.spi_mode = "echo_e"
           g == [image EXCEPT !.fragment = IF insert THEN 1 ELSE @,
                              !.spi_mode = IF insert THEN "split" ELSE @,
                              !.installs = TRUE]
<1>1. At("makefile_bits") /\ "makefile_bits" \in Steps /\ Image(g)
  BY DEF FixMakefile, Steps
<1>2. g \in ImageType
  BY DEF IInv, Typed, ImageType
<1>3. g.fragment = 1 => g.spi_mode = "split"
  BY DEF IInv, Typed, ImageType, FragmentTakesAnchor
<1> HIDE DEF insert, g
<1> QED BY <1>1, <1>2, <1>3, ImageStep
-----------------------------------------------------------------------------
LEMMA InitIInv ==
  ASSUME EditsInit
  PROVE  IInv
<1>1. /\ edits = <<>> /\ mram.errors = Clean /\ mram.windows \in {0, 1}
      /\ mram \in MramType /\ mram.subsystem = "whole"
  BY DEF EditsInit, MramType, Clean
<1>2. /\ fram \in FramType /\ fram.table \notin {"v4"} /\ fram.version # 4
      /\ fram.table = "v3" => fram.header /\ fram.version = 3
  BY DEF EditsInit, FramType
<1>3. image \in ImageType /\ image.fragment = 0
  BY DEF EditsInit, ImageType
<1>4. edits \in Seq(Steps) /\ InOrder /\ \A step : ~At(step)
  <2>1. edits \in Seq(Steps)
    BY <1>1, EmptySeq, Zenon
  <2>2. Len(edits) = 0
    BY <1>1, <2>1, EmptySeq, Zenon
  <2> QED BY <1>1, <2>1, <2>2 DEF InOrder, At
<1> QED
  BY <1>1, <1>2, <1>3, <1>4
     DEF IInv, Typed, EnumFollowsWindow, SubsystemFollowsMount,
         WindowedMountsPayload, FragmentTakesAnchor, TableFollowsVersion

LEMMA UnchangedStep ==
  ASSUME IInv, UNCHANGED editsVars
  PROVE  IInv'
BY DEF IInv, editsVars, Typed, InOrder, At, EnumFollowsWindow, SubsystemFollowsMount,
       WindowedMountsPayload, FragmentTakesAnchor, TableFollowsVersion

LEMMA NextIInv ==
  ASSUME IInv, [EditsNext]_editsVars
  PROVE  IInv'
<1>1. CASE StartEdits \/ UNCHANGED editsVars
  BY <1>1, StartStep, UnchangedStep
<1>2. CASE \/ PatchMramBackendWindow \/ AddInvalidConfig \/ WriteEnvMod
          \/ PatchFsCapacity \/ RewriteSubsystem \/ PatchSchema \/ PatchConfig
          \/ WriteSyncBin \/ FixTests \/ Dedup \/ FixBlockCount
          \/ FixBackendEnum \/ FixGraphqlCap \/ InsertTestKeys
  BY <1>2, WindowStep, ErrorsStep, RegionStep, FsCapacityStep, SubsystemStep,
     SchemaStep, ConfigStep, BinsStep, TestsStep, DedupStep, BlocksStep,
     BackendEnumStep, GraphqlStep, TestsAgainStep
<1>3. CASE \/ PatchFramLayout \/ PatchFramModel \/ PatchFramSchemaMirrorDefault
          \/ PatchFramSubsystem \/ PatchFramEnv \/ FixFramTest \/ FixI2cDefault
          \/ LayoutRsV4 \/ ModelRsV4 \/ ModelRsV5
  BY <1>3, LayoutStep, ModelStep, MirrorStep, FramSubsystemStep, FramEnvStep,
     FramTestStep, I2cStep, LayoutV4Step, ModelV4Step, ModelV5Step
<1>4. CASE \/ WriteFramHelpers \/ WriteS79 \/ PatchMakefile \/ FixMakefile
          \/ ChmodOverlay \/ SyncLists \/ SyncVerify
  BY <1>4, HelpersStep, S79Step, MakefileStep, MakefileBitsStep, ChmodStep,
     SyncListsStep, SyncVerifyStep
<1>5. CASE FinishEdits \/ KillEdits
  BY <1>5, EndStep, AbortStep DEF FinishEdits, KillEdits, StopEdits
<1> QED BY <1>1, <1>2, <1>3, <1>4, <1>5 DEF EditsNext

(* Every step finds what the one before it in its script has made, however *)
(* the scripts were interrupted, and no mark is ever taken back.           *)
THEOREM SpecInvariant == EditsSpec => []IInv
<1>1. EditsInit => IInv
  BY InitIInv
<1>2. IInv /\ [EditsNext]_editsVars => IInv'
  BY NextIInv
<1> QED BY <1>1, <1>2, PTL DEF EditsSpec
-----------------------------------------------------------------------------
(* Two variants other than "io" are those of the doubled enum.             *)
LEMMA CleanHasOne == Cardinality({i \in DOMAIN Clean : Clean[i] # "io"}) = 1
<1>1. DOMAIN Clean = 1 .. 2
  BY DEF Clean
<1>2. ASSUME NEW i \in 1 .. 2
      PROVE  Clean[i] # "io" <=> i = 2
  <2>1. i = 1 \/ i = 2
    OBVIOUS
  <2> QED BY <2>1 DEF Clean
<1>3. {i \in DOMAIN Clean : Clean[i] # "io"} = {2}
  BY <1>1, <1>2
<1> QED BY <1>3, FS_Singleton

LEMMA EnumRepairable ==
  ASSUME IInv
  PROVE  DuplicateIsRepairable
<1>1. CASE mram.errors = Clean
  BY <1>1, CleanHasOne DEF DuplicateIsRepairable
<1>2. CASE mram.errors = Doubled
  BY <1>2 DEF DuplicateIsRepairable, Doubled
<1> QED BY <1>1, <1>2 DEF IInv, Typed, MramType

(* Whatever runs of apply-mram-fram-plan2.py and of the repairs are cut or *)
(* repeated, InvalidConfig is declared once, or twice in the one form that *)
(* fix-backend-enum.py recognises.                                         *)
THEOREM DuplicatesRepairable == EditsSpec => []DuplicateIsRepairable
<1>1. IInv => DuplicateIsRepairable
  BY EnumRepairable
<1> QED BY <1>1, SpecInvariant, PTL

(* apply-mram-env-region.py gives littlefs the window only after the mount *)
(* and the region: no cut leaves the new subsystem on a whole-device mount.*)
THEOREM WindowMounts == EditsSpec => []WindowedMountsPayload
<1>1. IInv => WindowedMountsPayload
  BY DEF IInv, SubsystemFollowsMount
<1> QED BY <1>1, SpecInvariant, PTL

(* The two scripts that write env_offset into the service's configuration  *)
(* declare it once between them, in every order.                           *)
THEOREM KeysOnce == EditsSpec => []EnvKeysOnce
<1>1. IInv => EnvKeysOnce
  BY DEF IInv, Typed, MramType, ImageType, EnvKeysOnce
<1> QED BY <1>1, SpecInvariant, PTL

(* apply-fram-layout-v4.py writes layout.rs first, and no script takes the *)
(* version back: the key ids of v4 are never stamped with another version. *)
THEOREM TableStamped == EditsSpec => []TableHasItsVersion
<1>1. IInv => TableHasItsVersion
  BY DEF IInv, TableFollowsVersion, TableHasItsVersion
<1> QED BY <1>1, SpecInvariant, PTL
=============================================================================

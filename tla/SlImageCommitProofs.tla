------------------------ MODULE SlImageCommitProofs ------------------------
(***************************************************************************)
(* Proofs about SlImageCommit, for every set of versions and every length  *)
(* of an update: if the accesses to the boot info file do not fail and the *)
(* host reports its self test before it runs an update, then whatever the  *)
(* moment of a reset                                                       *)
(*   - the active image is one that approved itself,                       *)
(*   - an unapproved image runs only under test,                           *)
(*   - downloads never replace the active image, and                       *)
(*   - the boot loader always finds an image.                              *)
(***************************************************************************)
EXTENDS SlImageCommit, TLAPS

\* The assumptions on the flash and on the host.
Reliable == Faults = {} /\ CommitsFirst

\* Until the boot loader has written a boot info file nothing else has run.
FirstBoot ==
  /\ bootInfo # EmptyInfo
  /\ bootInfo = NoInfo => /\ pc \in {"reset", "halt"}
                          /\ \A s \in Slots : img[s] \in {Factory, None}
  /\ pc = "halt" => \A s \in Slots : img[s] = None
  /\ pc = "halt" => bootInfo = NoInfo

\* The active image has approved itself.
Approved == Factory \in approved /\ ActiveIsApproved

\* The image a test is about, or will be about, exists.
TestExists ==
  bootInfo.status \in {"TESTREADY", "TESTING"} \/ isMCUAppUpdate
    => img[TestImage(bootInfo.active)] # None

\* What the boot loader has in its hands agrees with the file.
LoaderAgrees ==
  /\ pc \in {"loader", "execute"} => loader = bootInfo
  /\ pc = "execute" =>
       /\ bootInfo.status # "TESTREADY"
       /\ slot = IF bootInfo.status = "TESTING" THEN TestImage(bootInfo.active)
                                                ELSE bootInfo.active

\* The running image and the file agree on whether there is a test.
AppAgrees ==
  pc = "app" =>
    /\ running # None
    /\ bootInfo.status # "TESTREADY"
    /\ bootInfo.status = "TESTING" => /\ slot = TestImage(bootInfo.active)
                                      /\ img[slot] = running
    /\ bootInfo.status = "NOTEST" => running \in approved

\* Once the self test is reported no test is on, and the library's copy of the
\* boot info is the file; an update runs only then.
SessionAfterStart ==
  /\ started => pc = "app" /\ sBootInfo = bootInfo /\ bootInfo.status = "NOTEST"
  /\ state # "IDLE" \/ mirror # NoMirror \/ isMCUAppUpdate => started

\* An open image file is the alternate one.
MirrorIsAlternate ==
  /\ mirror # NoMirror => mirror.slot = TestImage(bootInfo.active) /\ mirror.ver \in Versions
  /\ state \in {"METADATA", "CONNECT_CDN", "DOWNLOADING"} => file \in Files
  /\ state = "DOWNLOADING" /\ file.ver # Other => mirror # NoMirror

\* A test that is to start, or starts, was requested.
TestRequested ==
  /\ bootInfo.status = "TESTREADY" => requested
  /\ pc = "execute" /\ bootInfo.status = "TESTING" => requested

IInv ==
  /\ Reliable /\ TypeOK
  /\ FirstBoot /\ Approved /\ TestExists /\ LoaderAgrees /\ AppAgrees
  /\ SessionAfterStart /\ MirrorIsAlternate /\ TestRequested

USE DEF IMG_ACT_FACTORY, IMG_ACT_USER1, IMG_ACT_USER2, Slots, NoInfo, EmptyInfo, ZeroInfo,
        NoMirror, TestImage

-----------------------------------------------------------------------------
\* CreateDefaultBootInfo finds an image if there is one.
LEMMA DefaultImageExists ==
  ASSUME \E s \in Slots : img[s] # None
  PROVE  DefaultImage \in Slots /\ img[DefaultImage] # None
<1>1. \E s \in Slots : img[s] # None /\ \A q \in Slots : img[q] # None => s <= q
  OBVIOUS
<1> QED BY <1>1 DEF DefaultImage

\* A reset re-establishes the types of everything that is in memory.
LEMMA RestartTypes ==
  ASSUME TypeOK, Restart, bootInfo' \in BootInfo \cup {NoInfo, EmptyInfo}, img' = img,
         approved' = approved, requested' \in BOOLEAN
  PROVE  TypeOK'
<1>1. mirror' \in [slot : Slots, ver : Versions \cup {None}]
  BY DEF Restart
<1>2. filesLeft' \in 0..MaxFiles
  BY ImageAssumption DEF Restart
<1> QED BY <1>1, <1>2 DEF TypeOK, Restart

\* ... and the parts of the invariant that speak of a running image hold.
LEMMA RestartInv ==
  ASSUME Restart
  PROVE  LoaderAgrees' /\ AppAgrees' /\ SessionAfterStart' /\ MirrorIsAlternate'
BY DEF Restart, LoaderAgrees, AppAgrees, SessionAfterStart, MirrorIsAlternate

\* Without faults an access to the boot info file succeeds.
LEMMA NoFault ==
  ASSUME Reliable
  PROVE  Outcomes("read") = {TRUE} /\ Outcomes("write") = {TRUE} /\ "open" \notin Faults
BY DEF Reliable, Outcomes

\* Once there is a boot info file, a write that succeeds reaches it.
LEMMA WriteReaches ==
  ASSUME IInv, pc \notin {"reset", "halt"}
  PROVE  \A info : WriteInfo(TRUE, info) = info
<1>1. bootInfo # NoInfo
  BY DEF IInv, FirstBoot
<1> QED BY <1>1 DEF WriteInfo

\* Initially the invariant holds.
LEMMA InitIInv == ASSUME Reliable, Init PROVE IInv
<1>1. PICK flashed \in SUBSET Slots :
        img = [s \in Slots |-> IF s \in flashed THEN Factory ELSE None]
  BY DEF Init
<1>2. TypeOK
  <2>1. img \in [Slots -> Versions \cup {None}] /\ filesLeft \in 0..MaxFiles
    BY <1>1, ImageAssumption DEF Init
  <2>2. mirror \in [slot : Slots, ver : Versions \cup {None}]
    BY DEF Init
  <2> QED BY <2>1, <2>2, ImageAssumption DEF Init, TypeOK
<1>3. FirstBoot /\ Approved /\ TestExists /\ LoaderAgrees
  BY <1>1, ImageAssumption DEF Init, FirstBoot, Approved, ActiveIsApproved, BootInfo, Statuses,
     TestExists, LoaderAgrees
<1>4. AppAgrees /\ SessionAfterStart /\ MirrorIsAlternate /\ TestRequested
  BY DEF Init, AppAgrees, SessionAfterStart, MirrorIsAlternate, TestRequested
<1> QED BY <1>2, <1>3, <1>4 DEF IInv

-----------------------------------------------------------------------------
\* The boot loader.

\* main reads the boot info file: the copy agrees with the flash.
LEMMA BootInfoReadStep == ASSUME IInv, BootInfoRead PROVE IInv'
<1>1. loader' = bootInfo /\ bootInfo \in BootInfo /\ pc' = "loader" /\ pc = "reset"
  <2>1. Outcomes("read") = {TRUE}
    BY NoFault DEF IInv
  <2> QED BY <2>1 DEF BootInfoRead, IInv, FirstBoot, TypeOK
<1>2. UNCHANGED <<bootInfo, img, mirror, slot, running, sBootInfo, state, resetMcu,
                  isMCUAppUpdate, filesLeft, file, started, approved, requested>>
  BY DEF BootInfoRead, ota, hist
<1>3. TypeOK'
  BY <1>1, <1>2 DEF IInv, TypeOK
<1>4. FirstBoot' /\ Approved' /\ TestExists' /\ TestRequested'
  BY <1>1, <1>2 DEF IInv, FirstBoot, Approved, ActiveIsApproved, TestExists, TestRequested,
     BootInfo, Statuses
<1>5. LoaderAgrees' /\ AppAgrees' /\ SessionAfterStart' /\ MirrorIsAlternate'
  BY <1>1, <1>2 DEF IInv, LoaderAgrees, AppAgrees, SessionAfterStart, MirrorIsAlternate
<1> QED BY <1>3, <1>4, <1>5 DEF IInv, Reliable

\* main creates the boot info file: the image it chooses is the one shipped.
LEMMA BootInfoCreateStep == ASSUME IInv, BootInfoCreate PROVE IInv'
<1> DEFINE default == [active |-> DefaultImage, status |-> "NOTEST"]
<1>1. bootInfo = NoInfo /\ pc = "reset" /\ ~started
  BY DEF BootInfoCreate, IInv, Reliable, SessionAfterStart
<1>2. UNCHANGED <<img, mirror, slot, running, sBootInfo, state, resetMcu,
                  isMCUAppUpdate, filesLeft, file, started, approved, requested>>
  BY DEF BootInfoCreate, ota, hist
<1>3. CASE \A s \in Slots : img[s] = None
  <2>1. pc' = "halt" /\ UNCHANGED <<loader, bootInfo>>
    BY <1>3 DEF BootInfoCreate
  <2>2. TypeOK'
    BY <1>2, <2>1 DEF IInv, TypeOK
  <2>3. FirstBoot' /\ Approved' /\ TestExists' /\ TestRequested'
    BY <1>1, <1>2, <1>3, <2>1 DEF IInv, FirstBoot, Approved, ActiveIsApproved, TestExists,
       TestRequested, BootInfo, Statuses
  <2>4. LoaderAgrees' /\ AppAgrees' /\ SessionAfterStart' /\ MirrorIsAlternate'
    BY <1>1, <1>2, <2>1 DEF IInv, LoaderAgrees, AppAgrees, SessionAfterStart, MirrorIsAlternate
  <2> QED BY <2>2, <2>3, <2>4 DEF IInv, Reliable
<1>4. CASE \E s \in Slots : img[s] # None
  <2>1. pc' = "loader" /\ loader' = default /\ bootInfo' = default
    <3>1. Outcomes("write") = {TRUE}
      BY NoFault DEF IInv
    <3> QED BY <1>4, <3>1 DEF BootInfoCreate
  <2>2. DefaultImage \in Slots /\ img[DefaultImage] = Factory
    BY <1>1, <1>4, DefaultImageExists DEF IInv, FirstBoot
  <2>3. default \in BootInfo /\ default.active = DefaultImage /\ default.status = "NOTEST"
    BY <2>2 DEF BootInfo, Statuses
  <2> HIDE DEF default
  <2>4. TypeOK'
    BY <1>2, <2>1, <2>3 DEF IInv, TypeOK
  <2>5. FirstBoot' /\ Approved' /\ TestExists' /\ TestRequested'
    BY <1>1, <1>2, <2>1, <2>2, <2>3 DEF IInv, FirstBoot, Approved, ActiveIsApproved, TestExists,
       TestRequested, SessionAfterStart, BootInfo, Statuses
  <2>6. LoaderAgrees' /\ AppAgrees' /\ SessionAfterStart' /\ MirrorIsAlternate'
    BY <1>1, <1>2, <2>1 DEF IInv, LoaderAgrees, AppAgrees, SessionAfterStart, MirrorIsAlternate
  <2> QED BY <2>4, <2>5, <2>6 DEF IInv, Reliable
<1> QED BY <1>3, <1>4

\* ImageLoader writes the next status before it starts an image.
LEMMA ImageLoaderStep == ASSUME IInv, ImageLoader PROVE IInv'
<1>1. pc = "loader" /\ pc' = "execute" /\ ~started /\ loader = bootInfo /\ bootInfo \in BootInfo
  BY DEF ImageLoader, IInv, SessionAfterStart, LoaderAgrees, FirstBoot, TypeOK
<1>2. UNCHANGED <<img, mirror, running, sBootInfo, state, resetMcu, isMCUAppUpdate,
                  filesLeft, file, started, approved>>
  BY DEF ImageLoader, ota
<1>3. loader' = [active |-> bootInfo.active, status |-> NextStatus(bootInfo.status)]
  BY <1>1 DEF ImageLoader, BootInfo
<1>4. bootInfo' = loader'
  <2>1. CASE bootInfo.status = "NOTEST"
    BY <1>1, <1>3, <2>1 DEF ImageLoader, NextStatus, BootInfo
  <2>2. CASE bootInfo.status # "NOTEST"
    <3>1. Outcomes("write") = {TRUE}
      BY NoFault DEF IInv
    <3> QED BY <1>1, <2>2, <3>1, WriteReaches DEF ImageLoader
  <2> QED BY <2>1, <2>2
<1>5. loader'.active = bootInfo.active /\ loader'.status = NextStatus(bootInfo.status)
  BY <1>3
<1>6. NextStatus(bootInfo.status) \in Statuses \ {"TESTREADY"} /\ bootInfo.active \in Slots
  BY <1>1 DEF NextStatus, BootInfo, Statuses
<1>7. loader' \in BootInfo
  BY <1>3, <1>6 DEF BootInfo
<1>8. /\ NextStatus(bootInfo.status) = "TESTING" <=> bootInfo.status = "TESTREADY"
      /\ slot' = IF bootInfo.status = "TESTREADY" THEN TestImage(bootInfo.active)
                                                 ELSE bootInfo.active
      /\ requested' = (requested /\ bootInfo.status # "TESTING")
  BY <1>1 DEF ImageLoader, NextStatus, BootInfo, Statuses
<1>9. TypeOK'
  BY <1>1, <1>2, <1>4, <1>6, <1>7, <1>8 DEF IInv, TypeOK
<1>10. FirstBoot' /\ Approved'
  BY <1>1, <1>2, <1>4, <1>5, <1>6, <1>7 DEF IInv, FirstBoot, Approved, ActiveIsApproved, Statuses
<1>11. TestExists' /\ TestRequested'
  BY <1>1, <1>2, <1>4, <1>5, <1>6, <1>8 DEF IInv, TestExists, TestRequested, Statuses
<1>12. LoaderAgrees' /\ AppAgrees' /\ SessionAfterStart' /\ MirrorIsAlternate'
  BY <1>1, <1>2, <1>4, <1>5, <1>6, <1>8
  DEF IInv, LoaderAgrees, AppAgrees, SessionAfterStart, MirrorIsAlternate, Statuses
<1> QED BY <1>9, <1>10, <1>11, <1>12 DEF IInv, Reliable

\* LoadAndExecute starts the image that ImageLoader has chosen.
LEMMA LoadAndExecuteStep == ASSUME IInv, LoadAndExecute PROVE IInv'
<1>1. UNCHANGED <<bootInfo, img, mirror, loader, slot, sBootInfo, state, resetMcu,
                  isMCUAppUpdate, filesLeft, file, started, approved>>
  BY DEF LoadAndExecute, flash, ota
<1>2. pc = "execute" /\ ~started /\ loader = bootInfo /\ bootInfo \in BootInfo
  BY DEF LoadAndExecute, IInv, SessionAfterStart, LoaderAgrees, FirstBoot, TypeOK
<1>3. img[slot] # None
  BY <1>2, ImageAssumption DEF IInv, LoaderAgrees, TestExists, Approved, ActiveIsApproved, TypeOK
<1>4. pc' = "app" /\ running' = img[slot]
  BY <1>3 DEF LoadAndExecute
<1>5. TypeOK'
  BY <1>1, <1>4 DEF IInv, TypeOK, LoadAndExecute
<1>6. FirstBoot' /\ Approved' /\ TestExists' /\ TestRequested'
  BY <1>1, <1>2, <1>4 DEF IInv, FirstBoot, Approved, ActiveIsApproved, TestExists, TestRequested,
     LoaderAgrees, BootInfo, Statuses
<1>7. LoaderAgrees' /\ AppAgrees' /\ SessionAfterStart' /\ MirrorIsAlternate'
  BY <1>1, <1>2, <1>3, <1>4 DEF IInv, LoaderAgrees, AppAgrees, SessionAfterStart,
     MirrorIsAlternate, Approved, ActiveIsApproved
<1> QED BY <1>5, <1>6, <1>7 DEF IInv, Reliable

\* A reset loses only what is not in the flash.
LEMMA ResetStep == ASSUME IInv, Reset PROVE IInv'
<1>1. Restart /\ UNCHANGED <<bootInfo, img, approved, requested>>
  BY DEF Reset, hist
<1>2. TypeOK'
  BY <1>1, RestartTypes DEF IInv, TypeOK
<1>3. FirstBoot' /\ Approved' /\ TestExists' /\ TestRequested'
  BY <1>1 DEF Restart, IInv, FirstBoot, Approved, ActiveIsApproved, TestExists, TestRequested
<1> QED BY <1>1, <1>2, <1>3, RestartInv DEF IInv, Reliable

-----------------------------------------------------------------------------
\* The calls of the host.

\* While an application runs, a read of the boot info file gives the file.
LEMMA ReadGivesFile ==
  ASSUME IInv, pc = "app"
  PROVE  bootInfo \in BootInfo /\ ReadInfo(TRUE) = bootInfo
BY DEF IInv, FirstBoot, TypeOK, ReadInfo

\* sl_extlib_FlcCommit makes the image that runs under test the active one.
LEMMA OtaSetCommitStep == ASSUME IInv, OtaSetCommit PROVE IInv'
<1> DEFINE committed == [active |-> CommitImage(bootInfo.active), status |-> "NOTEST"]
<1>1. /\ pc = "app" /\ started' = TRUE /\ approved' = approved \cup {running}
      /\ state' = "IDLE" /\ resetMcu' = FALSE /\ isMCUAppUpdate' = FALSE
      /\ UNCHANGED <<img, mirror, pc, loader, slot, running, filesLeft, file, requested>>
  BY DEF OtaSetCommit, OtaCleanToIdle, boot
<1>2. bootInfo \in BootInfo /\ ReadInfo(TRUE) = bootInfo
  BY <1>1, ReadGivesFile
<1>3. sBootInfo' = bootInfo' /\ bootInfo' = IF bootInfo.status = "TESTING" THEN committed ELSE bootInfo
  <2>1. Outcomes("read") = {TRUE} /\ Outcomes("write") = {TRUE}
    BY NoFault DEF IInv
  <2> QED BY <1>1, <1>2, <2>1, WriteReaches DEF OtaSetCommit
<1>4. running \in Versions
  BY <1>1 DEF IInv, AppAgrees, TypeOK
<1>5. CASE bootInfo.status = "TESTING"
  <2>1. /\ committed.active = TestImage(bootInfo.active) /\ committed.active \in Slots
        /\ committed.status = "NOTEST" /\ committed \in BootInfo
    BY <1>2 DEF CommitImage, BootInfo, Statuses
  <2>2. img[committed.active] = running /\ ~started /\ mirror = NoMirror /\ state = "IDLE"
    BY <1>1, <1>5, <2>1 DEF IInv, AppAgrees, SessionAfterStart
  <2>3. bootInfo' = committed /\ sBootInfo' = committed
    BY <1>3, <1>5
  <2> HIDE DEF committed
  <2>4. TypeOK'
    BY <1>1, <1>4, <2>1, <2>3 DEF IInv, TypeOK
  <2>5. FirstBoot' /\ Approved' /\ TestExists' /\ TestRequested'
    BY <1>1, <2>1, <2>2, <2>3 DEF IInv, FirstBoot, Approved, ActiveIsApproved, TestExists,
       TestRequested, BootInfo, Statuses
  <2>6. LoaderAgrees' /\ AppAgrees' /\ SessionAfterStart' /\ MirrorIsAlternate'
    BY <1>1, <2>1, <2>2, <2>3
    DEF IInv, LoaderAgrees, AppAgrees, SessionAfterStart, MirrorIsAlternate
  <2> QED BY <2>4, <2>5, <2>6 DEF IInv, Reliable
<1>6. CASE bootInfo.status # "TESTING"
  <2>1. bootInfo.status = "NOTEST" /\ bootInfo' = bootInfo /\ sBootInfo' = bootInfo
    BY <1>1, <1>2, <1>3, <1>6 DEF IInv, AppAgrees, BootInfo, Statuses
  <2>2. TypeOK'
    BY <1>1, <1>2, <1>4, <2>1 DEF IInv, TypeOK
  <2>3. FirstBoot' /\ Approved' /\ TestExists' /\ TestRequested'
    BY <1>1, <2>1 DEF IInv, FirstBoot, Approved, ActiveIsApproved, TestExists, TestRequested
  <2>4. LoaderAgrees' /\ AppAgrees' /\ SessionAfterStart' /\ MirrorIsAlternate'
    BY <1>1, <2>1 DEF IInv, LoaderAgrees, AppAgrees, SessionAfterStart, MirrorIsAlternate
  <2> QED BY <2>2, <2>3, <2>4 DEF IInv, Reliable
<1> QED BY <1>5, <1>6

\* A rejected image is left for the boot loader to replace.
LEMMA OtaSetRejectStep == ASSUME IInv, OtaSetReject PROVE IInv'
<1>1. pc = "app" /\ UNCHANGED <<bootInfo, img, approved, requested>>
  BY DEF OtaSetReject, hist
<1>2. bootInfo \in BootInfo /\ ReadInfo(TRUE) = bootInfo
  BY <1>1, ReadGivesFile
<1>3. IF bootInfo.status = "TESTING" THEN Restart
      ELSE sBootInfo' = bootInfo /\ started' = TRUE /\ OtaCleanToIdle /\ UNCHANGED <<mirror, boot>>
  <2>1. Outcomes("read") = {TRUE}
    BY NoFault DEF IInv
  <2> QED BY <1>2, <2>1 DEF OtaSetReject
<1>4. CASE bootInfo.status = "TESTING"
  <2>1. Reset
    BY <1>1, <1>3, <1>4 DEF Reset, hist
  <2> QED BY <2>1, ResetStep
<1>5. CASE bootInfo.status # "TESTING"
  <2>1. /\ bootInfo.status = "NOTEST" /\ sBootInfo' = bootInfo /\ started' = TRUE
        /\ state' = "IDLE" /\ resetMcu' = FALSE /\ isMCUAppUpdate' = FALSE
        /\ UNCHANGED <<mirror, pc, loader, slot, running, filesLeft, file>>
    BY <1>1, <1>2, <1>3, <1>5 DEF OtaCleanToIdle, boot, IInv, AppAgrees, BootInfo, Statuses
  <2>2. TypeOK'
    BY <1>1, <1>2, <2>1 DEF IInv, TypeOK
  <2>3. FirstBoot' /\ Approved' /\ TestExists' /\ TestRequested'
    BY <1>1, <2>1 DEF IInv, FirstBoot, Approved, ActiveIsApproved, TestExists, TestRequested
  <2>4. LoaderAgrees' /\ AppAgrees' /\ SessionAfterStart' /\ MirrorIsAlternate'
    BY <1>1, <2>1 DEF IInv, LoaderAgrees, AppAgrees, SessionAfterStart, MirrorIsAlternate
  <2> QED BY <2>2, <2>3, <2>4 DEF IInv, Reliable
<1> QED BY <1>4, <1>5

\* sl_extlib_FlcIsPendingCommit only refreshes the copy of the boot info.
LEMMA OtaGetPendingCommitStep == ASSUME IInv, OtaGetPendingCommit PROVE IInv'
<1>1. /\ pc = "app"
      /\ UNCHANGED <<bootInfo, img, mirror, pc, loader, slot, running, state, resetMcu,
                     isMCUAppUpdate, filesLeft, file, started, approved, requested>>
  BY DEF OtaGetPendingCommit, flash, boot, ota, hist
<1>2. bootInfo \in BootInfo /\ sBootInfo' = bootInfo
  <2>1. Outcomes("read") = {TRUE}
    BY NoFault DEF IInv
  <2> QED BY <1>1, <2>1, ReadGivesFile DEF OtaGetPendingCommit
<1>3. TypeOK'
  BY <1>1, <1>2 DEF IInv, TypeOK
<1>4. FirstBoot' /\ Approved' /\ TestExists' /\ TestRequested'
  BY <1>1 DEF IInv, FirstBoot, Approved, ActiveIsApproved, TestExists, TestRequested
<1>5. LoaderAgrees' /\ AppAgrees' /\ SessionAfterStart' /\ MirrorIsAlternate'
  BY <1>1, <1>2 DEF IInv, LoaderAgrees, AppAgrees, SessionAfterStart, MirrorIsAlternate
<1> QED BY <1>3, <1>4, <1>5 DEF IInv, Reliable

\* sl_extlib_FlcTest requests a test only after an image was downloaded.
LEMMA OtaSetTestStep == ASSUME IInv, OtaSetTest PROVE IInv'
<1>1. pc = "app" /\ state = "WAIT_CONFIRM" /\ UNCHANGED <<img, approved>>
  BY DEF OtaSetTest
<1>2. bootInfo \in BootInfo /\ ReadInfo(TRUE) = bootInfo
  BY <1>1, ReadGivesFile
<1>3. started /\ bootInfo.status = "NOTEST"
  BY <1>1 DEF IInv, SessionAfterStart
<1>4. CASE resetMcu /\ isMCUAppUpdate
  <2> DEFINE toTest == [active |-> bootInfo.active, status |-> "TESTREADY"]
  <2>1. Restart /\ bootInfo' = toTest /\ requested' = TRUE
    <3>1. Outcomes("read") = {TRUE} /\ Outcomes("write") = {TRUE}
      BY NoFault DEF IInv
    <3>2. [bootInfo EXCEPT !.status = "TESTREADY"] = toTest
      BY <1>2 DEF BootInfo
    <3> QED BY <1>1, <1>2, <1>4, <3>1, <3>2, WriteReaches DEF OtaSetTest
  <2>2. toTest \in BootInfo /\ toTest.active = bootInfo.active /\ toTest.status = "TESTREADY"
    BY <1>2 DEF BootInfo, Statuses
  <2> HIDE DEF toTest
  <2>3. TypeOK'
    BY <1>1, <2>1, <2>2, RestartTypes DEF IInv
  <2>4. FirstBoot' /\ Approved' /\ TestExists' /\ TestRequested'
    BY <1>1, <1>2, <1>4, <2>1, <2>2 DEF Restart, IInv, FirstBoot, Approved, ActiveIsApproved,
       TestExists, TestRequested
  <2> QED BY <2>1, <2>3, <2>4, RestartInv DEF IInv, Reliable
<1>5. CASE resetMcu /\ ~isMCUAppUpdate
  <2>1. Reset
    BY <1>1, <1>5 DEF OtaSetTest, Reset, hist
  <2> QED BY <2>1, ResetStep
<1>6. CASE ~resetMcu
  <2>1. /\ state' = "IDLE" /\ resetMcu' = FALSE /\ isMCUAppUpdate' = FALSE
        /\ UNCHANGED <<bootInfo, mirror, pc, loader, slot, running, sBootInfo, filesLeft, file,
                       started, requested>>
    BY <1>6 DEF OtaSetTest, OtaCleanToIdle, boot
  <2>2. TypeOK'
    BY <1>1, <1>2, <2>1 DEF IInv, TypeOK
  <2>3. FirstBoot' /\ Approved' /\ TestExists' /\ TestRequested'
    BY <1>1, <2>1 DEF IInv, FirstBoot, Approved, ActiveIsApproved, TestExists, TestRequested
  <2>4. LoaderAgrees' /\ AppAgrees' /\ SessionAfterStart' /\ MirrorIsAlternate'
    BY <1>1, <1>3, <2>1 DEF IInv, LoaderAgrees, AppAgrees, SessionAfterStart, MirrorIsAlternate
  <2> QED BY <2>2, <2>3, <2>4 DEF IInv, Reliable
<1> QED BY <1>4, <1>5, <1>6

-----------------------------------------------------------------------------
\* sl_extLib_OtaRun.

\* What every step of an update leaves alone, and when it is taken.
Session ==
  /\ pc = "app" /\ started
  /\ UNCHANGED <<bootInfo, pc, loader, slot, running, sBootInfo, started, approved, requested>>

\* A step of an update that leaves the image files alone keeps the invariant if
\* it keeps the types and what is known of the open file.
LEMMA SessionStep ==
  ASSUME IInv, Session, img' = img, isMCUAppUpdate' = isMCUAppUpdate,
         TypeOK', MirrorIsAlternate'
  PROVE  IInv'
<1>1. FirstBoot' /\ Approved' /\ TestExists' /\ TestRequested'
  BY DEF Session, IInv, FirstBoot, Approved, ActiveIsApproved, TestExists, TestRequested
<1>2. LoaderAgrees' /\ AppAgrees' /\ SessionAfterStart'
  BY DEF Session, IInv, LoaderAgrees, AppAgrees, SessionAfterStart
<1> QED BY <1>1, <1>2 DEF IInv, Reliable

\* The steps of sl_extLib_OtaRun that do not touch a file keep the invariant.
LEMMA ListSteps ==
  ASSUME IInv, ConnectServer \/ ConnectServerFails \/ UpdateCheck \/ EndOfUpdates
  PROVE  IInv'
<1>1. Session /\ UNCHANGED <<img, mirror, file>>
  BY DEF IInv, Reliable, Session, ConnectServer, ConnectServerFails, UpdateCheck, EndOfUpdates,
     OtaRunIn, OtaUnchanged, OtaCleanToIdle, boot, hist
<1>2. MirrorIsAlternate'
  BY <1>1 DEF Session, IInv, MirrorIsAlternate, ConnectServer, ConnectServerFails, UpdateCheck,
     EndOfUpdates, OtaCleanToIdle
<1>3. CASE ConnectServer \/ UpdateCheck \/ EndOfUpdates
  <2>1. TypeOK'
    BY <1>1, <1>3, ImageAssumption DEF Session, IInv, TypeOK, ConnectServer, UpdateCheck, EndOfUpdates
  <2> QED BY <1>1, <1>2, <1>3, <2>1, SessionStep DEF ConnectServer, UpdateCheck, EndOfUpdates
<1>4. CASE ConnectServerFails
  <2>1. state' = "IDLE" /\ resetMcu' = FALSE /\ isMCUAppUpdate' = FALSE /\ UNCHANGED filesLeft
    BY <1>4 DEF ConnectServerFails, OtaCleanToIdle
  <2>2. TypeOK'
    BY <1>1, <2>1 DEF Session, IInv, TypeOK
  <2>3. FirstBoot' /\ Approved' /\ TestExists' /\ TestRequested'
    BY <1>1, <2>1 DEF Session, IInv, FirstBoot, Approved, ActiveIsApproved, TestExists,
       TestRequested
  <2>4. LoaderAgrees' /\ AppAgrees' /\ SessionAfterStart'
    BY <1>1, <2>1 DEF Session, IInv, LoaderAgrees, AppAgrees, SessionAfterStart
  <2> QED BY <1>2, <2>2, <2>3, <2>4 DEF IInv, Reliable
<1> QED BY <1>3, <1>4

\* So do the steps for a file that is not opened or not finished.
LEMMA FileSteps ==
  ASSUME IInv, GetNextUpdate \/ ConnectCdn \/ OpenStorageFileFails
  PROVE  IInv'
<1>1. Session /\ UNCHANGED <<img, mirror, resetMcu, isMCUAppUpdate>>
  BY DEF IInv, Reliable, Session, GetNextUpdate, ConnectCdn, OpenStorageFileFails,
     OtaRunIn, OtaUnchanged, boot, hist
<1>2. MirrorIsAlternate'
  BY <1>1 DEF Session, IInv, MirrorIsAlternate, GetNextUpdate, ConnectCdn, OpenStorageFileFails, OtaRunIn
<1>3. TypeOK'
  BY <1>1, ImageAssumption DEF Session, IInv, TypeOK, GetNextUpdate, ConnectCdn, OpenStorageFileFails
<1> QED BY <1>1, <1>2, <1>3, SessionStep

\* The file that is opened for mcuimgA.bin is not the active image.
LEMMA OpenStorageFileStep == ASSUME IInv, OpenStorageFile PROVE IInv'
<1>1. /\ Session /\ state = "CONNECT_CDN" /\ state' = "DOWNLOADING"
      /\ UNCHANGED <<img, resetMcu, isMCUAppUpdate, filesLeft, file>>
  BY DEF IInv, Reliable, Session, OpenStorageFile, OtaRunIn, OtaUnchanged, boot, hist
<1>2. sBootInfo = bootInfo /\ bootInfo \in BootInfo /\ file \in Files
  BY <1>1, ReadGivesFile DEF Session, IInv, SessionAfterStart, MirrorIsAlternate
<1>3. McuImageGetNewIndex = TestImage(bootInfo.active)
  BY <1>2 DEF McuImageGetNewIndex
<1>4. CASE file.ver = Other
  <2>1. mirror' = mirror
    BY <1>4 DEF OpenStorageFile
  <2>2. TypeOK' /\ MirrorIsAlternate'
    BY <1>1, <1>2, <1>4, <2>1 DEF Session, IInv, TypeOK, MirrorIsAlternate
  <2> QED BY <1>1, <2>2, SessionStep
<1>5. CASE file.ver # Other
  <2>1. mirror' = [slot |-> TestImage(bootInfo.active), ver |-> file.ver] /\ file.ver \in Versions
    BY <1>2, <1>3, <1>5 DEF OpenStorageFile, Files
  <2>2. /\ mirror'.slot = TestImage(bootInfo.active) /\ mirror'.ver \in Versions
        /\ mirror' \in [slot : Slots, ver : Versions \cup {None}] /\ mirror' # NoMirror
    BY <2>1, ImageAssumption
  <2>3. TypeOK' /\ MirrorIsAlternate'
    BY <1>1, <1>2, <2>2 DEF Session, IInv, TypeOK, MirrorIsAlternate
  <2> QED BY <1>1, <2>3, SessionStep
<1> QED BY <1>4, <1>5

\* Saving a chunk and aborting a file leave the images as they are.
LEMMA DownloadStep == ASSUME IInv, SaveChunk \/ DownloadFails PROVE IInv'
<1>1. /\ Session /\ state = "DOWNLOADING" /\ resetMcu' = (resetMcu \/ file.reset)
      /\ UNCHANGED <<img, isMCUAppUpdate, filesLeft, file>>
  BY DEF IInv, Reliable, Session, SaveChunk, DownloadFails, OtaRunIn, OtaUnchanged, boot, hist
<1>2. resetMcu' \in BOOLEAN
  BY <1>1
<1>3. \/ mirror' = mirror /\ state' = state
      \/ mirror' = mirror /\ state' = "RESOURCE_LIST"
      \/ mirror' = NoMirror /\ state' = "RESOURCE_LIST"
  BY DEF SaveChunk, DownloadFails
<1>4. NoMirror \in [slot : Slots, ver : Versions \cup {None}]
  OBVIOUS
<1>5. TypeOK' /\ MirrorIsAlternate'
  BY <1>1, <1>2, <1>3, <1>4 DEF Session, IInv, TypeOK, MirrorIsAlternate
<1> QED BY <1>1, <1>5, SessionStep

\* A finished download replaces the image that is not active.
LEMMA DownloadDoneStep == ASSUME IInv, DownloadDone PROVE IInv'
<1>1. /\ Session /\ state = "DOWNLOADING" /\ resetMcu' = (resetMcu \/ file.reset)
      /\ state' = "RESOURCE_LIST" /\ UNCHANGED <<filesLeft, file>>
  BY DEF IInv, Reliable, Session, DownloadDone, OtaRunIn, boot, hist
<1>2. resetMcu' \in BOOLEAN
  BY <1>1
<1>3. CASE file.ver = Other
  <2>1. UNCHANGED <<img, mirror, isMCUAppUpdate>>
    BY <1>3 DEF DownloadDone
  <2>2. TypeOK' /\ MirrorIsAlternate'
    BY <1>1, <1>2, <2>1 DEF Session, IInv, TypeOK, MirrorIsAlternate
  <2> QED BY <1>1, <2>1, <2>2, SessionStep
<1>4. CASE file.ver # Other
  <2>1. /\ img' = [img EXCEPT ![mirror.slot] = mirror.ver] /\ mirror' = NoMirror
        /\ isMCUAppUpdate' = TRUE
    BY <1>4 DEF DownloadDone
  <2>2. mirror.slot = TestImage(bootInfo.active) /\ mirror.ver \in Versions
    BY <1>1, <1>4 DEF IInv, MirrorIsAlternate
  <2>3. bootInfo \in BootInfo /\ bootInfo.active \in Slots /\ bootInfo.status = "NOTEST"
    BY <1>1, ReadGivesFile DEF Session, IInv, SessionAfterStart, BootInfo
  <2>4. NoMirror \in [slot : Slots, ver : Versions \cup {None}]
    OBVIOUS
  <2>5. img' \in [Slots -> Versions \cup {None}] /\ img'[bootInfo.active] = img[bootInfo.active]
        /\ img'[TestImage(bootInfo.active)] \in Versions
    BY <2>1, <2>2, <2>3 DEF IInv, TypeOK
  <2>6. TypeOK'
    BY <1>1, <1>2, <2>1, <2>4, <2>5 DEF Session, IInv, TypeOK
  <2>7. FirstBoot' /\ Approved' /\ TestExists' /\ TestRequested'
    BY <1>1, <2>3, <2>5, ImageAssumption DEF Session, IInv, FirstBoot, Approved, ActiveIsApproved,
       TestExists, TestRequested
  <2>8. LoaderAgrees' /\ AppAgrees' /\ SessionAfterStart' /\ MirrorIsAlternate'
    BY <1>1, <2>1, <2>3
    DEF Session, IInv, LoaderAgrees, AppAgrees, SessionAfterStart, MirrorIsAlternate
  <2> QED BY <2>6, <2>7, <2>8 DEF IInv, Reliable
<1> QED BY <1>3, <1>4

-----------------------------------------------------------------------------
\* Every step keeps the invariant.
LEMMA NextIInv == ASSUME IInv, [Next]_vars PROVE IInv'
<1>1. CASE BootLoader
  BY <1>1, BootInfoReadStep, BootInfoCreateStep, ImageLoaderStep, LoadAndExecuteStep DEF BootLoader
<1>2. CASE Reset
  BY <1>2, ResetStep
<1>3. CASE Host
  BY <1>3, OtaSetCommitStep, OtaSetRejectStep, OtaGetPendingCommitStep, OtaSetTestStep DEF Host
<1>4. CASE OtaRun
  BY <1>4, ListSteps, FileSteps, OpenStorageFileStep, DownloadStep, DownloadDoneStep DEF OtaRun
<1>5. CASE UNCHANGED vars
  BY <1>5 DEF vars, IInv, Reliable, TypeOK, FirstBoot, Approved, ActiveIsApproved, TestExists,
     LoaderAgrees, AppAgrees, SessionAfterStart, MirrorIsAlternate, TestRequested
<1> QED BY <1>1, <1>2, <1>3, <1>4, <1>5 DEF Next

\* The inductive invariant holds throughout, whenever the power fails.
THEOREM Invariance == Reliable /\ Spec => []IInv
<1>1. Reliable /\ Init => IInv
  BY InitIInv
<1>2. IInv /\ [Next]_vars => IInv'
  BY NextIInv
<1> QED BY <1>1, <1>2, PTL DEF Spec

\* Types are kept by the boot loader, the host's calls and the update client.
THEOREM TypeCorrect == Reliable /\ Spec => []TypeOK
<1>1. IInv => TypeOK
  BY DEF IInv
<1> QED BY <1>1, Invariance, PTL

\* No update becomes permanent that has not run and approved itself: what
\* sl_extlib_FlcCommit makes active is what the boot loader started for the test.
THEOREM ActiveStaysApproved == Reliable /\ Spec => []ActiveIsApproved
<1>1. IInv => ActiveIsApproved
  BY DEF IInv, Approved
<1> QED BY <1>1, Invariance, PTL

\* An image that has not approved itself runs only while the boot info file
\* says TESTING, so that ImageLoader leaves it at the next reset.
THEOREM TestIsRecorded == Reliable /\ Spec => []UnapprovedOnlyUnderTest
<1>1. IInv => UnapprovedOnlyUnderTest
  BY DEF IInv, UnapprovedOnlyUnderTest, AppAgrees, FirstBoot, TypeOK, BootInfo, Statuses
<1> QED BY <1>1, Invariance, PTL

\* The status sl_extlib_FlcCommit reads is TESTING only in the image under test.
THEOREM TestingModeIsReal == Reliable /\ Spec => []BootedInTestingMode
<1>1. IInv => BootedInTestingMode
  BY DEF IInv, BootedInTestingMode, AppAgrees
<1> QED BY <1>1, Invariance, PTL

\* sl_extlib_FlcOpenFile never opens the active image for a download.
THEOREM ActiveNotOverwritten == Reliable /\ Spec => []DownloadsToAlternate
<1>1. IInv => DownloadsToAlternate
  BY DEF IInv, DownloadsToAlternate, MirrorIsAlternate
<1> QED BY <1>1, Invariance, PTL

\* ImageLoader and main never end in their infinite loops if an image was flashed.
THEOREM AlwaysBootable == Reliable /\ Spec => []Bootable
<1>1. IInv => Bootable
  BY DEF IInv, Bootable, FirstBoot
<1> QED BY <1>1, Invariance, PTL

\* ImageLoader starts the image under test once for each request.
THEOREM StartedOnce == Reliable /\ Spec => OneStartPerRequest
<1>1. IInv /\ [Next]_vars => [pc = "execute" /\ pc' = "app" /\ slot # loader.active => requested]_vars
  BY DEF IInv, LoaderAgrees, TestRequested
<1> QED BY <1>1, Invariance, PTL DEF Spec, OneStartPerRequest

=============================================================================

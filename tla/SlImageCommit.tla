--------------------------- MODULE SlImageCommit ---------------------------
(***************************************************************************)
(* Over-the-air update of the application image: the update client         *)
(* (OtaApp.c, CdnClient.c), the file commit library (flc.c) and the boot   *)
(* loader (application_bootloader/main.c).  They run one after the other,  *)
(* in different boots, and share only the serial flash: three image files  *)
(* and the boot info file, which names the active image and the state of   *)
(* an image test.  Power may fail between any two steps.                   *)
(***************************************************************************)
EXTENDS Integers

CONSTANTS
  Versions,     \* contents an image file can have
  Factory,      \* the version the device is shipped with
  Other,        \* stands for the contents of a file that is no MCU image
  None,
  MaxFiles,     \* bound: files of one update (MAX_RESOURCES is 16)
  Faults,       \* the accesses to the boot info file that may fail
  CommitsFirst  \* the host reports its self test before it runs an update

IMG_ACT_FACTORY == 0
IMG_ACT_USER1   == 1
IMG_ACT_USER2   == 2
Slots == {IMG_ACT_FACTORY, IMG_ACT_USER1, IMG_ACT_USER2}

ASSUME ImageAssumption ==
  /\ Factory \in Versions
  /\ Other \notin Versions /\ None \notin Versions /\ Other # None
  /\ MaxFiles \in Nat
  /\ Faults \subseteq {"open", "read", "write"}
  /\ CommitsFirst \in BOOLEAN

\* sBootInfo_t.  The boot info file may not exist, or be empty if the write
\* that follows its creation fails.  "zero" is the status of the commit
\* library's copy that was never read: none of the three IMG_STATUS_ values.
Statuses == {"NOTEST", "TESTREADY", "TESTING"}
BootInfo == [active : Slots, status : Statuses]
NoInfo   == [active |-> IMG_ACT_FACTORY, status |-> "nofile"]
EmptyInfo == [active |-> IMG_ACT_FACTORY, status |-> "empty"]
ZeroInfo == [active |-> IMG_ACT_FACTORY, status |-> "zero"]

\* A file the server offers: its contents and METADATA_FLAGS_RESET_MCU.
Files  == [ver : Versions \cup {Other}, reset : BOOLEAN]
NoFile == [ver |-> None, reset |-> FALSE]

VARIABLES
  bootInfo,   \* flash: IMG_BOOT_INFO
  img,        \* flash: the three image files
  mirror,     \* flash: the image file that is open, not yet committed by a close
  pc,         \* who has the processor
  loader,     \* sBootInfo of the boot loader
  slot,       \* the image the boot loader has chosen
  running,    \* the version in SRAM
  sBootInfo,  \* flc.c: copy of the boot info
  state, resetMcu, isMCUAppUpdate, filesLeft, file,  \* OtaApp_t, OtaClient_t
  started,    \* the application has reported its self test in this boot
  approved,   \* history: versions that reported a successful self test of their own
  requested   \* history: a test was requested and has not been started yet

flash == <<bootInfo, img, mirror>>
boot  == <<pc, loader, slot, running>>
ota   == <<state, resetMcu, isMCUAppUpdate, filesLeft, file>>
hist  == <<approved, requested>>
vars  == <<bootInfo, img, mirror, pc, loader, slot, running, sBootInfo, state,
           resetMcu, isMCUAppUpdate, filesLeft, file, started, approved, requested>>

NoMirror == [slot |-> IMG_ACT_FACTORY, ver |-> None]

\* A device as it leaves production: some of the image files are flashed, the
\* boot info file is not.
Init ==
  /\ \E flashed \in SUBSET Slots :
       img = [s \in Slots |-> IF s \in flashed THEN Factory ELSE None]
  /\ bootInfo = NoInfo /\ mirror = NoMirror
  /\ pc = "reset" /\ loader = ZeroInfo /\ slot = IMG_ACT_FACTORY /\ running = None
  /\ sBootInfo = ZeroInfo
  /\ state = "IDLE" /\ resetMcu = FALSE /\ isMCUAppUpdate = FALSE
  /\ filesLeft = 0 /\ file = NoFile
  /\ started = FALSE
  /\ approved = {Factory} /\ requested = FALSE

\* How an access to the boot info file can end.
Outcomes(access) == IF access \in Faults THEN BOOLEAN ELSE {TRUE}

\* BootInfoWrite, _WriteBootInfo: the file that a write of info leaves.  The
\* file is opened for writing, not created.
WriteInfo(ok, info) == IF ok /\ bootInfo # NoInfo THEN info ELSE bootInfo

\* A reset loses the memory.  The image file that is open keeps its old
\* contents: it was created with a mirror (_FS_FILE_OPEN_FLAG_COMMIT).
Restart ==
  /\ pc' = "reset" /\ loader' = ZeroInfo /\ slot' = IMG_ACT_FACTORY /\ running' = None
  /\ mirror' = NoMirror
  /\ sBootInfo' = ZeroInfo
  /\ state' = "IDLE" /\ resetMcu' = FALSE /\ isMCUAppUpdate' = FALSE
  /\ filesLeft' = 0 /\ file' = NoFile
  /\ started' = FALSE

-----------------------------------------------------------------------------
\* The boot loader.

\* CreateDefaultBootInfo: the first image file that exists.
DefaultImage == CHOOSE s \in Slots : img[s] # None /\ \A q \in Slots : img[q] # None => s <= q


\* Mutant: an active factory image is tested against the second user image.
TestImage_User2First(a) == IF a = IMG_ACT_USER2 THEN IMG_ACT_USER1 ELSE IMG_ACT_USER2

\* The image that is tested while a is active.
TestImage(a) == IF a = IMG_ACT_USER1 THEN IMG_ACT_USER2 ELSE IMG_ACT_USER1

\* main: the boot info file can be opened.  A failed read leaves the default
\* configuration of main in place.
BootInfoRead ==
  /\ pc = "reset" /\ bootInfo # NoInfo
  /\ \E ok \in Outcomes("read") :
       loader' = IF ok /\ bootInfo # EmptyInfo THEN bootInfo ELSE [active |-> IMG_ACT_FACTORY, status |-> "NOTEST"]
  /\ pc' = "loader"
  /\ UNCHANGED <<bootInfo, img, mirror, slot, running, sBootInfo, ota, started, hist>>

\* main: there is no boot info file, or it cannot be opened.  Without any image
\* the boot loader stops.  The file is left as it is if it cannot be created
\* either, and empty if it is created and cannot be written.
BootInfoCreate ==
  /\ pc = "reset" /\ (bootInfo = NoInfo \/ "open" \in Faults)
  /\ IF \A s \in Slots : img[s] = None
     THEN pc' = "halt" /\ UNCHANGED <<loader, bootInfo>>
     ELSE /\ pc' = "loader"
          /\ loader' = [active |-> DefaultImage, status |-> "NOTEST"]
          /\ \E ok \in Outcomes("write") :
               bootInfo' \in IF ok THEN {loader'} ELSE {bootInfo, EmptyInfo}
  /\ UNCHANGED <<img, mirror, slot, running, sBootInfo, ota, started, hist>>


\* Mutant: the status of a test that was interrupted is left as it is.
NextStatus_KeepsTesting(st) == IF st = "TESTREADY" THEN "TESTING" ELSE st

\* Mutant: the start of a test is not recorded.
NextStatus_KeepsTestReady(st) == IF st = "TESTING" THEN "NOTEST" ELSE st

\* The status ImageLoader writes: a test starts once and is over with the next boot.
NextStatus(st) == CASE st = "TESTREADY" -> "TESTING"
                    [] st = "TESTING"   -> "NOTEST"
                    [] OTHER            -> st

ImageLoader ==
  /\ pc = "loader"
  /\ slot' = IF loader.status = "TESTREADY" THEN TestImage(loader.active) ELSE loader.active
  /\ loader' = [loader EXCEPT !.status = NextStatus(loader.status)]
  /\ IF loader.status = "NOTEST"
     THEN UNCHANGED bootInfo
     ELSE \E ok \in Outcomes("write") : bootInfo' = WriteInfo(ok, loader')
  /\ requested' = (requested /\ loader.status # "TESTING")
  /\ pc' = "execute"
  /\ UNCHANGED <<img, mirror, running, sBootInfo, ota, started, approved>>

\* LoadAndExecute returns, and ImageLoader loops for ever, if the file is not there.
LoadAndExecute ==
  /\ pc = "execute"
  /\ running' = img[slot]
  /\ pc' = IF img[slot] = None THEN "halt" ELSE "app"
  /\ requested' = (requested /\ slot = loader.active)
  /\ UNCHANGED <<flash, loader, slot, sBootInfo, ota, started, approved>>

\* Power failure, watchdog, reset button.
Reset ==
  /\ Restart
  /\ UNCHANGED <<bootInfo, img, hist>>

-----------------------------------------------------------------------------
\* The file commit library.

\* What _ReadBootInfo leaves in sBootInfo; nobody looks at its result.
ReadInfo(ok) == IF ok /\ bootInfo \in BootInfo THEN bootInfo ELSE sBootInfo

\* The image that becomes active when a test of it is committed.
CommitImage(a) == IF a = IMG_ACT_USER1 THEN IMG_ACT_USER2 ELSE IMG_ACT_USER1

\* Mutant: always the first of the two.
McuImageGetNewIndex_User1 == IMG_ACT_USER1

\* The image file that mcuimgA.bin is written to.
McuImageGetNewIndex == IF sBootInfo.active = IMG_ACT_USER1 THEN IMG_ACT_USER2 ELSE IMG_ACT_USER1

OtaCleanToIdle ==
  /\ state' = "IDLE" /\ resetMcu' = FALSE /\ isMCUAppUpdate' = FALSE
  /\ UNCHANGED <<filesLeft, file>>


\* Mutant: the status is not looked at.
OtaSetCommit_AnyStatus ==
  /\ pc = "app"
  /\ LET committed == [active |-> CommitImage(bootInfo.active), status |-> "NOTEST"]
     IN sBootInfo' = committed /\ bootInfo' = committed
  /\ started' = TRUE
  /\ approved' = approved \cup {running}
  /\ OtaCleanToIdle
  /\ UNCHANGED <<img, mirror, boot, requested>>

\* OtaSet(IMAGE_COMMIT, OTA_ACTION_IMAGE_COMMITED), sl_extlib_FlcCommit(FLC_COMMITED)
OtaSetCommit ==
  /\ pc = "app"
  /\ \E readOk \in Outcomes("read"), writeOk \in Outcomes("write") :
       LET info == ReadInfo(readOk)
           committed == [active |-> CommitImage(info.active), status |-> "NOTEST"]
       IN IF info.status = "TESTING"
          THEN sBootInfo' = committed /\ bootInfo' = WriteInfo(writeOk, committed)
          ELSE sBootInfo' = info /\ UNCHANGED bootInfo
  /\ started' = TRUE
  /\ approved' = approved \cup {running}
  /\ OtaCleanToIdle
  /\ UNCHANGED <<img, mirror, boot, requested>>

\* OtaSet(IMAGE_COMMIT, OTA_ACTION_IMAGE_NOT_COMMITED): the host follows the
\* advice to reset the MCU that it gets while a test is on.
OtaSetReject ==
  /\ pc = "app"
  /\ \E readOk \in Outcomes("read") :
       IF ReadInfo(readOk).status = "TESTING"
       THEN Restart
       ELSE /\ sBootInfo' = ReadInfo(readOk)
            /\ started' = TRUE
            /\ OtaCleanToIdle
            /\ UNCHANGED <<mirror, boot>>
  /\ UNCHANGED <<bootInfo, img, hist>>

\* OtaGet(IS_PENDING_COMMIT)
OtaGetPendingCommit ==
  /\ pc = "app"
  /\ \E readOk \in Outcomes("read") : sBootInfo' = ReadInfo(readOk)
  /\ UNCHANGED <<flash, boot, ota, started, hist>>

\* OtaSet(IMAGE_TEST), sl_extlib_FlcTest, called when OtaRun has returned
\* RUN_STAT_DOWNLOAD_DONE.  The host follows the advice to reset the MCU.
OtaSetTest ==
  /\ pc = "app" /\ state = "WAIT_CONFIRM"
  /\ IF resetMcu /\ isMCUAppUpdate
     THEN \E readOk \in Outcomes("read"), writeOk \in Outcomes("write") :
            /\ bootInfo' = WriteInfo(writeOk, [ReadInfo(readOk) EXCEPT !.status = "TESTREADY"])
            /\ requested' = TRUE
     ELSE UNCHANGED <<bootInfo, requested>>
  /\ IF resetMcu THEN Restart
                 ELSE OtaCleanToIdle /\ UNCHANGED <<mirror, boot, sBootInfo, started>>
  /\ UNCHANGED <<img, approved>>

-----------------------------------------------------------------------------
\* sl_extLib_OtaRun, one action per state and result.

OtaRunIn(st) == pc = "app" /\ state = st /\ (CommitsFirst => started)

OtaUnchanged == UNCHANGED <<bootInfo, img, boot, sBootInfo, started, hist>>

\* OtaClient_ConnectServer, OtaClient_UpdateCheck
ConnectServer ==
  /\ OtaRunIn("IDLE")
  /\ state' = "CONNECT_SERVER"
  /\ UNCHANGED <<mirror, resetMcu, isMCUAppUpdate, filesLeft, file>> /\ OtaUnchanged

ConnectServerFails ==
  /\ \E st \in {"IDLE", "CONNECT_SERVER"} : OtaRunIn(st)
  /\ OtaCleanToIdle
  /\ UNCHANGED mirror /\ OtaUnchanged

UpdateCheck ==
  /\ OtaRunIn("CONNECT_SERVER")
  /\ state' = "RESOURCE_LIST"
  /\ filesLeft' \in 1..MaxFiles
  /\ UNCHANGED <<mirror, resetMcu, isMCUAppUpdate, file>> /\ OtaUnchanged

\* OtaClient_GetNextUpdate, OtaClient_ResourceMetadata: the file is skipped if
\* there is no metadata for it.
GetNextUpdate ==
  /\ OtaRunIn("RESOURCE_LIST") /\ filesLeft > 0
  /\ filesLeft' = filesLeft - 1
  /\ file' \in Files
  /\ state' \in {"METADATA", "RESOURCE_LIST"}
  /\ UNCHANGED <<mirror, resetMcu, isMCUAppUpdate>> /\ OtaUnchanged

EndOfUpdates ==
  /\ OtaRunIn("RESOURCE_LIST") /\ filesLeft = 0
  /\ state' = "WAIT_CONFIRM"
  /\ UNCHANGED <<mirror, resetMcu, isMCUAppUpdate, filesLeft, file>> /\ OtaUnchanged

\* CdnClient_ConnectByUrl
ConnectCdn ==
  /\ OtaRunIn("METADATA")
  /\ state' \in {"CONNECT_CDN", "RESOURCE_LIST"}
  /\ UNCHANGED <<mirror, resetMcu, isMCUAppUpdate, filesLeft, file>> /\ OtaUnchanged

\* CdnClient_Run opens the file; only an image file matters here.
OpenStorageFile ==
  /\ OtaRunIn("CONNECT_CDN")
  /\ state' = "DOWNLOADING"
  /\ mirror' = IF file.ver = Other THEN mirror
               ELSE [slot |-> McuImageGetNewIndex, ver |-> file.ver]
  /\ UNCHANGED <<resetMcu, isMCUAppUpdate, filesLeft, file>> /\ OtaUnchanged

OpenStorageFileFails ==
  /\ OtaRunIn("CONNECT_CDN")
  /\ state' = "RESOURCE_LIST"
  /\ UNCHANGED <<mirror, resetMcu, isMCUAppUpdate, filesLeft, file>> /\ OtaUnchanged

\* CdnClient_Run while more of the file is to come
SaveChunk ==
  /\ OtaRunIn("DOWNLOADING")
  /\ resetMcu' = (resetMcu \/ file.reset)
  /\ UNCHANGED <<mirror, state, isMCUAppUpdate, filesLeft, file>> /\ OtaUnchanged

\* CdnClient_Run closes the file, which replaces the old contents
DownloadDone ==
  /\ OtaRunIn("DOWNLOADING")
  /\ resetMcu' = (resetMcu \/ file.reset)
  /\ state' = "RESOURCE_LIST"
  /\ IF file.ver = Other
     THEN UNCHANGED <<img, mirror, isMCUAppUpdate>>
     ELSE /\ img' = [img EXCEPT ![mirror.slot] = mirror.ver]
          /\ mirror' = NoMirror
          /\ isMCUAppUpdate' = TRUE
  /\ UNCHANGED <<bootInfo, boot, sBootInfo, filesLeft, file, started, hist>>

\* CdnClient_Run aborts the file
DownloadFails ==
  /\ OtaRunIn("DOWNLOADING")
  /\ resetMcu' = (resetMcu \/ file.reset)
  /\ state' = "RESOURCE_LIST"
  /\ mirror' = IF file.ver = Other THEN mirror ELSE NoMirror
  /\ UNCHANGED <<isMCUAppUpdate, filesLeft, file>> /\ OtaUnchanged

OtaRun ==
  \/ ConnectServer \/ ConnectServerFails \/ UpdateCheck \/ GetNextUpdate \/ EndOfUpdates
  \/ ConnectCdn \/ OpenStorageFile \/ OpenStorageFileFails
  \/ SaveChunk \/ DownloadDone \/ DownloadFails

BootLoader == BootInfoRead \/ BootInfoCreate \/ ImageLoader \/ LoadAndExecute
Host == OtaSetCommit \/ OtaSetReject \/ OtaGetPendingCommit \/ OtaSetTest

Next == BootLoader \/ Reset \/ Host \/ OtaRun

Spec == Init /\ [][Next]_vars

\* Power lasts long enough, again and again, for the boot loader to do its two
\* steps; an image that was started reports the result of its self test.
FairSpec ==
  /\ Spec
  /\ SF_vars(BootInfoRead \/ BootInfoCreate) /\ SF_vars(ImageLoader)
  /\ WF_vars(LoadAndExecute)
  /\ WF_vars(OtaSetCommit \/ OtaSetReject)

-----------------------------------------------------------------------------
\* Types of the variables; the active image is one of three files.
TypeOK ==
  /\ bootInfo \in BootInfo \cup {NoInfo, EmptyInfo}
  /\ img \in [Slots -> Versions \cup {None}]
  /\ mirror \in [slot : Slots, ver : Versions \cup {None}]
  /\ pc \in {"reset", "loader", "execute", "app", "halt"}
  /\ loader \in BootInfo \cup {ZeroInfo}
  /\ slot \in Slots
  /\ running \in Versions \cup {None}
  /\ sBootInfo \in BootInfo \cup {ZeroInfo}
  /\ state \in {"IDLE", "CONNECT_SERVER", "RESOURCE_LIST", "METADATA", "CONNECT_CDN",
                "DOWNLOADING", "WAIT_CONFIRM"}
  /\ resetMcu \in BOOLEAN /\ isMCUAppUpdate \in BOOLEAN
  /\ filesLeft \in 0..MaxFiles /\ file \in Files \cup {NoFile}
  /\ started \in BOOLEAN
  /\ approved \subseteq Versions /\ requested \in BOOLEAN

\* The file that the boot info names as active holds a version that has run
\* and reported a successful self test of its own (or the factory version):
\* an update that was never tested, or failed its test, does not become
\* permanent, wherever the power fails.
ActiveIsApproved == bootInfo \in BootInfo => img[bootInfo.active] \in approved

\* A version that has not reported a successful self test runs only while the
\* flash says that a test is on, so that the next reset returns to the old one.
UnapprovedOnlyUnderTest ==
  pc = "app" /\ running \notin approved => bootInfo.status = "TESTING"

\* sl_extlib_FlcCommit takes the status TESTING to mean that the image under
\* test is the one that runs ("Booted in testing mode").
BootedInTestingMode ==
  pc = "app" /\ bootInfo.status = "TESTING" => slot = TestImage(bootInfo.active)

\* sl_extlib_FlcOpenFile renames mcuimgA.bin to the alternate image "base on
\* the boot info file": a download never replaces the active image.
DownloadsToAlternate == mirror # NoMirror => mirror.slot # bootInfo.active

\* The boot loader stops only if no image was ever flashed: after every reset
\* there is an image to run.
Bootable == pc = "halt" => \A s \in Slots : img[s] = None

\* One request starts the image under test at most once: after a reset during
\* the test the boot loader does not start it again.
OneStartPerRequest ==
  [][pc = "execute" /\ pc' = "app" /\ slot # loader.active => requested]_vars

\* Every test comes to an end: it is committed, or the device returns to the
\* active image.
TestEnds == bootInfo.status \in {"TESTREADY", "TESTING"} ~> bootInfo.status = "NOTEST"

=============================================================================

------------------------------ MODULE UefiSec -------------------------------
(***************************************************************************)
(* uefi_sec (uefi_sec.c): the daemon that asks the UEFI trusted            *)
(* application (TA) to write the secure variables to RPMB.  It looks the   *)
(* TA up in the firmware directories, allocates one DMA buffer, sends the  *)
(* command, releases the buffer and, unless its argument is 1, sleeps ten  *)
(* minutes and starts over.                                                *)
(*                                                                         *)
(* Every call into libQSEECom, the DMA-BUF heap or the kernel may fail;    *)
(* whether it does is a choice of the step that makes it.  The kernel's    *)
(* side is what each descriptor refers to, whether the buffer is mapped,   *)
(* and whether a CPU access window (DMA_BUF_SYNC_START .. END) is open.    *)
(***************************************************************************)
EXTENDS Integers

CONSTANTS Fd,          \* the file descriptors the process can get
          FallbackDirs \* how many fixed directories are tried last

ASSUME UefiSecConstants == /\ Fd \subseteq Nat
                           /\ 0..2 \subseteq Fd
                           /\ FallbackDirs \in Nat

VARIABLES pc,       \* where main is
          oneShot,  \* argc == 2 and atoi(argv[1]) == 1
          ret,      \* ret, as zero or not
          tries,    \* fixed directories qsc_start_app has not tried
          app,      \* l_QSEEComHandle refers to a started TA
          dataFd,   \* ihandle.ifd_data_fd
          sbuffer,  \* ihandle.ion_sbuffer is not NULL
          sendFd,   \* ion_fd_info.data[0].fd
          err,      \* err
          status,   \* what main returned
          open,     \* what each open descriptor refers to
          mapped,   \* the DMA buffer is mapped
          window,   \* a CPU access window is open
          answer    \* the answer to the last command of this process

ihandle == <<dataFd, sbuffer>>
kernel  == <<open, mapped, window>>
vars    == <<pc, oneShot, ret, tries, app, ihandle, sendFd, err, status, kernel, answer>>

Files == {"closed", "std", "dmabuf"}

TypeOK ==
  /\ pc \in {"target", "fallback", "alloc", "map", "request", "fill", "send", "dealloc",
             "again", "sleep", "exited", "crashed"}
  /\ oneShot \in BOOLEAN /\ ret \in BOOLEAN
  /\ tries \in 0..FallbackDirs
  /\ app \in BOOLEAN
  /\ dataFd \in Fd \cup {-1} /\ sbuffer \in BOOLEAN
  /\ sendFd \in Fd \cup {-1}
  /\ err \in Nat
  /\ status \in Int
  /\ open \in [Fd -> Files]
  /\ mapped \in BOOLEAN /\ window \in BOOLEAN
  /\ answer \in {"none", "not_sent", "success", "failed"}

\* `ret' is TRUE for zero.  memset leaves the descriptor field of ihandle 0,
\* which is a valid descriptor; the field is set before anything reads it.
Init ==
  /\ pc = "target"
  /\ oneShot \in BOOLEAN
  /\ ret = TRUE
  /\ tries = FallbackDirs
  /\ app = FALSE
  /\ dataFd = 0 /\ sbuffer = FALSE
  /\ sendFd = -1
  /\ err = 0
  /\ status = 0
  /\ open = [f \in Fd |-> IF f \in 0..2 THEN "std" ELSE "closed"]
  /\ mapped = FALSE /\ window = FALSE
  /\ answer = "none"

Return(code) == /\ pc' = "exited"
                /\ status' = code

-----------------------------------------------------------------------------
(* qsc_start_app.                                                           *)

\* One QSEECom_start_app.
StartApp == /\ app' \in BOOLEAN
            /\ ret' = app'

TryEverySubdir ==  \* slip: the search does not stop at a success
  /\ pc = "target"
  /\ StartApp
  /\ UNCHANGED <<pc, oneShot, tries, ihandle, sendFd, err, status, kernel, answer>>

\* A subdirectory of /lib/firmware/qcom: the first that works ends the loop.
TrySubdir ==
  /\ pc = "target"
  /\ StartApp
  /\ pc' = IF ret' THEN "alloc" ELSE "target"
  /\ UNCHANGED <<oneShot, tries, ihandle, sendFd, err, status, kernel, answer>>

\* opendir fails: start_app_from_target_dir returns -1.
NoTargetDir ==
  /\ pc = "target" /\ ret
  /\ ret' = FALSE
  /\ pc' = "fallback"
  /\ UNCHANGED <<oneShot, tries, app, ihandle, sendFd, err, status, kernel, answer>>

\* readdir is at its end: the last result stands, zero if nothing was tried.
TargetDirDone ==
  /\ pc = "target"
  /\ pc' = IF ret THEN "alloc" ELSE "fallback"
  /\ UNCHANGED <<oneShot, ret, tries, app, ihandle, sendFd, err, status, kernel, answer>>

TryFallbackAgain ==  \* slip: the last directory is tried once more
  /\ pc = "fallback" /\ tries >= 0
  /\ StartApp
  /\ tries' = tries - 1
  /\ pc' = IF ret' THEN "alloc" ELSE "fallback"
  /\ UNCHANGED <<oneShot, ihandle, sendFd, err, status, kernel, answer>>

TryFallback ==
  /\ pc = "fallback" /\ tries > 0
  /\ StartApp
  /\ tries' = tries - 1
  /\ pc' = IF ret' THEN "alloc" ELSE "fallback"
  /\ UNCHANGED <<oneShot, ihandle, sendFd, err, status, kernel, answer>>

\* Nothing worked: main counts the error and goes on.
StartFailed ==
  /\ pc = "fallback" /\ tries = 0
  /\ err' = err + 1
  /\ pc' = "alloc"
  /\ UNCHANGED <<oneShot, ret, tries, app, ihandle, sendFd, status, kernel, answer>>

-----------------------------------------------------------------------------
(* qsc_ION_memalloc.                                                        *)

AllocFailsClosing ==  \* slip: alloc_fail closes the descriptor of the handle
  /\ pc = "alloc"
  /\ open' = [open EXCEPT ![dataFd] = "closed"]
  /\ dataFd' = -1
  /\ ret' = FALSE
  /\ Return(-1)
  /\ UNCHANGED <<oneShot, tries, app, sbuffer, sendFd, err, mapped, window, answer>>

\* No allocator or no heap memory: alloc_fail, and main returns -1.
AllocFails ==
  /\ pc = "alloc"
  /\ dataFd' = -1
  /\ ret' = FALSE
  /\ Return(-1)
  /\ UNCHANGED <<oneShot, tries, app, sbuffer, sendFd, err, kernel, answer>>

AllocAndMapUnset ==  \* slip: the address is not stored in the handle
  /\ pc = "alloc"
  /\ \E f \in Fd : /\ open[f] = "closed"
                   /\ open' = [open EXCEPT ![f] = "dmabuf"]
                   /\ dataFd' = f
  /\ mapped' = TRUE
  /\ pc' = "map"
  /\ UNCHANGED <<oneShot, ret, tries, app, sbuffer, sendFd, err, status, window, answer>>

\* DmabufHeapAlloc and mmap succeed.
AllocAndMap ==
  /\ pc = "alloc"
  /\ \E f \in Fd : /\ open[f] = "closed"
                   /\ open' = [open EXCEPT ![f] = "dmabuf"]
                   /\ dataFd' = f
  /\ mapped' = TRUE
  /\ sbuffer' = TRUE
  /\ pc' = "map"
  /\ UNCHANGED <<oneShot, ret, tries, app, sendFd, err, status, window, answer>>

\* mmap fails: map_fail closes the descriptor of the handle, which is still
\* the zero of memset, and not the one DmabufHeapAlloc returned.
MapFails ==
  /\ pc = "alloc"
  /\ \E f \in Fd : /\ open[f] = "closed"
                   /\ open' = [open EXCEPT ![f] = "dmabuf", ![dataFd] = "closed"]
  /\ dataFd' = -1
  /\ ret' = FALSE
  /\ Return(-1)
  /\ UNCHANGED <<oneShot, tries, app, sbuffer, sendFd, err, mapped, window, answer>>

SyncStart ==
  /\ pc = "map"
  /\ window' = TRUE
  /\ ret' = TRUE
  /\ pc' = "request"
  /\ UNCHANGED <<oneShot, tries, app, ihandle, sendFd, err, status, open, mapped, answer>>

SyncStartFails ==
  /\ pc = "map"
  /\ mapped' = FALSE
  /\ sbuffer' = FALSE
  /\ open' = [open EXCEPT ![dataFd] = "closed"]
  /\ dataFd' = -1
  /\ ret' = FALSE
  /\ Return(-1)
  /\ UNCHANGED <<oneShot, tries, app, sendFd, err, window, answer>>

-----------------------------------------------------------------------------
(* The loop of main.                                                        *)

\* The request is written through l_QSEEComHandle: a NULL pointer if no TA
\* was started.
WriteRequest ==
  /\ pc = "request" /\ app
  /\ sendFd' = dataFd
  /\ pc' = "fill"
  /\ UNCHANGED <<oneShot, ret, tries, app, ihandle, err, status, kernel, answer>>

NullHandle ==
  /\ pc = "request" /\ ~app
  /\ pc' = "crashed"
  /\ UNCHANGED <<oneShot, ret, tries, app, ihandle, sendFd, err, status, kernel, answer>>

DeallocKeepingAddress(end) ==  \* slip: ion_sbuffer is not reset
  /\ end => dataFd \in Fd /\ open[dataFd] = "dmabuf"
  /\ window' = IF end THEN FALSE ELSE window
  /\ mapped' = FALSE
  /\ open' = IF dataFd \in Fd THEN [open EXCEPT ![dataFd] = "closed"] ELSE open
  /\ dataFd' = -1
  /\ ret' = end
  /\ UNCHANGED sbuffer

\* qsc_ion_dealloc; `end' is whether the DMA_BUF_SYNC_END call succeeds, which
\* it cannot on a descriptor that is not a DMA buffer.
Dealloc(end) ==
  /\ end => dataFd \in Fd /\ open[dataFd] = "dmabuf"
  /\ window' = IF end THEN FALSE ELSE window
  /\ mapped' = IF sbuffer THEN FALSE ELSE mapped
  /\ sbuffer' = FALSE
  /\ open' = IF dataFd \in Fd THEN [open EXCEPT ![dataFd] = "closed"] ELSE open
  /\ dataFd' = -1
  /\ ret' = end

MallocFailsHolding ==  \* slip: the early return forgets the buffer
  /\ pc = "fill"
  /\ Return(-1)
  /\ UNCHANGED <<oneShot, ret, tries, app, ihandle, sendFd, err, kernel, answer>>

\* malloc of the verification buffer fails: release and return -1.
MallocFails ==
  /\ pc = "fill"
  /\ \E end \in BOOLEAN : /\ Dealloc(end)
                          /\ err' = IF end THEN err ELSE err + 1
  /\ Return(-1)
  /\ UNCHANGED <<oneShot, tries, app, sendFd, answer>>

\* The test pattern is written through ihandle.ion_sbuffer; status is cleared.
Fill ==
  /\ pc = "fill" /\ sbuffer
  /\ answer' = "not_sent"
  /\ pc' = "send"
  /\ UNCHANGED <<oneShot, ret, tries, app, ihandle, sendFd, err, status, kernel>>

NullBuffer ==
  /\ pc = "fill" /\ ~sbuffer
  /\ pc' = "crashed"
  /\ UNCHANGED <<oneShot, ret, tries, app, ihandle, sendFd, err, status, kernel, answer>>

SendUncounted ==  \* slip: a failed send is not counted
  /\ pc = "send"
  /\ answer' \in {"not_sent", "success", "failed"}
  /\ ret' = (answer' # "not_sent")
  /\ pc' = "dealloc"
  /\ UNCHANGED <<oneShot, tries, app, ihandle, sendFd, err, status, kernel>>

\* QSEECom_send_modified_cmd: it may fail, or bring an answer.  The test of a
\* negative status counts nothing, because the field is unsigned.
Send ==
  /\ pc = "send"
  /\ answer' \in {"not_sent", "success", "failed"}
  /\ ret' = (answer' # "not_sent")
  /\ err' = IF ret' THEN err ELSE err + 1
  /\ pc' = "dealloc"
  /\ UNCHANGED <<oneShot, tries, app, ihandle, sendFd, status, kernel>>

Release ==
  /\ pc = "dealloc"
  /\ \E end \in BOOLEAN : /\ Dealloc(end)
                          /\ err' = IF end THEN err ELSE err + 1
  /\ pc' = "again"
  /\ UNCHANGED <<oneShot, tries, app, sendFd, status, answer>>

Finish ==
  /\ pc = "again" /\ oneShot
  /\ Return(err)
  /\ UNCHANGED <<oneShot, ret, tries, app, ihandle, sendFd, err, kernel, answer>>

Sleep ==
  /\ pc = "again" /\ ~oneShot
  /\ pc' = "sleep"
  /\ UNCHANGED <<oneShot, ret, tries, app, ihandle, sendFd, err, status, kernel, answer>>

\* sleep(600) ends, and the loop starts over at the request.
Wake ==
  /\ pc = "sleep"
  /\ pc' = "request"
  /\ UNCHANGED <<oneShot, ret, tries, app, ihandle, sendFd, err, status, kernel, answer>>

Search == TrySubdir \/ NoTargetDir \/ TargetDirDone \/ TryFallback \/ StartFailed

Allocate == AllocFails \/ AllocAndMap \/ MapFails \/ SyncStart \/ SyncStartFails

Loop == WriteRequest \/ NullHandle \/ MallocFails \/ Fill \/ NullBuffer \/ Send \/ Release
        \/ Finish \/ Sleep \/ Wake

Next == Search \/ Allocate \/ Loop

\* The process runs, no call blocks for ever, and a directory has finitely
\* many entries.
Spec == Init /\ [][Next]_vars /\ WF_vars(Next) /\ WF_vars(TargetDirDone)

-----------------------------------------------------------------------------
(* Properties.                                                              *)

\* When the command is sent, the descriptor it carries to the TA is the one
\* of the DMA buffer, still open, mapped and inside a CPU access window, and
\* the TA was started.
SendOnLiveBuffer ==
  pc = "send" => /\ app
                 /\ sendFd \in Fd /\ open[sendFd] = "dmabuf"
                 /\ mapped /\ window

\* Exit status zero is given only after a TA was started, its answer came
\* back and the buffer was released: window closed, unmapped, descriptor
\* closed.
ZeroMeansDone ==
  pc = "exited" /\ status = 0 =>
    /\ app
    /\ answer \in {"success", "failed"}
    /\ ~mapped /\ ~window
    /\ \A f \in Fd : open[f] # "dmabuf"

\* No TA is started a second time: once a directory worked, the remaining
\* ones are not tried, and main does not start over at the search.
StartedOnce == [][app => ~(TrySubdir \/ TryFallback) /\ app']_vars

\* A run with argument 1 ends, and it ends by returning unless no TA was
\* started.
OneShotReturns == oneShot => <>(pc = "exited" \/ (pc = "crashed" /\ ~app))

\* Wherever the process sleeps or has returned, the buffer is unmapped: no
\* path of the loop keeps a mapping over the ten minutes or across a return.
NotMappedAtRest == pc \in {"sleep", "exited"} => ~mapped /\ ~sbuffer /\ dataFd = -1

\* The standard descriptors stay open, unless mmap failed (main returned -1
\* with the buffer's own descriptor still open).
StandardFdsKept ==
  (\E f \in 0..2 : open[f] # "std") => pc = "exited" /\ status = -1 /\ \E f \in Fd : open[f] = "dmabuf"

-----------------------------------------------------------------------------
(* The inductive invariant of the proofs.                                   *)

\* The buffer is held, and the handle names it.
Held == dataFd \in Fd /\ open[dataFd] = "dmabuf" /\ mapped /\ sbuffer

\* The only DMA buffer is the one the handle names.
NoOther == \A f \in Fd : open[f] = "dmabuf" => f = dataFd

\* The buffer was released.
Released == dataFd = -1 /\ ~mapped /\ ~sbuffer /\ \A f \in Fd : open[f] # "dmabuf"

Untouched == /\ dataFd = 0 /\ ~mapped /\ ~sbuffer /\ ~window
             /\ \A f \in Fd : open[f] = IF f \in 0..2 THEN "std" ELSE "closed"

Phases ==
  /\ pc \in {"target", "fallback"} => err = 0 /\ ~app
  /\ pc \in {"target", "fallback", "alloc"} => Untouched
  /\ pc = "fallback" => ~ret
  /\ pc = "map" => Held /\ NoOther /\ ~window
  /\ pc \in {"request", "fill"} => (Held /\ NoOther /\ window) \/ Released
  /\ pc = "fill" => app /\ sendFd = dataFd
  /\ pc \in {"send", "dealloc"} => app /\ sendFd = dataFd /\ Held /\ NoOther /\ window
  /\ pc \in {"dealloc", "again"} /\ err = 0 => answer \in {"success", "failed"}
  /\ pc \in {"again", "sleep"} => Released /\ app
  /\ pc = "again" /\ err = 0 => ~window

IInv == TypeOK /\ Phases /\ ZeroMeansDone /\ NotMappedAtRest /\ StandardFdsKept

-----------------------------------------------------------------------------
(* What the repository says of the program and the program does not do.     *)

\* The application updates the variables periodically (the header comment):
\* a process that has slept sends the command again.
Periodic == pc = "sleep" ~> pc = "send"
=============================================================================

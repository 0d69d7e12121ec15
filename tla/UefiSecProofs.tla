--------------------------- MODULE UefiSecProofs ----------------------------
(***************************************************************************)
(* For every set of descriptors and number of fallback directories:        *)
(* UefiSec keeps its inductive invariant, and with it the properties of    *)
(* the command's buffer, of the exit status and of the search for the TA.  *)
(***************************************************************************)
EXTENDS UefiSec, TLAPS

\* qsc_ion_dealloc keeps the types of what it changes.
LEMMA DeallocType ==
  ASSUME TypeOK, NEW end \in BOOLEAN, Dealloc(end)
  PROVE  /\ dataFd' = -1 /\ dataFd' \in Fd \cup {-1}
         /\ sbuffer' \in BOOLEAN /\ mapped' \in BOOLEAN
         /\ window' \in BOOLEAN /\ ret' \in BOOLEAN
         /\ open' \in [Fd -> Files]
<1>1. open' \in [Fd -> Files]
  BY DEF TypeOK, Dealloc, Files
<1>2. mapped' \in BOOLEAN /\ window' \in BOOLEAN
  BY DEF TypeOK, Dealloc
<1> QED BY <1>1, <1>2 DEF Dealloc

\* Each group of actions keeps the types.
LEMMA TypeStep == TypeOK /\ [Next]_vars => TypeOK'
<1>0. -1 \in Int
  OBVIOUS
<1> USE <1>0, UefiSecConstants DEF TypeOK, Files
<1> SUFFICES ASSUME TypeOK, [Next]_vars PROVE TypeOK'
  OBVIOUS
<1>1. CASE Search
  <2>1. CASE TrySubdir
    BY <2>1 DEF TrySubdir, StartApp, ihandle, kernel
  <2>2. CASE NoTargetDir
    BY <2>2 DEF NoTargetDir, ihandle, kernel
  <2>3. CASE TargetDirDone
    BY <2>3 DEF TargetDirDone, ihandle, kernel
  <2>4. CASE TryFallback
    BY <2>4 DEF TryFallback, StartApp, ihandle, kernel
  <2>5. CASE StartFailed
    BY <2>5 DEF StartFailed, ihandle, kernel
  <2> QED BY <1>1, <2>1, <2>2, <2>3, <2>4, <2>5 DEF Search
<1>2. CASE Allocate
  <2>1. CASE AllocFails
    BY <2>1 DEF AllocFails, Return, ihandle, kernel
  <2>2. CASE AllocAndMap
    BY <2>2 DEF AllocAndMap, ihandle, kernel
  <2>3. CASE MapFails
    BY <2>3 DEF MapFails, Return, ihandle, kernel
  <2>4. CASE SyncStart
    BY <2>4 DEF SyncStart, ihandle, kernel
  <2>5. CASE SyncStartFails
    BY <2>5 DEF SyncStartFails, Return, ihandle, kernel
  <2> QED BY <1>2, <2>1, <2>2, <2>3, <2>4, <2>5 DEF Allocate
<1>3. CASE Loop
  <2>1. CASE WriteRequest
    BY <2>1 DEF WriteRequest, ihandle, kernel
  <2>2. CASE NullHandle
    BY <2>2 DEF NullHandle, ihandle, kernel
  <2>3. CASE MallocFails
    <3> PICK end \in BOOLEAN : Dealloc(end) /\ err' = IF end THEN err ELSE err + 1
      BY <2>3 DEF MallocFails
    <3>1. err' \in Nat
      OBVIOUS
    <3> HIDE DEF Files
    <3> QED BY <2>3, <3>1, DeallocType DEF MallocFails, Return
  <2>4. CASE Fill
    BY <2>4 DEF Fill, ihandle, kernel
  <2>5. CASE NullBuffer
    BY <2>5 DEF NullBuffer, ihandle, kernel
  <2>6. CASE Send
    BY <2>6 DEF Send, ihandle, kernel
  <2>7. CASE Release
    <3> PICK end \in BOOLEAN : Dealloc(end) /\ err' = IF end THEN err ELSE err + 1
      BY <2>7 DEF Release
    <3>1. err' \in Nat
      OBVIOUS
    <3> HIDE DEF Files
    <3> QED BY <2>7, <3>1, DeallocType DEF Release
  <2>8. CASE Finish
    BY <2>8 DEF Finish, Return, ihandle, kernel
  <2>9. CASE Sleep
    BY <2>9 DEF Sleep, ihandle, kernel
  <2>10. CASE Wake
    BY <2>10 DEF Wake, ihandle, kernel
  <2> QED BY <1>3, <2>1, <2>2, <2>3, <2>4, <2>5, <2>6, <2>7, <2>8, <2>9, <2>10 DEF Loop
<1>4. CASE UNCHANGED vars
  BY <1>4 DEF vars, ihandle, kernel
<1> QED BY <1>1, <1>2, <1>3, <1>4 DEF Next

Rest == Phases /\ ZeroMeansDone /\ NotMappedAtRest /\ StandardFdsKept

\* The search for the TA touches neither the buffer nor the descriptors.
LEMMA SearchStep == IInv /\ Search => Rest'
<1> USE UefiSecConstants DEF Rest, IInv, TypeOK, Files, Phases, ZeroMeansDone, NotMappedAtRest,
        StandardFdsKept, Untouched
<1> SUFFICES ASSUME IInv, Search PROVE Rest'
  OBVIOUS
<1>1. CASE TrySubdir
  BY <1>1 DEF TrySubdir, StartApp, ihandle, kernel
<1>2. CASE NoTargetDir
  BY <1>2 DEF NoTargetDir, ihandle, kernel
<1>3. CASE TargetDirDone
  BY <1>3 DEF TargetDirDone, ihandle, kernel
<1>4. CASE TryFallback
  BY <1>4 DEF TryFallback, StartApp, ihandle, kernel
<1>5. CASE StartFailed
  BY <1>5 DEF StartFailed, ihandle, kernel
<1> QED BY <1>1, <1>2, <1>3, <1>4, <1>5 DEF Search

\* The allocation leaves the one buffer held, or main returns -1.
LEMMA AllocateStep == IInv /\ Allocate => Rest'
<1> USE UefiSecConstants DEF Rest, IInv, TypeOK, Files, Phases, ZeroMeansDone, NotMappedAtRest,
        StandardFdsKept, Untouched, Held, NoOther, Released
<1> SUFFICES ASSUME IInv, Allocate PROVE Rest'
  OBVIOUS
<1>1. CASE AllocFails
  BY <1>1 DEF AllocFails, Return, kernel
<1>2. CASE AllocAndMap
  BY <1>2 DEF AllocAndMap
<1>3. CASE MapFails
  BY <1>3 DEF MapFails, Return
<1>4. CASE SyncStart
  BY <1>4 DEF SyncStart, ihandle
<1>5. CASE SyncStartFails
  BY <1>5 DEF SyncStartFails, Return
<1> QED BY <1>1, <1>2, <1>3, <1>4, <1>5 DEF Allocate

\* A turn of the loop releases what it held.
LEMMA LoopStep == IInv /\ Loop => Rest'
<1> USE UefiSecConstants DEF Rest, IInv, TypeOK, Files, Phases, ZeroMeansDone, NotMappedAtRest,
        StandardFdsKept, Held, NoOther, Released
<1> SUFFICES ASSUME IInv, Loop PROVE Rest'
  OBVIOUS
<1>1. CASE WriteRequest
  BY <1>1 DEF WriteRequest, ihandle, kernel
<1>2. CASE NullHandle
  BY <1>2 DEF NullHandle, ihandle, kernel
<1>3. CASE MallocFails
  <2> PICK end \in BOOLEAN : Dealloc(end) /\ err' = IF end THEN err ELSE err + 1
    BY <1>3 DEF MallocFails
  <2>1. CASE end
    BY <1>3, <2>1 DEF MallocFails, Dealloc, Return
  <2>2. CASE ~end
    BY <1>3, <2>2 DEF MallocFails, Dealloc, Return
  <2> QED BY <2>1, <2>2
<1>4. CASE Fill
  BY <1>4 DEF Fill, ihandle, kernel
<1>5. CASE NullBuffer
  BY <1>5 DEF NullBuffer, ihandle, kernel
<1>6. CASE Send
  <2>1. CASE answer' = "not_sent"
    <3>1. ~ret'
      BY <1>6, <2>1 DEF Send
    <3> QED BY <1>6, <2>1, <3>1 DEF Send, ihandle, kernel
  <2>2. CASE answer' # "not_sent"
    BY <1>6, <2>2 DEF Send, ihandle, kernel
  <2> QED BY <2>1, <2>2
<1>7. CASE Release
  <2> PICK end \in BOOLEAN : Dealloc(end) /\ err' = IF end THEN err ELSE err + 1
    BY <1>7 DEF Release
  <2>1. CASE end
    BY <1>7, <2>1 DEF Release, Dealloc
  <2>2. CASE ~end
    BY <1>7, <2>2 DEF Release, Dealloc
  <2> QED BY <2>1, <2>2
<1>8. CASE Finish
  BY <1>8 DEF Finish, Return, ihandle, kernel
<1>9. CASE Sleep
  BY <1>9 DEF Sleep, ihandle, kernel
<1>10. CASE Wake
  BY <1>10 DEF Wake, ihandle, kernel
<1> QED BY <1>1, <1>2, <1>3, <1>4, <1>5, <1>6, <1>7, <1>8, <1>9, <1>10 DEF Loop

\* The invariant is inductive: it holds at the start of main and every step of
\* the search, the allocation and the loop keeps it.
THEOREM Invariance == Spec => []IInv
<1>1. Init => IInv
  <2> SUFFICES ASSUME Init PROVE IInv
    OBVIOUS
  <2>1. -1 \in Int /\ 0 \in Fd
    BY UefiSecConstants
  <2>2. TypeOK
    <3>1. open \in [Fd -> Files]
      BY DEF Init, Files
    <3>2. tries \in 0..FallbackDirs
      BY UefiSecConstants DEF Init
    <3>3. dataFd \in Fd \cup {-1} /\ sendFd \in Fd \cup {-1}
      BY <2>1 DEF Init
    <3>4. app \in BOOLEAN /\ sbuffer \in BOOLEAN /\ mapped \in BOOLEAN /\ window \in BOOLEAN
          /\ oneShot \in BOOLEAN /\ ret \in BOOLEAN
      BY DEF Init
    <3>5. err \in Nat /\ status \in Int
      BY DEF Init
    <3> QED BY <3>1, <3>2, <3>3, <3>4, <3>5 DEF Init, TypeOK
  <2>3. Untouched
    BY DEF Init, Untouched
  <2>4. \A f \in 0..2 : open[f] = "std"
    BY UefiSecConstants DEF Init
  <2> QED BY <2>2, <2>3, <2>4 DEF Init, IInv, Phases, ZeroMeansDone, NotMappedAtRest, StandardFdsKept
<1>2. IInv /\ [Next]_vars => IInv'
  <2> SUFFICES ASSUME IInv, [Next]_vars PROVE IInv'
    OBVIOUS
  <2>1. TypeOK'
    BY TypeStep DEF IInv
  <2>2. Rest'
    <3>1. CASE UNCHANGED vars
      BY <3>1 DEF vars, ihandle, kernel, IInv, Rest, Phases, Untouched, Held, NoOther, Released,
         ZeroMeansDone, NotMappedAtRest, StandardFdsKept
    <3> QED BY <3>1, SearchStep, AllocateStep, LoopStep DEF Next
  <2> QED BY <2>1, <2>2 DEF IInv, Rest
<1> QED BY <1>1, <1>2, PTL DEF Spec

\* Every variable of the daemon keeps its type.
THEOREM TypeCorrectness == Spec => []TypeOK
<1>1. IInv => TypeOK
  BY DEF IInv
<1> QED BY <1>1, Invariance, PTL

\* The command is only ever sent on the buffer that is open, mapped and in its
\* CPU access window, to a TA that was started.
THEOREM CommandOnLiveBuffer == Spec => []SendOnLiveBuffer
<1>1. IInv => SendOnLiveBuffer
  BY DEF IInv, Phases, SendOnLiveBuffer, Held
<1> QED BY <1>1, Invariance, PTL

\* Exit status zero means that the TA answered and the buffer was released.
THEOREM ExitZero == Spec => []ZeroMeansDone
<1>1. IInv => ZeroMeansDone
  BY DEF IInv
<1> QED BY <1>1, Invariance, PTL

\* No mapping outlives a turn of the loop or a return of main.
THEOREM RestUnmapped == Spec => []NotMappedAtRest
<1>1. IInv => NotMappedAtRest
  BY DEF IInv
<1> QED BY <1>1, Invariance, PTL

\* The standard descriptors are closed on no path but the failed mmap.
THEOREM StandardFds == Spec => []StandardFdsKept
<1>1. IInv => StandardFdsKept
  BY DEF IInv
<1> QED BY <1>1, Invariance, PTL

\* A TA that was started is never started again nor forgotten.
THEOREM NoSecondStart == Spec => StartedOnce
<1>1. IInv /\ [Next]_vars => [app => ~(TrySubdir \/ TryFallback) /\ app']_vars
  <2> SUFFICES ASSUME IInv, Next, app
               PROVE  ~(TrySubdir \/ TryFallback) /\ app'
    BY DEF vars, ihandle, kernel
  <2>1. pc \notin {"target", "fallback"}
    BY DEF IInv, Phases
  <2>2. CASE Search
    BY <2>1, <2>2 DEF Search, TrySubdir, NoTargetDir, TargetDirDone, TryFallback, StartFailed
  <2>3. CASE Allocate
    BY <2>1, <2>3 DEF Allocate, AllocFails, AllocAndMap, MapFails, SyncStart, SyncStartFails,
                      TrySubdir, TryFallback
  <2>4. CASE Loop
    BY <2>1, <2>4 DEF Loop, WriteRequest, NullHandle, MallocFails, Fill, NullBuffer, Send, Release,
                      Finish, Sleep, Wake, TrySubdir, TryFallback
  <2> QED BY <2>2, <2>3, <2>4 DEF Next
<1> QED BY <1>1, Invariance, PTL DEF Spec, StartedOnce
=============================================================================

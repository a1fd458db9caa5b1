------------------------------- MODULE Logger -------------------------------
(***************************************************************************)
(* The logger service (rskynet-logger/src/lib.rs): lines arrive in its     *)
(* mailbox; a backlog beyond max_queue makes it drop the older ones and    *)
(* say how many; files are rotated by date and by size and reopened on     *)
(* SIGHUP.  Opening a file may fail, and so may a write, after a part of   *)
(* the line has reached the disk.                                          *)
(*                                                                         *)
(* The n-th line posted is line n.  A file on disk is an element of        *)
(* lgDisk, whatever name it has by now.                                    *)
(***************************************************************************)
EXTENDS Integers, Sequences

CONSTANTS LgMaxQueue,   \* max_queue, 0 for none
          LgMaxFile,    \* max_file_size, 0 for none
          LgDaily,      \* rotate_daily
          LgLines,      \* bound: lines posted
          LgDays,       \* bound: days
          LgHups,       \* bound: SIGHUPs
          LgFaults      \* bound: failing opens and writes

ASSUME LgAssumption == LgMaxQueue \in Nat /\ LgMaxFile \in Nat /\ LgDaily \in BOOLEAN

VARIABLES lgBox,      \* the mailbox: lines [line, size]; line 0 is a SIGHUP
          lgFile,     \* the open LogFile [at, date, len]; at = 0 for none
          lgDisk,     \* history: every file [bytes, lines, spoilt, torn]
          lgMoved,    \* somebody renamed the active file
          lgDropped,  \* Backpressure.dropped
          lgOut,      \* what was printed: [line, n]; line 0 with n > 0 is a notice
          lgTaken,    \* history: lines taken from the mailbox
          lgDay, lgUsed     \* lgUsed = [lines, hups, faults]

lgVars == <<lgBox, lgFile, lgDisk, lgMoved, lgDropped, lgOut, lgTaken, lgDay, lgUsed>>

\* What one message changes: the open file, the disk, the output, the faults.
LgWorld == [file |-> lgFile, disk |-> lgDisk, moved |-> lgMoved, out |-> lgOut,
            faults |-> lgUsed.faults]

\* spoilt: an open or a write failed while it was in use; torn: a write failed
\* since it was opened last.
LgEmptyFile == [bytes |-> 0, lines |-> 0, spoilt |-> FALSE, torn |-> FALSE]

\* open_new: a file under a name nobody has yet.
LgOpenNew(w) == [w EXCEPT !.disk = Append(@, LgEmptyFile), !.moved = FALSE,
                          !.file = [at |-> Len(w.disk) + 1, date |-> lgDay, len |-> 0]]

\* init, with a path or without one
LgInit ==
  /\ lgBox = <<>> /\ lgMoved = FALSE /\ lgDropped = 0 /\ lgOut = <<>> /\ lgTaken = 0
  /\ lgDay = 1 /\ lgUsed = [lines |-> 0, hups |-> 0, faults |-> 0]
  /\ \/ lgFile = [at |-> 0, date |-> 0, len |-> 0] /\ lgDisk = <<>>
     \/ lgFile = [at |-> 1, date |-> 1, len |-> 0] /\ lgDisk = <<LgEmptyFile>>

\* Mutant: the line about to be written is left out of the sum.
LgShouldRotateLate(f, size) ==
  \/ LgDaily /\ f.date # lgDay
  \/ LgMaxFile # 0 /\ f.len # 0 /\ f.len > LgMaxFile
LgShouldRotate(f, size) ==
  \/ LgDaily /\ f.date # lgDay
  \/ LgMaxFile # 0 /\ f.len # 0 /\ f.len + size > LgMaxFile

LgMayFail(w) == w.faults < LgFaults

\* A rotation that failed, and a write that failed behind its first part bytes:
\* they are on disk, and len does not know of them.
LgSpoil(w) == [w EXCEPT !.disk[w.file.at].spoilt = TRUE, !.faults = @ + 1]
LgTear(w, part) ==
  LET f == w.disk[w.file.at]
  IN  [w EXCEPT !.disk[w.file.at] = [f EXCEPT !.bytes = f.bytes + part, !.spoilt = TRUE,
                                              !.torn = TRUE],
                !.faults = @ + 1]

\* write_unrotated: the length moves only with a write that succeeded.
LgWriteUnrotated(w, size) ==
  IF w.file.at = 0 THEN {w}
  ELSE {[w EXCEPT !.disk[w.file.at].bytes = @ + size, !.disk[w.file.at].lines = @ + 1,
                  !.file.len = @ + size]}
       \cup {LgTear(w, part) : part \in {k \in 0 .. size - 1 : LgMayFail(w)}}

\* write: print, rotate if needed, and write; a rotation that fails leaves
\* a line about it, and the old file in use.
LgRotated(w, size) ==
  IF w.file.at = 0 \/ ~LgShouldRotate(w.file, size) THEN {w}
  ELSE {LgOpenNew(w)} \cup
       IF ~LgMayFail(w) THEN {}
       ELSE LgWriteUnrotated([LgSpoil(w) EXCEPT !.out = Append(@, [line |-> 0, n |-> 0])], 1)
LgWrite(w, entry, size) ==
  UNION {LgWriteUnrotated(v, size) :
           v \in LgRotated([w EXCEPT !.out = Append(@, entry)], size)}

LgCommit(w) ==
  /\ lgFile' = w.file /\ lgDisk' = w.disk /\ lgMoved' = w.moved /\ lgOut' = w.out
  /\ lgUsed' = [lgUsed EXCEPT !.faults = w.faults]

-----------------------------------------------------------------------------
LgPost ==
  /\ lgUsed.lines < LgLines
  /\ \E size \in 1 .. 2 : lgBox' = Append(lgBox, [line |-> lgUsed.lines + 1, size |-> size])
  /\ lgUsed' = [lgUsed EXCEPT !.lines = @ + 1]
  /\ UNCHANGED <<lgFile, lgDisk, lgMoved, lgDropped, lgOut, lgTaken, lgDay>>
LgHup ==
  /\ lgUsed.hups < LgHups
  /\ lgBox' = Append(lgBox, [line |-> 0, size |-> 0])
  /\ lgUsed' = [lgUsed EXCEPT !.hups = @ + 1]
  /\ UNCHANGED <<lgFile, lgDisk, lgMoved, lgDropped, lgOut, lgTaken, lgDay>>
LgMidnight ==
  /\ lgDay < LgDays
  /\ lgDay' = lgDay + 1
  /\ UNCHANGED <<lgBox, lgFile, lgDisk, lgMoved, lgDropped, lgOut, lgTaken, lgUsed>>
\* A tool renames the active file, as one does before SIGHUP.
LgMove ==
  /\ lgFile.at # 0 /\ ~lgMoved /\ lgUsed.hups < LgHups
  /\ lgMoved' = TRUE
  /\ UNCHANGED <<lgBox, lgFile, lgDisk, lgDropped, lgOut, lgTaken, lgDay, lgUsed>>

\* dispatch of TEXT: decide on what still waits, behind this line.
LgTooMany == LgMaxQueue # 0 /\ Len(Tail(lgBox)) >= LgMaxQueue
LgDrop ==
  /\ lgBox # <<>> /\ Head(lgBox).line # 0
  /\ LgTooMany
  /\ lgDropped' = lgDropped + 1
  /\ lgBox' = Tail(lgBox)
  /\ lgTaken' = lgTaken + 1
  /\ UNCHANGED <<lgFile, lgDisk, lgMoved, lgOut, lgDay, lgUsed>>
\* Mutant: the count of dropped lines is reported and kept.
LgAfterNoticeKept == lgDropped
LgAfterNotice == 0
LgLine ==
  /\ lgBox # <<>> /\ Head(lgBox).line # 0
  /\ ~LgTooMany
  /\ \E v \in IF lgDropped = 0 THEN {LgWorld}
              ELSE LgWrite(LgWorld, [line |-> 0, n |-> lgDropped], 1) :
       \E w \in LgWrite(v, [line |-> Head(lgBox).line, n |-> 0], Head(lgBox).size) : LgCommit(w)
  /\ lgDropped' = LgAfterNotice
  /\ lgBox' = Tail(lgBox)
  /\ lgTaken' = lgTaken + 1
  /\ UNCHANGED lgDay

\* Mutant: the file opened again keeps the length counted so far.
LgReopenedStale(w) ==
  IF w.moved THEN LgOpenNew(w)
  ELSE [w EXCEPT !.file.date = lgDay, !.disk[w.file.at].torn = FALSE]

\* dispatch of SYSTEM: reopen under the same name, which is a new file when
\* the old one was renamed; a failure is written to the old one.
LgReopened(w) ==
  IF w.moved THEN LgOpenNew(w)
  ELSE [w EXCEPT !.file.date = lgDay, !.file.len = w.disk[w.file.at].bytes,
                 !.disk[w.file.at].torn = FALSE]
LgReopen ==
  /\ lgBox # <<>> /\ Head(lgBox).line = 0
  /\ \E w \in IF lgFile.at = 0 THEN {LgWorld}
              ELSE {LgReopened(LgWorld)} \cup
                   IF ~LgMayFail(LgWorld) THEN {}
                   ELSE LgWrite([LgWorld EXCEPT !.faults = @ + 1], [line |-> 0, n |-> 0], 1) :
       LgCommit(w)
  /\ lgBox' = Tail(lgBox)
  /\ UNCHANGED <<lgDropped, lgTaken, lgDay>>

LgNext == LgPost \/ LgHup \/ LgMidnight \/ LgMove \/ LgDrop \/ LgLine \/ LgReopen

LgSpec == LgInit /\ [][LgNext]_lgVars
-----------------------------------------------------------------------------
\* Place k of the output is the last line before place i, 0 if there is none, and
\* the notices between the two.
LgLastBefore(out, k, i) ==
  /\ k = 0 \/ out[k].line # 0
  /\ \A j \in k + 1 .. i - 1 : out[j].line = 0
LgNotices(out, k, i) == {j \in k + 1 .. i - 1 : out[j].n # 0}
LgNumber(out, k) == IF k = 0 THEN 0 ELSE out[k].line

\* Lines come out in the order they were posted; between two of them there is a
\* notice exactly when some were dropped there, and it names exactly that many.
LgInOrder(out) ==
  \A i \in DOMAIN out : out[i].line # 0 =>
    \E k \in 0 .. i - 1 :
      /\ LgLastBefore(out, k, i)
      /\ \/ LgNotices(out, k, i) = {} /\ out[i].line = LgNumber(out, k) + 1
         \/ \E j \in LgNotices(out, k, i) :
              LgNotices(out, k, i) = {j} /\ out[i].line = LgNumber(out, k) + out[j].n + 1

\* The last line that came out is the line with this number, and no notice follows it.
LgEndsWith(out, number) ==
  \E k \in 0 .. Len(out) :
    /\ LgLastBefore(out, k, Len(out) + 1) /\ LgNotices(out, k, Len(out) + 1) = {}
    /\ LgNumber(out, k) = number

\* Every line is accounted for: in order and with the notices that are due, and
\* what was dropped since the last line is what the counter holds.
LgAccount == LgInOrder(lgOut) /\ LgEndsWith(lgOut, lgTaken - lgDropped)

\* A file longer than max_file_size holds a single line, whatever rotations,
\* reopenings and renamings happened, unless opening or writing failed while it
\* was in use.  The length kept in memory is never more than the length on disk,
\* and it is that length again once the file is opened after a write that failed.
LgBounded ==
  /\ LgMaxFile # 0 =>
       \A i \in DOMAIN lgDisk :
         lgDisk[i].bytes > LgMaxFile => lgDisk[i].lines = 1 \/ lgDisk[i].spoilt
  /\ lgFile.at # 0 =>
       /\ lgFile.len <= lgDisk[lgFile.at].bytes
       /\ lgDisk[lgFile.at].torn \/ lgFile.len = lgDisk[lgFile.at].bytes

\* No line and no dropped line is unaccounted for, and files stay bounded
\* (dispatch, Backpressure::decide, should_rotate, reopen).
LgKept == LgAccount /\ LgBounded
=============================================================================

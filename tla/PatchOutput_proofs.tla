------------------------ MODULE PatchOutput_proofs ------------------------
(***************************************************************************)
(* Proofs about PatchOutput, for any attempts, recovery workers and        *)
(* troubles, when nobody starts while another works.                       *)
(***************************************************************************)
EXTENDS PatchOutputInductive, TLAPS

\* Pages are not used together.
Separate == Together = FALSE

PatchInv == TypeInv /\ RecordInv

DirectoryOK ==
  /\ directory \in Seq(Directories) /\ directory # <<>>
  /\ unread \subseteq Ops
  /\ AllSound

----------------------------------------------------------------------------
(* The directory *)

LEMMA DiskSound ==
  ASSUME DirectoryOK
  PROVE  Disk \in Directories /\ Sound(Disk, unread)
BY DEF DirectoryOK, Disk, Last, AllSound

LEMMA NewState ==
  ASSUME DirectoryOK, NEW d \in Directories, Sound(d, unread),
         directory' = <<d>> \/ directory' = Append(directory, d), UNCHANGED unread
  PROVE  DirectoryOK' /\ Disk' = d
<1>1. CASE directory' = <<d>>
  BY <1>1 DEF DirectoryOK, Disk, Last, AllSound
<1>2. CASE directory' = Append(directory, d)
  <2>1. /\ directory' \in Seq(Directories) /\ Len(directory') = Len(directory) + 1
        /\ directory' # <<>>
    BY <1>2 DEF DirectoryOK
  <2>2. directory'[Len(directory')] = d
    BY <1>2, <2>1 DEF DirectoryOK
  <2>3. ASSUME NEW i \in DOMAIN directory' PROVE Sound(directory'[i], unread')
    BY <1>2, <2>1, <2>2, <2>3 DEF DirectoryOK, AllSound
  <2> QED BY <2>1, <2>2, <2>3 DEF DirectoryOK, Disk, Last, AllSound
<1> QED BY <1>1, <1>2

LEMMA SameDirectory ==
  ASSUME DirectoryOK, UNCHANGED <<directory, unread>>
  PROVE  DirectoryOK' /\ Disk' = Disk
BY DEF DirectoryOK, Disk, AllSound, Sound

\* The receipt of one more attempt could not be read.
LEMMA MoreUnread ==
  ASSUME DirectoryOK, UNCHANGED directory, NEW o \in Ops, unread' = unread \cup {o}
  PROVE  DirectoryOK' /\ Disk' = Disk
<1>1. ASSUME NEW i \in DOMAIN directory PROVE Sound(directory[i], unread')
  <2>1. Sound(directory[i], unread)
    BY DEF DirectoryOK, AllSound
  <2> QED BY <2>1 DEF Sound
<1> QED BY <1>1 DEF DirectoryOK, Disk, AllSound

LEMMA SpendOK ==
  ASSUME TypeInv, NEW n \in {0, 1}, Spend(n)
  PROVE  troubles' \in 0..MaxTroubles
BY PatchAssumption DEF TypeInv, Spend, PatchAssumption

LEMMA MismatchesOK ==
  ASSUME TypeInv, NEW matches, Mismatches(matches)
  PROVE  troubles' \in 0..MaxTroubles
BY SpendOK DEF Mismatches, TypeInv

\* A journal that may stand in the directory as it is.
LEMMA SoundJournal ==
  ASSUME DirectoryOK, NEW o \in Ops, NEW j \in Journals,
         Informed(j),
         Disk.dest = o => j.state \in Standing,
         j.state = "completed" => Disk.dest = o,
         j.state = "rolled_back" =>
           /\ Disk.dest # o /\ Disk.temp[o] = "absent"
           /\ Disk.receipt # o \/ o \in unread
  PROVE  /\ [Disk EXCEPT !.journal[o] = j] \in Directories
         /\ Sound([Disk EXCEPT !.journal[o] = j], unread)
<1> DEFINE d == [Disk EXCEPT !.journal[o] = j]
<1>1. Disk \in Directories /\ Sound(Disk, unread)
  BY DiskSound
<1>2. d \in Directories
  BY <1>1 DEF Directories
<1>3. /\ d.dest = Disk.dest /\ d.receipt = Disk.receipt /\ d.temp = Disk.temp
      /\ d.journal[o] = j
      /\ \A p \in Ops : p # o => d.journal[p] = Disk.journal[p]
  BY <1>1 DEF Directories
<1>4. Sound(d, unread)
  BY <1>1, <1>3 DEF Sound
<1> QED BY <1>2, <1>4

\* Whatever becomes of the write, the directory is sound; only a write that
\* succeeds goes on.
LEMMA JournalWritten ==
  ASSUME TypeInv, DirectoryOK, NEW o \in Ops, NEW j \in Journals,
         NEW result \in Writes, WriteJournal(o, j, result), UNCHANGED unread,
         Informed(j),
         Disk.dest = o => j.state \in Standing,
         j.state = "completed" => Disk.dest = o,
         j.state = "rolled_back" =>
           /\ Disk.dest # o /\ Disk.temp[o] = "absent"
           /\ Disk.receipt # o \/ o \in unread
  PROVE  /\ DirectoryOK'
         /\ troubles' \in 0..MaxTroubles
         /\ result = "ok" => /\ Disk'.journal[o] = j
                             /\ Disk'.dest = Disk.dest /\ Disk'.receipt = Disk.receipt
                             /\ Disk'.temp = Disk.temp
         /\ Disk'.dest = Disk.dest
<1> DEFINE d == [Disk EXCEPT !.journal[o] = j]
<1>1. d \in Directories /\ Sound(d, unread)
  BY SoundJournal
<1>2. troubles' \in 0..MaxTroubles
  BY SpendOK DEF WriteJournal
<1>3. /\ d.dest = Disk.dest /\ d.receipt = Disk.receipt /\ d.temp = Disk.temp
      /\ d.journal[o] = j
  BY DiskSound DEF Directories
<1>4. CASE result = "lost"
  BY <1>2, <1>4, SameDirectory DEF WriteJournal
<1>5. CASE result # "lost"
  <2>1. directory' = <<d>> \/ directory' = Append(directory, d)
    BY <1>5 DEF WriteJournal, Writes
  <2>2. DirectoryOK' /\ Disk' = d
    BY <1>1, <2>1, NewState
  <2> QED BY <1>2, <1>3, <2>2
<1> QED BY <1>4, <1>5

----------------------------------------------------------------------------
(* The steps of an attempt *)

Alone(o) == (\A p \in Ops : Busy(p) => p = o) /\ (\A w \in Workers : ~Recovering(w))

LEMMA BusyAlone ==
  ASSUME PatchInv, NEW o \in Ops, Busy(o)
  PROVE  Alone(o)
BY DEF PatchInv, RecordInv, Exclusive, Alone

LEMMA NobodyWorks ==
  ASSUME PatchInv, Separate, MayStart
  PROVE  (\A o \in Ops : ~Busy(o)) /\ (\A w \in Workers : ~Recovering(w))
BY DEF Separate, MayStart, Busy, Recovering

\* An attempt that works alone disturbs nobody.
LEMMA AttemptStep ==
  ASSUME PatchInv, NEW o \in Ops, Alone(o), DirectoryOK', troubles' \in 0..MaxTroubles,
         NEW a \in [at : ApplySteps, journal : Journals],
         apply' = [apply EXCEPT ![o] = a], Same,
         AttemptKnows(o)'
  PROVE  PatchInv'
<1>1. TypeInv'
  BY DEF PatchInv, TypeInv, DirectoryOK, Same, Recovering
<1>2. /\ \A p \in Ops : p # o => apply'[p] = apply[p]
      /\ recover' = recover
  BY DEF PatchInv, TypeInv, Same
<1>3. Exclusive'
  BY <1>2 DEF Alone, Exclusive, Busy, Recovering
<1>4. ASSUME NEW p \in Ops PROVE AttemptKnows(p)'
  <2>1. CASE p # o
    <3>1. apply'[p].at = ""
      BY <1>2, <2>1 DEF Alone, Busy
    <3> QED BY <3>1 DEF AttemptKnows, BeforeLink, WithOutput, WithReceipt
  <2> QED BY <2>1
<1>5. \A w \in Workers : ~Recovering(w)'
  BY <1>2 DEF Alone, Recovering
<1> QED BY <1>1, <1>3, <1>4, <1>5 DEF PatchInv, RecordInv, DirectoryOK

LEMMA ReadyTyped == Ready \in [at : ApplySteps, journal : Journals]
BY DEF Ready, ApplySteps, Journals, NoJournal, States

\* A transition whose new journal may stand in the directory.
LEMMA TransitionStep ==
  ASSUME PatchInv, NEW o \in Ops, Alone(o), NEW j \in Journals, NEW next \in ApplySteps,
         Transition(o, j, next), Same,
         Informed(j),
         Disk.dest = o => j.state \in Standing,
         j.state = "completed" => Disk.dest = o,
         j.state # "rolled_back",
         (/\ apply'[o] = [at |-> next, journal |-> j]
          /\ Disk'.journal[o] = j
          /\ Disk'.dest = Disk.dest /\ Disk'.receipt = Disk.receipt)
           => AttemptKnows(o)'
  PROVE  PatchInv'
<1>1. PICK result \in Writes :
        /\ WriteJournal(o, j, result)
        /\ apply' = [apply EXCEPT ![o] =
                        IF result = "ok" THEN [at |-> next, journal |-> j] ELSE Ready]
  BY DEF Transition
<1>2. DirectoryOK /\ TypeInv
  BY DEF PatchInv, TypeInv, RecordInv, DirectoryOK
<1>3. /\ DirectoryOK' /\ troubles' \in 0..MaxTroubles
      /\ result = "ok" => /\ Disk'.journal[o] = j
                          /\ Disk'.dest = Disk.dest /\ Disk'.receipt = Disk.receipt
  BY <1>1, <1>2, JournalWritten DEF Same
<1>4. CASE result = "ok"
  <2>1. apply'[o] = [at |-> next, journal |-> j]
    BY <1>1, <1>2, <1>4 DEF TypeInv
  <2>2. AttemptKnows(o)'
    BY <1>3, <1>4, <2>1
  <2>3. [at |-> next, journal |-> j] \in [at : ApplySteps, journal : Journals]
    OBVIOUS
  <2>4. apply' = [apply EXCEPT ![o] = [at |-> next, journal |-> j]]
    BY <1>1, <1>4
  <2> QED BY <1>3, <2>2, <2>3, <2>4, AttemptStep
<1>5. CASE result # "ok"
  <2>1. apply'[o].at = ""
    BY <1>1, <1>2, <1>5 DEF TypeInv, Ready
  <2>2. AttemptKnows(o)'
    BY <2>1 DEF AttemptKnows, BeforeLink, WithOutput, WithReceipt
  <2> QED BY <1>1, <1>3, <1>5, <2>2, AttemptStep, ReadyTyped
<1> QED BY <1>4, <1>5

LEMMA FailStep ==
  ASSUME PatchInv, NEW o \in Ops, Alone(o), Fail(o), Same, Disk.dest # o
  PROVE  PatchInv'
<1> DEFINE j == [apply[o].journal EXCEPT !.state = "failed"]
<1>1. DirectoryOK /\ TypeInv
  BY DEF PatchInv, TypeInv, RecordInv, DirectoryOK
<1>2. j \in Journals /\ j.state = "failed"
  BY <1>1 DEF TypeInv, Journals, States
<1>3. PICK result \in Writes : WriteJournal(o, j, result)
  BY DEF Fail
<1>4. DirectoryOK' /\ troubles' \in 0..MaxTroubles
  BY <1>1, <1>2, <1>3, JournalWritten DEF Standing, Informed, Announced, Same
<1>5. apply' = [apply EXCEPT ![o] = Ready]
  BY DEF Fail
<1>6. AttemptKnows(o)'
  BY <1>1, <1>5 DEF TypeInv, Ready, AttemptKnows, BeforeLink, WithOutput, WithReceipt
<1> QED BY <1>4, <1>5, <1>6, AttemptStep, ReadyTyped

\* The attempt goes on, or ends, with its journal as it is on disk.
LEMMA OnlyApplyStep ==
  ASSUME PatchInv, NEW o \in Ops, Alone(o), DirectoryOK', troubles' \in 0..MaxTroubles, Same,
         NEW at \in ApplySteps, apply' = [apply EXCEPT ![o].at = at],
         apply'[o].journal = apply[o].journal => AttemptKnows(o)'
  PROVE  PatchInv'
<1>1. apply[o] \in [at : ApplySteps, journal : Journals]
  BY DEF PatchInv, TypeInv
<1>2. apply' = [apply EXCEPT ![o] = [apply[o] EXCEPT !.at = at]]
  BY <1>1 DEF PatchInv, TypeInv
<1>3. [apply[o] EXCEPT !.at = at] \in [at : ApplySteps, journal : Journals]
  BY <1>1
<1>4. apply'[o].journal = apply[o].journal
  BY <1>1, <1>2 DEF PatchInv, TypeInv
<1> QED BY <1>2, <1>3, <1>4, AttemptStep

\* What the proofs use of an attempt that is at work.
LEMMA AttemptFacts ==
  ASSUME PatchInv, NEW o \in Ops, Busy(o)
  PROVE  /\ Alone(o) /\ AttemptKnows(o)
         /\ apply[o].journal \in Journals
         /\ DirectoryOK /\ Sound(Disk, unread) /\ Disk \in Directories
<1>1. DirectoryOK
  BY DEF PatchInv, TypeInv, RecordInv, DirectoryOK
<1> QED BY <1>1, BusyAlone, DiskSound DEF PatchInv, TypeInv, RecordInv

LEMMA BeginStep ==
  ASSUME PatchInv, Separate, NEW o \in Ops, Begin(o)
  PROVE  PatchInv'
<1> DEFINE j == [NoJournal EXCEPT !.state = "planned"]
<1>1. Alone(o)
  BY NobodyWorks DEF Begin, Alone
<1>2. j \in Journals /\ j.state = "planned"
  BY DEF NoJournal, Journals, States
<1>3. Disk.dest # o
  BY PatchAssumption DEF Begin, PatchAssumption
<1>4. ASSUME apply'[o] = [at |-> "preparing", journal |-> j], Disk'.journal[o] = j,
             Disk'.dest = Disk.dest
      PROVE  AttemptKnows(o)'
  BY <1>2, <1>3, <1>4
     DEF AttemptKnows, BeforeLink, WithOutput, WithReceipt, Terminal
<1> QED BY <1>1, <1>2, <1>3, <1>4, TransitionStep
        DEF Begin, Standing, Informed, Announced, ApplySteps

LEMMA PrepareStep ==
  ASSUME PatchInv, NEW o \in Ops, Prepare(o)
  PROVE  PatchInv'
<1> DEFINE j == [apply[o].journal EXCEPT !.state = "preparing"]
<1>1. Busy(o)
  BY DEF Prepare, At, Busy
<1>2. j \in Journals /\ j.state = "preparing"
  BY <1>1, AttemptFacts DEF Journals, States
<1>3. Disk.dest # o
  BY <1>1, AttemptFacts DEF Prepare, At, AttemptKnows, BeforeLink
<1>4. ASSUME apply'[o] = [at |-> "producing", journal |-> j], Disk'.journal[o] = j,
             Disk'.dest = Disk.dest
      PROVE  AttemptKnows(o)'
  BY <1>2, <1>3, <1>4
     DEF AttemptKnows, BeforeLink, WithOutput, WithReceipt, Terminal
<1> QED BY <1>1, <1>2, <1>3, <1>4, AttemptFacts, TransitionStep
        DEF Prepare, Standing, Informed, Announced, ApplySteps

LEMMA ProduceStep ==
  ASSUME PatchInv, NEW o \in Ops, Produce(o)
  PROVE  PatchInv'
<1> DEFINE j == [apply[o].journal EXCEPT !.state = "prepared", !.output = TRUE]
<1>1. Busy(o)
  BY DEF Produce, At, Busy
<1>2. j \in Journals /\ j.state = "prepared" /\ j.output
  BY <1>1, AttemptFacts DEF Journals, States
<1> HIDE DEF j
<1>3. Disk.dest # o
  BY <1>1, AttemptFacts DEF Produce, At, AttemptKnows, BeforeLink
<1>4. ASSUME apply'[o] = [at |-> "announcing", journal |-> j], Disk'.journal[o] = j,
             Disk'.dest = Disk.dest
      PROVE  AttemptKnows(o)'
  BY <1>2, <1>3, <1>4
     DEF AttemptKnows, BeforeLink, WithOutput, WithReceipt, Terminal
<1>5. CASE Transition(o, j, "announcing")
  BY <1>1, <1>2, <1>3, <1>4, <1>5, AttemptFacts, TransitionStep
     DEF Produce, Standing, Informed, Announced, ApplySteps
<1>6. CASE Fail(o)
  BY <1>1, <1>3, <1>6, AttemptFacts, FailStep DEF Produce
<1> QED BY <1>5, <1>6 DEF Produce, j

LEMMA AnnounceTemporaryStep ==
  ASSUME PatchInv, NEW o \in Ops, AnnounceTemporary(o)
  PROVE  PatchInv'
<1> DEFINE j == [apply[o].journal EXCEPT !.state = "verifying_temporary"]
<1>1. Busy(o)
  BY DEF AnnounceTemporary, At, Busy
<1>2. j \in Journals /\ j.state = "verifying_temporary" /\ j.output
  BY <1>1, AttemptFacts DEF Journals, States, AnnounceTemporary, At, AttemptKnows, WithOutput
<1> HIDE DEF j
<1>3. Disk.dest # o
  BY <1>1, AttemptFacts DEF AnnounceTemporary, At, AttemptKnows, BeforeLink
<1>4. ASSUME apply'[o] = [at |-> "writing", journal |-> j], Disk'.journal[o] = j,
             Disk'.dest = Disk.dest
      PROVE  AttemptKnows(o)'
  BY <1>2, <1>3, <1>4
     DEF AttemptKnows, BeforeLink, WithOutput, WithReceipt, Terminal
<1> QED BY <1>1, <1>2, <1>3, <1>4, AttemptFacts, TransitionStep
        DEF AnnounceTemporary, Standing, Informed, Announced, ApplySteps, j

\* A temporary file of an attempt whose journal is not terminal is harmless.
LEMMA SoundTemporary ==
  ASSUME DirectoryOK, NEW o \in Ops, NEW left \in {"absent", "partial", "whole"},
         left = "absent" \/ Disk.journal[o].state # "rolled_back"
  PROVE  /\ [Disk EXCEPT !.temp[o] = left] \in Directories
         /\ Sound([Disk EXCEPT !.temp[o] = left], unread)
<1> DEFINE d == [Disk EXCEPT !.temp[o] = left]
<1>1. Disk \in Directories /\ Sound(Disk, unread)
  BY DiskSound
<1>2. d \in Directories
  BY <1>1 DEF Directories
<1>3. /\ d.dest = Disk.dest /\ d.receipt = Disk.receipt /\ d.journal = Disk.journal
      /\ d.temp[o] = left
      /\ \A p \in Ops : p # o => d.temp[p] = Disk.temp[p]
  BY <1>1 DEF Directories
<1> QED BY <1>1, <1>2, <1>3 DEF Sound

LEMMA WriteTemporaryStep ==
  ASSUME PatchInv, NEW o \in Ops, WriteTemporary(o)
  PROVE  PatchInv'
<1>1. Busy(o) /\ apply[o].at = "writing"
  BY DEF WriteTemporary, At, Busy
<1>2. /\ Disk.journal[o].state \notin Terminal /\ Disk.dest # o
      /\ apply[o].journal.output
  BY <1>1, AttemptFacts DEF AttemptKnows, BeforeLink, WithOutput
<1>3. PICK left \in {"absent", "partial", "whole"}, at \in {"finalising", "failing"} :
        /\ Becomes([Disk EXCEPT !.temp[o] = left])
        /\ apply' = [apply EXCEPT ![o].at = at]
        /\ troubles' \in 0..MaxTroubles
  <2>1. UNCHANGED troubles => troubles' \in 0..MaxTroubles
    BY DEF PatchInv, TypeInv
  <2>2. Spend(1) => troubles' \in 0..MaxTroubles
    BY SpendOK DEF PatchInv
  <2> QED BY <2>1, <2>2 DEF WriteTemporary
<1> DEFINE d == [Disk EXCEPT !.temp[o] = left]
<1>4. d \in Directories /\ Sound(d, unread)
  BY <1>1, <1>2, AttemptFacts, SoundTemporary DEF Terminal
<1>5. DirectoryOK' /\ Disk' = d
  BY <1>1, <1>3, <1>4, AttemptFacts, NewState DEF Becomes, WriteTemporary, Same
<1>6. /\ Disk'.dest = Disk.dest /\ Disk'.journal = Disk.journal
  BY <1>1, <1>5, AttemptFacts DEF Directories
<1>7. apply'[o].at = at
  BY <1>3 DEF PatchInv, TypeInv
<1>8. apply'[o].journal = apply[o].journal => AttemptKnows(o)'
  BY <1>2, <1>6, <1>7 DEF AttemptKnows, BeforeLink, WithOutput, WithReceipt
<1> QED BY <1>1, <1>3, <1>5, <1>8, AttemptFacts, OnlyApplyStep
        DEF WriteTemporary, ApplySteps

\* The receipt appears where none was, of an attempt that has not ended.
LEMMA SoundReceipt ==
  ASSUME DirectoryOK, NEW o \in Ops, Disk.receipt = "absent",
         Disk.journal[o].state \notin Terminal
  PROVE  /\ [Disk EXCEPT !.receipt = o] \in Directories
         /\ Sound([Disk EXCEPT !.receipt = o], unread)
<1> DEFINE d == [Disk EXCEPT !.receipt = o]
<1>1. Disk \in Directories /\ Sound(Disk, unread)
  BY DiskSound
<1>2. d \in Directories
  BY <1>1 DEF Directories
<1>3. /\ d.dest = Disk.dest /\ d.temp = Disk.temp /\ d.journal = Disk.journal
      /\ d.receipt = o
  BY <1>1 DEF Directories
<1>4. Disk.dest \notin Ops
  BY <1>1, PatchAssumption DEF Sound, PatchAssumption
<1> QED BY <1>1, <1>2, <1>3, <1>4 DEF Sound, Terminal

LEMMA FinaliseReceiptStep ==
  ASSUME PatchInv, NEW o \in Ops, FinaliseReceipt(o)
  PROVE  PatchInv'
<1>1. Busy(o) /\ apply[o].at = "finalising"
  BY DEF FinaliseReceipt, At, Busy
<1>2. /\ Disk.journal[o].state \notin Terminal /\ Disk.dest # o
      /\ apply[o].journal.output /\ apply[o].journal \in Journals
      /\ DirectoryOK /\ Alone(o) /\ Disk \in Directories
  BY <1>1, AttemptFacts DEF AttemptKnows, BeforeLink, WithOutput
<1> DEFINE d == [Disk EXCEPT !.receipt = o]
<1>3. ASSUME Disk.receipt = "absent", Becomes(d)
      PROVE  /\ DirectoryOK' /\ Disk'.receipt = o
             /\ Disk'.dest = Disk.dest /\ Disk'.journal = Disk.journal
  <2>1. d \in Directories /\ Sound(d, unread)
    BY <1>2, <1>3, SoundReceipt
  <2>2. DirectoryOK' /\ Disk' = d
    BY <1>2, <1>3, <2>1, NewState DEF Becomes, FinaliseReceipt, Same
  <2> QED BY <1>2, <2>2 DEF Directories
<1>4. ASSUME UNCHANGED directory
      PROVE  /\ DirectoryOK' /\ Disk'.dest = Disk.dest /\ Disk'.journal = Disk.journal
  BY <1>2, <1>4, SameDirectory DEF FinaliseReceipt, Same
<1>5. troubles' \in 0..MaxTroubles
  BY SpendOK DEF FinaliseReceipt, PatchInv, TypeInv
<1>6. CASE /\ Disk.receipt = "absent" /\ Becomes(d)
           /\ apply' = [apply EXCEPT ![o] =
                [at |-> "publishing", journal |-> [@.journal EXCEPT !.receipt = TRUE]]]
  <2> DEFINE a == [at |-> "publishing", journal |-> [apply[o].journal EXCEPT !.receipt = TRUE]]
  <2>1. a \in [at : ApplySteps, journal : Journals] /\ a.journal.output /\ a.journal.receipt
    BY <1>2 DEF ApplySteps, Journals
  <2>2. apply' = [apply EXCEPT ![o] = a]
    BY <1>6
  <2> HIDE DEF a
  <2>3. apply'[o] = a
    BY <2>2 DEF PatchInv, TypeInv
  <2>4. a.at = "publishing"
    BY DEF a
  <2>5. AttemptKnows(o)'
    BY <1>2, <1>3, <1>6, <2>1, <2>3, <2>4
       DEF AttemptKnows, BeforeLink, WithOutput, WithReceipt
  <2> QED BY <1>2, <1>3, <1>5, <1>6, <2>1, <2>2, <2>5, AttemptStep DEF FinaliseReceipt
<1>7. CASE /\ apply' = [apply EXCEPT ![o].at = "failing"]
           /\ \/ UNCHANGED directory
              \/ Disk.receipt = "absent" /\ Becomes(d)
  <2>1. DirectoryOK' /\ Disk'.dest = Disk.dest /\ Disk'.journal = Disk.journal
    BY <1>3, <1>4, <1>7
  <2>2. apply'[o].at = "failing"
    BY <1>7 DEF PatchInv, TypeInv
  <2>3. AttemptKnows(o)'
    BY <1>2, <2>1, <2>2 DEF AttemptKnows, BeforeLink, WithOutput, WithReceipt
  <2> QED BY <1>2, <1>5, <1>7, <2>1, <2>3, OnlyApplyStep DEF FinaliseReceipt, ApplySteps
<1> QED BY <1>6, <1>7 DEF FinaliseReceipt

LEMMA RecordFailureStep ==
  ASSUME PatchInv, NEW o \in Ops, RecordFailure(o)
  PROVE  PatchInv'
<1>1. Busy(o) /\ apply[o].at = "failing"
  BY DEF RecordFailure, At, Busy
<1>2. Alone(o) /\ Disk.dest # o
  BY <1>1, AttemptFacts DEF AttemptKnows, BeforeLink
<1> QED BY <1>2, FailStep DEF RecordFailure

\* The three transitions that announce, record and verify the publication.
LEMMA PublicationStep ==
  ASSUME PatchInv, NEW o \in Ops, apply[o].at \in {"publishing", "recording", "verifying"},
         NEW state \in Announced, NEW next \in {"linking", "verifying", "checking"},
         Transition(o, [apply[o].journal EXCEPT !.state = state], next), Same,
         next = "linking" <=> apply[o].at = "publishing",
         next = "linking" => state = "publishing"
  PROVE  PatchInv'
<1> DEFINE j == [apply[o].journal EXCEPT !.state = state]
<1>1. Busy(o)
  BY DEF Busy
<1>2. /\ apply[o].journal.output /\ apply[o].journal.receipt /\ Disk.receipt = o
      /\ apply[o].at = "publishing" => Disk.dest # o
      /\ apply[o].at # "publishing" => Disk.dest = o
  BY <1>1, AttemptFacts DEF AttemptKnows, WithOutput, WithReceipt, BeforeLink
<1>3. j \in Journals /\ j.state = state /\ j.output /\ j.receipt
  BY <1>1, <1>2, AttemptFacts DEF Journals, States, Announced
<1> HIDE DEF j
<1>4. ASSUME apply'[o] = [at |-> next, journal |-> j], Disk'.journal[o] = j,
             Disk'.dest = Disk.dest, Disk'.receipt = Disk.receipt
      PROVE  AttemptKnows(o)'
  <2>1. apply'[o].at = next /\ apply'[o].journal = j
    BY <1>4
  <2>2. CASE next = "linking"
    BY <1>2, <1>3, <1>4, <2>1, <2>2
       DEF AttemptKnows, BeforeLink, WithOutput, WithReceipt, Terminal
  <2>3. CASE next \in {"verifying", "checking"}
    BY <1>2, <1>3, <1>4, <2>1, <2>3
       DEF AttemptKnows, BeforeLink, WithOutput, WithReceipt, Terminal, Announced
  <2> QED BY <2>2, <2>3
<1> QED BY <1>1, <1>3, <1>4, AttemptFacts, TransitionStep
        DEF Standing, Informed, Announced, ApplySteps, j

\* The output appears where nothing was, announced and with its receipt.
LEMMA SoundLink ==
  ASSUME DirectoryOK, NEW o \in Ops, CanLink, Disk.receipt = o,
         Disk.journal[o].state = "publishing"
  PROVE  /\ [Disk EXCEPT !.dest = o] \in Directories
         /\ Sound([Disk EXCEPT !.dest = o], unread)
<1> DEFINE d == [Disk EXCEPT !.dest = o]
<1>1. Disk \in Directories /\ Sound(Disk, unread)
  BY DiskSound
<1>2. d \in Directories
  BY <1>1 DEF Directories
<1>3. /\ d.receipt = Disk.receipt /\ d.temp = Disk.temp /\ d.journal = Disk.journal
      /\ d.dest = o
  BY <1>1 DEF Directories
<1>4. \A p \in Ops : Disk.journal[p].state # "completed"
  BY <1>1, PatchAssumption DEF CanLink, Sound, PatchAssumption
<1> QED BY <1>1, <1>2, <1>3, <1>4 DEF Sound, Standing, Announced

LEMMA LinkStep ==
  ASSUME PatchInv, NEW o \in Ops, Link(o)
  PROVE  PatchInv'
<1>1. Busy(o) /\ apply[o].at = "linking"
  BY DEF Link, At, Busy
<1>2. /\ Disk.journal[o].state = "publishing" /\ Disk.dest # o /\ Disk.receipt = o
      /\ apply[o].journal.output /\ apply[o].journal.receipt
      /\ DirectoryOK /\ Alone(o) /\ Disk \in Directories
  BY <1>1, AttemptFacts DEF AttemptKnows, BeforeLink, WithOutput, WithReceipt
<1> DEFINE d == [Disk EXCEPT !.dest = o]
<1>3. troubles' \in 0..MaxTroubles
  BY SpendOK DEF Link, PatchInv, TypeInv
<1>4. CASE CanLink /\ Becomes(d) /\ apply' = [apply EXCEPT ![o].at = "recording"]
  <2>1. d \in Directories /\ Sound(d, unread)
    BY <1>2, <1>4, SoundLink
  <2>2. DirectoryOK' /\ Disk' = d
    BY <1>2, <1>4, <2>1, NewState DEF Becomes, Link, Same
  <2>3. Disk'.dest = o /\ Disk'.receipt = Disk.receipt /\ Disk'.journal = Disk.journal
    BY <1>2, <2>2 DEF Directories
  <2>4. apply'[o].at = "recording"
    BY <1>4 DEF PatchInv, TypeInv
  <2>5. apply'[o].journal = apply[o].journal => AttemptKnows(o)'
    BY <1>2, <2>3, <2>4
       DEF AttemptKnows, BeforeLink, WithOutput, WithReceipt, Terminal
  <2> QED BY <1>2, <1>3, <1>4, <2>2, <2>5, OnlyApplyStep DEF Link, ApplySteps
<1>5. CASE UNCHANGED directory /\ apply' = [apply EXCEPT ![o].at = "failing"]
  <2>1. DirectoryOK' /\ Disk' = Disk
    BY <1>2, <1>5, SameDirectory DEF Link, Same
  <2>2. apply'[o].at = "failing"
    BY <1>5 DEF PatchInv, TypeInv
  <2>3. AttemptKnows(o)'
    BY <1>2, <2>1, <2>2
       DEF AttemptKnows, BeforeLink, WithOutput, WithReceipt, Terminal
  <2> QED BY <1>2, <1>3, <1>5, <2>1, <2>3, OnlyApplyStep DEF Link, ApplySteps
<1> QED BY <1>4, <1>5 DEF Link

\* An attempt that returns leaves the directory as it is.
LEMMA ReturnStep ==
  ASSUME PatchInv, NEW o \in Ops, Alone(o), DirectoryOK', troubles' \in 0..MaxTroubles,
         apply' = [apply EXCEPT ![o] = Ready], Same
  PROVE  PatchInv'
<1>1. apply'[o].at = ""
  BY DEF PatchInv, TypeInv, Ready
<1>2. AttemptKnows(o)'
  BY <1>1 DEF AttemptKnows, BeforeLink, WithOutput, WithReceipt
<1> QED BY <1>2, ReadyTyped, AttemptStep

LEMMA CompleteStep ==
  ASSUME PatchInv, NEW o \in Ops, Complete(o)
  PROVE  PatchInv'
<1> DEFINE j == [apply[o].journal EXCEPT !.state = "completed"]
<1>1. Busy(o) /\ apply[o].at = "checking"
  BY DEF Complete, At, Busy
<1>2. /\ apply[o].journal.output /\ apply[o].journal.receipt /\ Disk.receipt = o
      /\ Disk.dest = o /\ Alone(o) /\ DirectoryOK
  BY <1>1, AttemptFacts DEF AttemptKnows, WithOutput, WithReceipt
<1>3. j \in Journals /\ j.state = "completed" /\ j.output /\ j.receipt
  BY <1>1, <1>2, AttemptFacts DEF Journals, States
<1> HIDE DEF j
<1>4. CASE Transition(o, j, "cleaning")
  <2>1. ASSUME apply'[o] = [at |-> "cleaning", journal |-> j], Disk'.journal[o] = j,
               Disk'.dest = Disk.dest
        PROVE  AttemptKnows(o)'
    BY <1>2, <1>3, <2>1 DEF AttemptKnows, BeforeLink, WithOutput, WithReceipt
  <2> QED BY <1>2, <1>3, <1>4, <2>1, TransitionStep
          DEF Complete, Standing, Informed, Announced, ApplySteps
<1>5. CASE /\ apply' = [apply EXCEPT ![o] = Ready] /\ UNCHANGED directory
           /\ Mismatches(Disk.dest \in Ops)
  <2>1. DirectoryOK'
    BY <1>2, <1>5, SameDirectory DEF Complete, Same
  <2>2. troubles' \in 0..MaxTroubles
    BY <1>5, MismatchesOK DEF PatchInv
  <2> QED BY <1>2, <1>5, <2>1, <2>2, ReturnStep DEF Complete
<1> QED BY <1>4, <1>5 DEF Complete, j

LEMMA CleanStep ==
  ASSUME PatchInv, NEW o \in Ops, Clean(o)
  PROVE  PatchInv'
<1>1. Busy(o) /\ apply[o].at = "cleaning"
  BY DEF Clean, At, Busy
<1>2. Alone(o) /\ DirectoryOK /\ apply' = [apply EXCEPT ![o] = Ready] /\ Same
  BY <1>1, AttemptFacts DEF Clean
<1>3. troubles' \in 0..MaxTroubles
  BY SpendOK DEF Clean, PatchInv, TypeInv
<1>4. CASE Becomes(Removed(Disk, o, "temp"))
  <2> DEFINE d == [Disk EXCEPT !.temp[o] = "absent"]
  <2>1. d \in Directories /\ Sound(d, unread)
    BY <1>2, SoundTemporary
  <2>2. Becomes(d)
    BY <1>4 DEF Removed
  <2>3. DirectoryOK'
    BY <1>2, <2>1, <2>2, NewState DEF Becomes, Same
  <2> QED BY <1>2, <1>3, <2>3, ReturnStep
<1>5. CASE UNCHANGED directory
  BY <1>2, <1>3, <1>5, SameDirectory, ReturnStep DEF Same
<1> QED BY <1>4, <1>5 DEF Clean

LEMMA ApplyStep ==
  ASSUME PatchInv, Separate, NEW o \in Ops, Apply(o)
  PROVE  PatchInv'
<1>1. CASE AnnouncePublication(o)
  BY <1>1, PublicationStep DEF AnnouncePublication, At, Announced
<1>2. CASE RecordPublished(o)
  BY <1>2, PublicationStep DEF RecordPublished, At, Announced
<1>3. CASE AnnounceVerification(o)
  BY <1>3, PublicationStep DEF AnnounceVerification, At, Announced
<1> QED BY <1>1, <1>2, <1>3, BeginStep, PrepareStep, ProduceStep, AnnounceTemporaryStep,
           WriteTemporaryStep, FinaliseReceiptStep, RecordFailureStep, LinkStep,
           CompleteStep, CleanStep
        DEF Apply

----------------------------------------------------------------------------
(* The steps of a recovery *)

Solitary(w) == (\A o \in Ops : ~Busy(o)) /\ (\A v \in Workers : Recovering(v) => v = w)

\* What the proofs use of a recovery that is at work.
LEMMA RecoveryFacts ==
  ASSUME PatchInv, NEW w \in Workers, Recovering(w)
  PROVE  /\ Solitary(w) /\ RecoveryKnows(w)
         /\ recover[w].op \in Ops /\ recover[w].journal \in Journals
         /\ DirectoryOK /\ Sound(Disk, unread) /\ Disk \in Directories
         /\ TypeInv
<1>1. DirectoryOK
  BY DEF PatchInv, TypeInv, RecordInv, DirectoryOK
<1>2. Solitary(w) /\ RecoveryKnows(w)
  BY DEF PatchInv, RecordInv, Exclusive, Solitary
<1> QED BY <1>1, <1>2, DiskSound DEF PatchInv, TypeInv, RecordInv

LEMMA NoJournalTyped == NoJournal \in Journals
BY DEF NoJournal, Journals, States

LEMMA IdleTyped ==
  /\ Idle \in [at : RecoverSteps, op : Ops \cup {"none"}, journal : Journals]
  /\ Idle.at = ""
BY NoJournalTyped DEF Idle, RecoverSteps

LEMMA NoPlanTyped ==
  NoPlan \in [op : Ops \cup {"none"}, action : Actions \cup {"none"},
              state : States, matches : BOOLEAN]
BY DEF NoPlan, States

\* A recovery that works alone disturbs nobody.
LEMMA RecoveryStep ==
  ASSUME PatchInv, NEW w \in Workers, Solitary(w), DirectoryOK', troubles' \in 0..MaxTroubles,
         NEW r \in [at : RecoverSteps, op : Ops, journal : Journals] \cup {Idle},
         r = Idle \/ r.at # "",
         recover' = [recover EXCEPT ![w] = r], UNCHANGED <<changed, apply>>,
         plans' = plans \/ plans' = [plans EXCEPT ![w] = NoPlan],
         r # Idle => RecoveryKnows(w)'
  PROVE  PatchInv'
<1>1. r \in [at : RecoverSteps, op : Ops \cup {"none"}, journal : Journals]
  BY IdleTyped
<1>2. /\ recover'[w] = r
      /\ \A v \in Workers : v # w => recover'[v] = recover[v]
  BY DEF PatchInv, TypeInv
<1>3. \A v \in Workers : v # w => ~Recovering(v) /\ ~Recovering(v)'
  BY <1>2 DEF Solitary, Recovering
<1>4. r = Idle <=> ~Recovering(w)'
  BY <1>2, IdleTyped DEF Recovering
<1>5. TypeInv'
  <2>1. recover' \in [Workers -> [at : RecoverSteps, op : Ops \cup {"none"}, journal : Journals]]
    BY <1>1 DEF PatchInv, TypeInv
  <2>2. \A v \in Workers : IF Recovering(v)' THEN recover'[v].op \in Ops ELSE recover'[v] = Idle
    BY <1>2, <1>3, <1>4 DEF PatchInv, TypeInv
  <2>3. /\ plans' \in [Workers -> [op : Ops \cup {"none"}, action : Actions \cup {"none"},
                                    state : States, matches : BOOLEAN]]
        /\ \A v \in Workers :
             plans'[v] = NoPlan \/ (plans'[v].op \in Ops /\ plans'[v].action \in Actions)
    BY NoPlanTyped DEF PatchInv, TypeInv
  <2> QED BY <2>1, <2>2, <2>3 DEF PatchInv, TypeInv, DirectoryOK, Recovering
<1>6. \A o \in Ops : ~Busy(o)' /\ AttemptKnows(o)'
  BY DEF Solitary, Busy, AttemptKnows, BeforeLink, WithOutput, WithReceipt
<1>7. Exclusive'
  BY <1>3, <1>6 DEF Exclusive
<1> QED BY <1>3, <1>4, <1>5, <1>6, <1>7 DEF PatchInv, RecordInv, DirectoryOK

\* A recovery that returns leaves a sound directory.
LEMMA RecoveryReturns ==
  ASSUME PatchInv, NEW w \in Workers, Solitary(w), DirectoryOK', troubles' \in 0..MaxTroubles,
         Return(w), UNCHANGED <<changed, apply, plans>>
  PROVE  PatchInv'
BY RecoveryStep DEF Return

\* A transition of a recovery whose new journal may stand in the directory.
LEMMA MoveStep ==
  ASSUME PatchInv, NEW w \in Workers, Recovering(w), NEW state \in States \ {"rolled_back"},
         NEW next \in RecoverSteps \ {""}, Move(w, state, next), Rest,
         recover[w].at \in Announcing,
         Disk.dest = recover[w].op => state \in Standing,
         state = "completed" => Disk.dest = recover[w].op,
         (/\ recover'[w].at = next /\ recover'[w].op = recover[w].op
          /\ recover'[w].journal.output /\ recover'[w].journal.receipt
          /\ Disk'.journal[recover[w].op].state = state
          /\ Disk'.dest = Disk.dest /\ Disk'.receipt = Disk.receipt /\ Disk'.temp = Disk.temp)
           => RecoveryKnows(w)'
  PROVE  PatchInv'
<1> DEFINE r == recover[w]
           j == [r.journal EXCEPT !.state = state]
<1>1. /\ Solitary(w) /\ DirectoryOK /\ TypeInv /\ r.op \in Ops /\ r.journal \in Journals
      /\ r.journal.output /\ r.journal.receipt
  BY RecoveryFacts DEF RecoveryKnows
<1>2. j \in Journals /\ j.state = state /\ j.output /\ j.receipt
  BY <1>1 DEF Journals
<1>3. PICK result \in Writes :
        /\ WriteJournal(r.op, j, result)
        /\ recover' = [recover EXCEPT ![w] =
              IF result = "ok" THEN [r EXCEPT !.at = next, !.journal = j] ELSE Idle]
  BY DEF Move
<1> HIDE DEF j
<1>4. /\ DirectoryOK' /\ troubles' \in 0..MaxTroubles
      /\ result = "ok" => /\ Disk'.journal[r.op] = j
                          /\ Disk'.dest = Disk.dest /\ Disk'.receipt = Disk.receipt
                          /\ Disk'.temp = Disk.temp
  BY <1>1, <1>2, <1>3, JournalWritten DEF Informed, Rest
<1>5. CASE result = "ok"
  <2> DEFINE s == [r EXCEPT !.at = next, !.journal = j]
  <2>1. /\ s \in [at : RecoverSteps, op : Ops, journal : Journals]
        /\ s.at = next /\ s.op = r.op /\ s.journal = j
    BY <1>1, <1>2 DEF TypeInv
  <2>2. recover' = [recover EXCEPT ![w] = s]
    BY <1>3, <1>5
  <2> HIDE DEF s
  <2>3. recover'[w] = s
    BY <1>1, <2>2 DEF TypeInv
  <2>4. RecoveryKnows(w)'
    BY <1>2, <1>4, <1>5, <2>1, <2>3
  <2> QED BY <1>1, <1>4, <2>1, <2>2, <2>4, RecoveryStep DEF Rest
<1>6. CASE result # "ok"
  BY <1>1, <1>3, <1>4, <1>6, RecoveryReturns DEF Return, Rest
<1> QED BY <1>5, <1>6

\* The recovery goes to its next step.
LEMMA OnStep ==
  ASSUME PatchInv, NEW w \in Workers, Recovering(w), NEW next \in RecoverSteps \ {""},
         DirectoryOK', troubles' \in 0..MaxTroubles, Step(w, next),
         UNCHANGED <<changed, apply, plans>>,
         (/\ recover'[w].at = next /\ recover'[w].op = recover[w].op
          /\ recover'[w].journal = recover[w].journal)
           => RecoveryKnows(w)'
  PROVE  PatchInv'
<1> DEFINE s == [recover[w] EXCEPT !.at = next]
<1>1. Solitary(w) /\ TypeInv /\ recover[w].op \in Ops /\ recover[w].journal \in Journals
  BY RecoveryFacts
<1>2. /\ s \in [at : RecoverSteps, op : Ops, journal : Journals]
      /\ s.at = next /\ s.op = recover[w].op /\ s.journal = recover[w].journal
  BY <1>1 DEF TypeInv
<1>3. recover' = [recover EXCEPT ![w] = s]
  BY <1>1 DEF Step, TypeInv
<1> HIDE DEF s
<1>4. recover'[w] = s
  BY <1>1, <1>3 DEF TypeInv
<1> QED BY <1>1, <1>2, <1>3, <1>4, RecoveryStep

LEMMA ResumeMoveStep ==
  ASSUME PatchInv, NEW w \in Workers,
         ResumeAnnounce(w) \/ ResumeRecord(w) \/ RollBack(w)
  PROVE  PatchInv'
<1>1. Recovering(w) /\ recover[w].at \in {"announce", "record", "roll back"}
  BY DEF ResumeAnnounce, ResumeRecord, RollBack, Doing, Recovering
<1>2. /\ RecoveryKnows(w) /\ Disk.receipt = recover[w].op
      /\ recover[w].at = "roll back" => Disk.dest = recover[w].op
  BY <1>1, RecoveryFacts DEF RecoveryKnows, Resuming
<1>3. CASE ResumeAnnounce(w)
  <2>1. (/\ recover'[w].at = "link" /\ recover'[w].op = recover[w].op
         /\ recover'[w].journal.output /\ recover'[w].journal.receipt
         /\ Disk'.journal[recover[w].op].state = "publishing"
         /\ Disk'.dest = Disk.dest /\ Disk'.receipt = Disk.receipt)
         => RecoveryKnows(w)'
    BY <1>2 DEF RecoveryKnows, Resuming, Removing, Announcing, Terminal
  <2> QED BY <1>1, <1>3, <2>1, MoveStep
          DEF ResumeAnnounce, Doing, Announcing, Resuming, Standing, Informed, Announced, States,
              RecoverSteps
<1>4. CASE ResumeRecord(w)
  <2>1. (/\ recover'[w].at = "verify" /\ recover'[w].op = recover[w].op
         /\ recover'[w].journal.output /\ recover'[w].journal.receipt
         /\ Disk'.journal[recover[w].op].state = "published"
         /\ Disk'.dest = Disk.dest /\ Disk'.receipt = Disk.receipt)
         => RecoveryKnows(w)'
    BY <1>2 DEF RecoveryKnows, Resuming, Removing, Announcing, Terminal
  <2> QED BY <1>1, <1>4, <2>1, MoveStep
          DEF ResumeRecord, Doing, Announcing, Resuming, Standing, Informed, Announced, States,
              RecoverSteps
<1>5. CASE RollBack(w)
  <2>1. (/\ recover'[w].at = "remove dest" /\ recover'[w].op = recover[w].op
         /\ recover'[w].journal.output /\ recover'[w].journal.receipt
         /\ Disk'.journal[recover[w].op].state = "rolling_back"
         /\ Disk'.dest = Disk.dest /\ Disk'.receipt = Disk.receipt)
         => RecoveryKnows(w)'
    BY <1>1, <1>2, <1>5
       DEF RollBack, Doing, RecoveryKnows, Resuming, Removing, Announcing, Terminal
  <2> QED BY <1>1, <1>5, <2>1, MoveStep
          DEF RollBack, Doing, Announcing, Resuming, Standing, Informed, Announced, States, RecoverSteps
<1> QED BY <1>3, <1>4, <1>5

LEMMA ResumeLinkStep ==
  ASSUME PatchInv, NEW w \in Workers, ResumeLink(w)
  PROVE  PatchInv'
<1> DEFINE o == recover[w].op
           d == [Disk EXCEPT !.dest = o]
<1>1. Recovering(w) /\ recover[w].at = "link"
  BY DEF ResumeLink, Doing, Recovering
<1>2. /\ Disk.journal[o].state = "publishing" /\ Disk.receipt = o
      /\ recover[w].journal.output /\ recover[w].journal.receipt
      /\ DirectoryOK /\ Solitary(w) /\ Disk \in Directories /\ o \in Ops
  BY <1>1, RecoveryFacts DEF RecoveryKnows, Resuming, Announcing
<1>3. troubles' \in 0..MaxTroubles
  BY SpendOK DEF ResumeLink, PatchInv, TypeInv
<1>4. CASE CanLink /\ Becomes(d) /\ Step(w, "record")
  <2>1. d \in Directories /\ Sound(d, unread)
    BY <1>2, <1>4, SoundLink
  <2>2. DirectoryOK' /\ Disk' = d
    BY <1>2, <1>4, <2>1, NewState DEF Becomes, ResumeLink, Rest
  <2>3. Disk'.dest = o /\ Disk'.receipt = Disk.receipt /\ Disk'.journal = Disk.journal
    BY <1>2, <2>2 DEF Directories
  <2>4. (/\ recover'[w].at = "record" /\ recover'[w].op = o
         /\ recover'[w].journal = recover[w].journal) => RecoveryKnows(w)'
    BY <1>2, <2>3 DEF RecoveryKnows, Resuming, Removing, Announcing, Terminal
  <2> QED BY <1>1, <1>3, <1>4, <2>2, <2>4, OnStep DEF ResumeLink, RecoverSteps, Rest
<1>5. CASE UNCHANGED directory /\ Return(w)
  BY <1>2, <1>3, <1>5, SameDirectory, RecoveryReturns DEF ResumeLink, Rest
<1> QED BY <1>4, <1>5 DEF ResumeLink

LEMMA ResumeVerifyStep ==
  ASSUME PatchInv, NEW w \in Workers, ResumeVerify(w)
  PROVE  PatchInv'
<1>1. Recovering(w) /\ recover[w].at = "verify"
  BY DEF ResumeVerify, Doing, Recovering
<1>2. /\ Disk.receipt = recover[w].op /\ Solitary(w) /\ DirectoryOK /\ Sound(Disk, unread)
      /\ recover[w].op \in Ops
  BY <1>1, RecoveryFacts DEF RecoveryKnows, Resuming
<1>3. CASE Disk.dest \in Ops /\ Move(w, "verifying_published", "complete")
  <2>1. Disk.dest = recover[w].op
    BY <1>2, <1>3 DEF Sound
  <2>2. (/\ recover'[w].at = "complete" /\ recover'[w].op = recover[w].op
         /\ recover'[w].journal.output /\ recover'[w].journal.receipt
         /\ Disk'.journal[recover[w].op].state = "verifying_published"
         /\ Disk'.dest = Disk.dest /\ Disk'.receipt = Disk.receipt)
         => RecoveryKnows(w)'
    BY <1>2, <2>1 DEF RecoveryKnows, Resuming, Removing, Announcing, Terminal
  <2> QED BY <1>1, <1>3, <2>1, <2>2, MoveStep
          DEF ResumeVerify, Announcing, Resuming, Standing, Informed, Announced, States, RecoverSteps
<1>4. CASE Mismatches(Disk.dest \in Ops) /\ Return(w) /\ UNCHANGED directory
  <2>1. troubles' \in 0..MaxTroubles
    BY <1>4, MismatchesOK DEF PatchInv
  <2> QED BY <1>2, <1>4, <2>1, SameDirectory, RecoveryReturns DEF ResumeVerify, Rest
<1> QED BY <1>3, <1>4 DEF ResumeVerify

LEMMA ResumeCompleteStep ==
  ASSUME PatchInv, NEW w \in Workers, ResumeComplete(w)
  PROVE  PatchInv'
<1>1. Recovering(w) /\ recover[w].at = "complete"
  BY DEF ResumeComplete, Doing, Recovering
<1>2. /\ Disk.receipt = recover[w].op /\ Disk.dest = recover[w].op
      /\ Solitary(w) /\ DirectoryOK
  BY <1>1, RecoveryFacts DEF RecoveryKnows, Resuming
<1>3. CASE Move(w, "completed", "clean")
  <2>1. (/\ recover'[w].at = "clean" /\ recover'[w].op = recover[w].op
         /\ Disk'.journal[recover[w].op].state = "completed")
         => RecoveryKnows(w)'
    BY DEF RecoveryKnows, Resuming, Removing, Announcing
  <2> QED BY <1>1, <1>2, <1>3, <2>1, MoveStep
          DEF ResumeComplete, Announcing, Resuming, Standing, Informed, States, RecoverSteps
<1>4. CASE /\ Mismatches(Disk.receipt = recover[w].op)
           /\ Return(w) /\ UNCHANGED directory
  <2>1. troubles' \in 0..MaxTroubles
    BY <1>4, MismatchesOK DEF PatchInv
  <2> QED BY <1>2, <1>4, <2>1, SameDirectory, RecoveryReturns DEF ResumeComplete, Rest
<1> QED BY <1>3, <1>4 DEF ResumeComplete

LEMMA ResumeCleanStep ==
  ASSUME PatchInv, NEW w \in Workers, ResumeClean(w)
  PROVE  PatchInv'
<1> DEFINE o == recover[w].op
           d == [Disk EXCEPT !.temp[o] = "absent"]
<1>1. Recovering(w)
  BY DEF ResumeClean, Doing, Recovering
<1>2. Solitary(w) /\ DirectoryOK /\ o \in Ops
  BY <1>1, RecoveryFacts
<1>3. troubles' \in 0..MaxTroubles
  BY SpendOK DEF ResumeClean, PatchInv, TypeInv
<1>4. CASE Becomes(Removed(Disk, o, "temp"))
  <2>1. d \in Directories /\ Sound(d, unread)
    BY <1>2, SoundTemporary
  <2>2. Becomes(d)
    BY <1>4 DEF Removed
  <2>3. DirectoryOK'
    BY <1>2, <2>1, <2>2, NewState DEF Becomes, ResumeClean, Rest
  <2> QED BY <1>2, <1>3, <2>3, RecoveryReturns DEF ResumeClean, Rest
<1>5. CASE UNCHANGED directory
  BY <1>2, <1>3, <1>5, SameDirectory, RecoveryReturns DEF ResumeClean, Rest
<1> QED BY <1>4, <1>5 DEF ResumeClean

\* Removing a part of an attempt that is rolled back or dismissed.
LEMMA SoundRemoval ==
  ASSUME DirectoryOK, NEW o \in Ops, NEW part \in {"dest", "temp", "receipt"},
         part = "dest" => Disk.dest = o /\ Disk.journal[o].state = "rolling_back",
         part = "receipt" => Disk.dest \notin Ops
  PROVE  /\ Removed(Disk, o, part) \in Directories
         /\ Sound(Removed(Disk, o, part), unread)
         /\ Removed(Disk, o, part).journal = Disk.journal
         /\ Removed(Disk, o, part).dest = IF part = "dest" THEN "absent" ELSE Disk.dest
         /\ Removed(Disk, o, part).temp[o] = IF part = "temp" THEN "absent" ELSE Disk.temp[o]
         /\ Removed(Disk, o, part).receipt = IF part = "receipt" THEN "absent" ELSE Disk.receipt
<1>1. Disk \in Directories /\ Sound(Disk, unread)
  BY DiskSound
<1>2. CASE part = "temp"
  <2> DEFINE d == [Disk EXCEPT !.temp[o] = "absent"]
  <2>1. Removed(Disk, o, part) = d
    BY <1>2 DEF Removed
  <2>2. d \in Directories /\ Sound(d, unread)
    BY SoundTemporary
  <2>3. d.journal = Disk.journal /\ d.dest = Disk.dest /\ d.receipt = Disk.receipt
        /\ d.temp[o] = "absent"
    BY <1>1 DEF Directories
  <2> QED BY <1>2, <2>1, <2>2, <2>3
<1>3. CASE part = "dest"
  <2> DEFINE d == [Disk EXCEPT !.dest = "absent"]
  <2>1. Removed(Disk, o, part) = d
    BY <1>3 DEF Removed
  <2>2. d \in Directories /\ d.journal = Disk.journal /\ d.dest = "absent"
        /\ d.receipt = Disk.receipt /\ d.temp = Disk.temp
    BY <1>1 DEF Directories
  <2>3. \A p \in Ops : Disk.journal[p].state # "completed"
    BY <1>1, <1>3 DEF Sound
  <2>4. Sound(d, unread)
    BY <1>1, <2>2, <2>3, PatchAssumption DEF Sound, PatchAssumption
  <2> QED BY <1>3, <2>1, <2>2, <2>4
<1>4. CASE part = "receipt"
  <2> DEFINE d == [Disk EXCEPT !.receipt = "absent"]
  <2>1. Removed(Disk, o, part) = d
    BY <1>4 DEF Removed
  <2>2. d \in Directories /\ d.journal = Disk.journal /\ d.dest = Disk.dest
        /\ d.receipt = "absent" /\ d.temp = Disk.temp
    BY <1>1 DEF Directories
  <2>3. Sound(d, unread)
    BY <1>1, <1>4, <2>2, PatchAssumption DEF Sound, PatchAssumption
  <2> QED BY <1>4, <2>1, <2>2, <2>3
<1> QED BY <1>2, <1>3, <1>4

LEMMA LeaveReceiptStep ==
  ASSUME PatchInv, NEW w \in Workers, LeaveReceipt(w)
  PROVE  PatchInv'
<1> DEFINE o == recover[w].op
<1>1. Recovering(w) /\ recover[w].at = "remove receipt"
  BY DEF LeaveReceipt, Doing, Recovering
<1>2. DirectoryOK /\ o \in Ops /\ Disk.dest \notin Ops /\ Disk.temp[o] = "absent"
  BY <1>1, RecoveryFacts DEF RecoveryKnows, Removing
<1>3. DirectoryOK' /\ Disk' = Disk /\ o \in unread'
  BY <1>2, MoreUnread DEF LeaveReceipt
<1>4. troubles' \in 0..MaxTroubles
  BY SpendOK DEF LeaveReceipt, PatchInv
<1>5. (/\ recover'[w].at = "finish" /\ recover'[w].op = o
       /\ recover'[w].journal = recover[w].journal) => RecoveryKnows(w)'
  BY <1>2, <1>3 DEF RecoveryKnows, Resuming, Removing, Announcing
<1> QED BY <1>1, <1>3, <1>4, <1>5, OnStep DEF LeaveReceipt, RecoverSteps

LEMMA RemoveAllStep ==
  ASSUME PatchInv, NEW w \in Workers, RemoveAll(w), ~LeaveReceipt(w)
  PROVE  PatchInv'
<1> DEFINE o == recover[w].op
           at == recover[w].at
<1>1. PICK part \in {"dest", "temp", "receipt"},
           next \in {"remove temp", "remove receipt", "finish"} :
        /\ RemovePart(w, at, part, next)
        /\ \/ at = "remove dest" /\ part = "dest" /\ next = "remove temp"
           \/ at = "remove temp" /\ part = "temp" /\ next = "remove receipt"
           \/ at = "remove receipt" /\ part = "receipt" /\ next = "finish"
  BY DEF RemoveAll, RemovePart, Doing
<1>2. Recovering(w)
  BY <1>1 DEF Recovering
<1>3. /\ DirectoryOK /\ o \in Ops /\ Disk \in Directories
      /\ recover[w].journal.output /\ recover[w].journal.receipt
      /\ Disk.journal[o].state \notin Terminal
      /\ part = "dest" => Disk.dest = o /\ Disk.journal[o].state = "rolling_back"
      /\ part # "dest" => Disk.dest \notin Ops
      /\ part = "receipt" => Disk.temp[o] = "absent"
  BY <1>1, <1>2, RecoveryFacts DEF RecoveryKnows, Announcing, Resuming, Removing
<1>4. troubles' \in 0..MaxTroubles
  BY <1>1, SpendOK DEF RemovePart, PatchInv, TypeInv
<1> DEFINE removed == Removed(Disk, o, part)
<1>5. CASE Becomes(IF part = "receipt" /\ Disk.receipt # o THEN Disk ELSE removed)
           /\ Step(w, next)
  <2> DEFINE d == IF part = "receipt" /\ Disk.receipt # o THEN Disk ELSE removed
  <2>1. /\ d \in Directories /\ Sound(d, unread) /\ d.journal = Disk.journal
        /\ d.dest \notin Ops
        /\ part # "dest" => d.temp[o] = "absent"
        /\ part = "receipt" => d.receipt # o
    <3>1. /\ removed \in Directories /\ Sound(removed, unread) /\ removed.journal = Disk.journal
          /\ removed.dest = IF part = "dest" THEN "absent" ELSE Disk.dest
          /\ removed.temp[o] = IF part = "temp" THEN "absent" ELSE Disk.temp[o]
          /\ removed.receipt = IF part = "receipt" THEN "absent" ELSE Disk.receipt
      <4>1. /\ part = "dest" => Disk.dest = o /\ Disk.journal[o].state = "rolling_back"
            /\ part = "receipt" => Disk.dest \notin Ops
        BY <1>3
      <4>2. DirectoryOK /\ o \in Ops
        BY <1>3
      <4> QED BY <4>1, <4>2, SoundRemoval
    <3>2. "absent" \notin Ops
      BY PatchAssumption DEF PatchAssumption
    <3>3. Sound(Disk, unread)
      BY <1>3, DiskSound
    <3> HIDE DEF removed
    <3>4. CASE part = "receipt" /\ Disk.receipt # o
      BY <1>3, <3>3, <3>4
    <3>5. CASE ~(part = "receipt" /\ Disk.receipt # o)
      BY <1>1, <1>3, <3>1, <3>2, <3>5
    <3> QED BY <3>4, <3>5
  <2> HIDE DEF d
  <2>2. DirectoryOK' /\ Disk' = d
    BY <1>1, <1>3, <1>5, <2>1, NewState DEF Becomes, RemovePart, Rest, d
  <2>3. (/\ recover'[w].at = next /\ recover'[w].op = o
         /\ recover'[w].journal = recover[w].journal) => RecoveryKnows(w)'
    BY <1>1, <1>3, <2>1, <2>2 DEF RecoveryKnows, Resuming, Removing, Announcing
  <2>4. next \in RecoverSteps \ {""}
    BY DEF RecoverSteps
  <2> QED BY <1>1, <1>2, <1>4, <1>5, <2>2, <2>3, <2>4, OnStep DEF RemovePart, Rest
<1>6. CASE UNCHANGED directory /\ Step(w, "give up")
  <2>1. DirectoryOK' /\ Disk' = Disk
    BY <1>1, <1>3, <1>6, SameDirectory DEF RemovePart, Rest
  <2>2. (/\ recover'[w].at = "give up" /\ recover'[w].op = o
         /\ recover'[w].journal = recover[w].journal) => RecoveryKnows(w)'
    BY <1>3, <2>1 DEF RecoveryKnows, Resuming, Removing, Announcing
  <2> QED BY <1>1, <1>2, <1>4, <1>6, <2>1, <2>2, OnStep DEF RemovePart, RecoverSteps, Rest
<1> QED BY <1>1, <1>5, <1>6 DEF RemovePart

LEMMA DropAllStep ==
  ASSUME PatchInv, NEW w \in Workers, DropAll(w)
  PROVE  PatchInv'
<1> DEFINE o == recover[w].op
           at == recover[w].at
           kept == recover[w].journal.receipt
<1>1. PICK part \in {"temp", "receipt"}, next \in {"drop receipt", "finish"} :
        /\ Drop(w, at, part, next)
        /\ \/ at = "drop temp" /\ part = "temp" /\ next = "drop receipt"
           \/ at = "drop receipt" /\ part = "receipt" /\ next = "finish"
  BY DEF DropAll, Drop, Doing
<1>2. Recovering(w)
  BY <1>1 DEF Recovering
<1>3. /\ DirectoryOK /\ Solitary(w) /\ o \in Ops /\ Disk \in Directories
      /\ Disk.dest \notin Ops
      /\ part = "receipt" => Disk.temp[o] = "absent"
      /\ ~kept => Disk.receipt # o
  BY <1>1, <1>2, RecoveryFacts DEF RecoveryKnows, Removing
<1>4. troubles' \in 0..MaxTroubles
  BY <1>1, SpendOK DEF Drop, PatchInv, TypeInv
<1> DEFINE d == IF part = "receipt" /\ ~kept THEN Disk ELSE Removed(Disk, o, part)
<1>5. CASE Becomes(d) /\ Step(w, next)
  <2>1. /\ d \in Directories /\ Sound(d, unread) /\ d.dest \notin Ops
        /\ d.temp[o] = "absent"
        /\ ~kept => d.receipt # o
        /\ part = "receipt" => d.receipt # o
    <3> DEFINE removed == Removed(Disk, o, part)
    <3>1. /\ removed \in Directories /\ Sound(removed, unread)
          /\ removed.dest = Disk.dest
          /\ removed.temp[o] = IF part = "temp" THEN "absent" ELSE Disk.temp[o]
          /\ removed.receipt = IF part = "receipt" THEN "absent" ELSE Disk.receipt
      <4>1. /\ part # "dest"
            /\ part = "receipt" => Disk.dest \notin Ops
        BY <1>1, <1>3
      <4>2. DirectoryOK /\ o \in Ops
        BY <1>3
      <4> QED BY <4>1, <4>2, SoundRemoval
    <3>2. "absent" \notin Ops
      BY PatchAssumption DEF PatchAssumption
    <3>3. Sound(Disk, unread)
      BY <1>3, DiskSound
    <3> HIDE DEF removed
    <3>4. CASE part = "receipt" /\ ~kept
      BY <1>3, <3>3, <3>4
    <3>5. CASE ~(part = "receipt" /\ ~kept)
      BY <1>1, <1>3, <3>1, <3>2, <3>5 DEF removed
    <3> QED BY <3>4, <3>5
  <2>2. Becomes(d)
    BY <1>5
  <2> HIDE DEF d
  <2>3. DirectoryOK' /\ Disk' = d
    BY <1>1, <1>3, <2>1, <2>2, NewState DEF Becomes, Drop, Rest
  <2>4. (/\ recover'[w].at = next /\ recover'[w].op = o
         /\ recover'[w].journal = recover[w].journal) => RecoveryKnows(w)'
    BY <1>1, <2>1, <2>3 DEF RecoveryKnows, Resuming, Removing, Announcing
  <2>5. next \in RecoverSteps \ {""}
    BY DEF RecoverSteps
  <2> QED BY <1>1, <1>2, <1>4, <1>5, <2>3, <2>4, <2>5, OnStep DEF Drop, Rest
<1>6. CASE UNCHANGED directory /\ Return(w)
  BY <1>1, <1>3, <1>4, <1>6, SameDirectory, RecoveryReturns DEF Drop, Rest
<1> QED BY <1>1, <1>5, <1>6 DEF Drop

\* The last journal write of a rollback that failed, and of one that did not.
LEMMA LastWriteStep ==
  ASSUME PatchInv, NEW w \in Workers, GiveUp(w) \/ Finish(w)
  PROVE  PatchInv'
<1> DEFINE o == recover[w].op
           j == [recover[w].journal EXCEPT
                   !.state = IF GiveUp(w) THEN "rollback_failed" ELSE "rolled_back"]
<1>1. /\ Recovering(w)
      /\ GiveUp(w) => recover[w].at = "give up"
      /\ Finish(w) => recover[w].at = "finish"
  BY DEF GiveUp, Finish, Doing, Recovering
<1>2. /\ DirectoryOK /\ Solitary(w) /\ TypeInv /\ o \in Ops /\ recover[w].journal \in Journals
      /\ GiveUp(w) => recover[w].journal.output /\ recover[w].journal.receipt
      /\ Finish(w) => /\ Disk.dest \notin Ops /\ Disk.temp[o] = "absent"
                      /\ Disk.receipt # o \/ o \in unread
  BY <1>1, RecoveryFacts DEF RecoveryKnows, Announcing, Removing
<1>3. /\ j \in Journals
      /\ j.state = IF GiveUp(w) THEN "rollback_failed" ELSE "rolled_back"
      /\ j.output = recover[w].journal.output /\ j.receipt = recover[w].journal.receipt
  BY <1>2 DEF Journals, States
<1>4. PICK result \in Writes : WriteJournal(o, j, result)
  BY DEF GiveUp, Finish
<1> HIDE DEF j
<1>5. Informed(j) /\ (Disk.dest = o => j.state \in Standing)
  BY <1>2, <1>3 DEF Informed, Standing, Announced
<1>6. DirectoryOK' /\ troubles' \in 0..MaxTroubles
  BY <1>2, <1>3, <1>4, <1>5, JournalWritten DEF GiveUp, Finish, Rest
<1> QED BY <1>2, <1>6, RecoveryReturns DEF GiveUp, Finish, Rest

\* What the classification of an attempt says about it.
LEMMA ClassificationFacts ==
  ASSUME DirectoryOK, NEW o \in Ops
  PROVE  /\ Classification(o) = "publication_likely_complete" =>
              /\ Disk.journal[o].state \in Announced
              /\ Disk.dest = o /\ Disk.receipt = o
         /\ Classification(o) = "safe_to_resume" =>
              /\ Disk.journal[o].state \in {"prepared", "verifying_temporary", "publishing"}
              /\ Disk.receipt = o
         /\ Classification(o) = "failed" => Disk.journal[o].state = "failed"
<1> DEFINE state == Disk.journal[o].state
<1>1. Disk \in Directories /\ Sound(Disk, unread) /\ state \in States
  BY DiskSound DEF Directories, Journals
<1>2. state \in Announced => Disk.journal[o].output /\ Disk.journal[o].receipt
  BY <1>1 DEF Sound, Informed, Standing
<1>3. ReceiptMatches(o) => Disk.receipt = o
  BY <1>2 DEF ReceiptMatches
<1>4. state \in Announced /\ OutputMatches(o) => Disk.dest \in Ops
  BY <1>2 DEF OutputMatches
<1>5. Disk.dest \in Ops => Disk.dest = Disk.receipt
  BY <1>1 DEF Sound
<1>6. state \in Terminal \/ (state \notin Terminal /\ changed) \/ (state \notin Terminal /\ ~changed)
  OBVIOUS
<1>7. CASE state \in Terminal
  BY <1>7 DEF Classification, Terminal
<1>8. CASE state \notin Terminal /\ changed
  BY <1>8 DEF Classification
<1>9. CASE state \notin Terminal /\ ~changed
  BY <1>3, <1>4, <1>5, <1>9 DEF Classification
<1> QED BY <1>7, <1>8, <1>9

LEMMA RunStep ==
  ASSUME PatchInv, Separate, NEW w \in Workers, Run(w)
  PROVE  PatchInv'
<1> DEFINE o == plans[w].op
           j == Disk.journal[o]
<1>1. Solitary(w)
  BY NobodyWorks DEF Run, Solitary
<1>2. /\ DirectoryOK /\ TypeInv /\ o \in Ops /\ plans[w].action \in Actions
      /\ Disk \in Directories /\ Sound(Disk, unread) /\ j \in Journals
  <2>1. DirectoryOK /\ TypeInv
    BY DEF PatchInv, TypeInv, RecordInv, DirectoryOK
  <2>2. o \in Ops /\ plans[w].action \in Actions
    BY <2>1 DEF Run, TypeInv
  <2> QED BY <2>1, <2>2, DiskSound DEF Directories
<1>3. DirectoryOK' /\ Disk' = Disk /\ troubles' \in 0..MaxTroubles
  BY <1>2, SameDirectory, MismatchesOK DEF Run, TypeInv
<1>4. plans' = [plans EXCEPT ![w] = NoPlan] /\ UNCHANGED <<changed, apply>>
  BY DEF Run
<1>5. ASSUME NEW first \in {"complete", "announce", "roll back", "drop temp"},
             NEW r \in Journals, r.state = j.state,
             recover' = [recover EXCEPT ![w] = [at |-> first, op |-> o, journal |-> r]],
             first = "complete" =>
               r.output /\ r.receipt /\ Disk.receipt = o /\ Disk.dest = o
               /\ j.state \notin Terminal,
             first = "announce" =>
               r.output /\ r.receipt /\ Disk.receipt = o /\ j.state \notin Terminal,
             first = "roll back" =>
               r.output /\ r.receipt /\ Disk.receipt = o /\ Disk.dest = o
               /\ j.state \notin Terminal,
             first = "drop temp" =>
               Disk.dest \notin Ops /\ (~r.receipt => Disk.receipt # o)
      PROVE  PatchInv'
  <2> DEFINE s == [at |-> first, op |-> o, journal |-> r]
  <2>1. /\ s \in [at : RecoverSteps, op : Ops, journal : Journals]
        /\ s.at = first /\ s.op = o /\ s.journal = r
    BY <1>2 DEF RecoverSteps
  <2>2. recover' = [recover EXCEPT ![w] = s]
    BY <1>5
  <2> HIDE DEF s
  <2>3. recover'[w] = s
    BY <1>2, <2>2 DEF TypeInv
  <2>4. RecoveryKnows(w)'
    BY <1>3, <1>5, <2>1, <2>3 DEF RecoveryKnows, Resuming, Removing, Announcing
  <2> QED BY <1>1, <1>3, <1>4, <2>1, <2>2, <2>4, RecoveryStep
<1>6. CASE UNCHANGED recover \/ recover' = [recover EXCEPT ![w] = Idle]
  <2>1. recover' = [recover EXCEPT ![w] = Idle]
    BY <1>2, <1>6 DEF Run, TypeInv
  <2> QED BY <1>1, <1>3, <1>4, <2>1, RecoveryStep
<1> DEFINE class == Classification(o)
           action == plans[w].action
           filled == [j EXCEPT !.receipt = TRUE]
<1>7. filled \in Journals /\ filled.state = j.state /\ filled.output = j.output /\ filled.receipt
  BY <1>2 DEF Journals
<1>8. CASE TokenHolds(plans[w]) /\ ~UNCHANGED recover
  <2> DEFINE first == CASE action = "resume" /\ class = "publication_likely_complete" -> "complete"
                        [] action = "resume" /\ class = "safe_to_resume" -> "announce"
                        [] action = "rollback" /\ class = "publication_likely_complete"
                             -> "roll back"
                        [] action = "dismiss" /\ class = "failed" /\ Dismissable(o) -> "drop temp"
                        [] OTHER -> ""
             r == IF action = "dismiss" THEN j ELSE filled
  <2>1. recover' = [recover EXCEPT ![w] =
                      IF first = "" THEN Idle ELSE [at |-> first, op |-> o, journal |-> r]]
    BY <1>8 DEF Run
  <2>2. /\ first \in {"", "complete", "announce", "roll back", "drop temp"}
        /\ first \in {"complete", "announce"} => action = "resume"
        /\ first = "roll back" => action = "rollback"
        /\ first \in {"complete", "roll back"} => class = "publication_likely_complete"
        /\ first = "announce" => class = "safe_to_resume"
        /\ first = "drop temp" => action = "dismiss" /\ Dismissable(o)
    OBVIOUS
  <2> HIDE DEF first, class, filled
  <2>3. CASE first = ""
    BY <1>6, <2>1, <2>3
  <2>4. CASE first \in {"complete", "roll back"}
    <3>1. /\ j.state \in Announced /\ Disk.dest = o /\ Disk.receipt = o
      BY <1>2, <2>2, <2>4, ClassificationFacts DEF class
    <3>2. j.output /\ j.state \notin Terminal
      BY <1>2, <3>1 DEF Sound, Informed, Standing, Announced, Terminal
    <3> QED BY <1>5, <1>7, <2>1, <2>2, <2>4, <3>1, <3>2
  <2>5. CASE first = "announce"
    <3>1. /\ j.state \in {"prepared", "verifying_temporary", "publishing"} /\ Disk.receipt = o
      BY <1>2, <2>2, <2>5, ClassificationFacts DEF class
    <3>2. j.output /\ j.state \notin Terminal
      BY <1>2, <3>1 DEF Sound, Informed, Standing, Announced, Terminal
    <3> QED BY <1>5, <1>7, <2>1, <2>2, <2>5, <3>1, <3>2
  <2>6. CASE first = "drop temp"
    <3>1. Disk.dest \notin Ops /\ (~j.receipt => Disk.receipt # o)
      BY <1>2, <2>2, <2>6, PatchAssumption DEF Dismissable, PatchAssumption
    <3> QED BY <1>2, <1>5, <2>1, <2>2, <2>6, <3>1
  <2> QED BY <2>2, <2>3, <2>4, <2>5, <2>6
<1> QED BY <1>6, <1>8 DEF Run

LEMMA RecoverStep ==
  ASSUME PatchInv, Separate, NEW w \in Workers, Recover(w)
  PROVE  PatchInv'
BY RunStep, ResumeMoveStep, ResumeLinkStep, ResumeVerifyStep, ResumeCompleteStep,
   ResumeCleanStep, LeaveReceiptStep, RemoveAllStep, DropAllStep, LastWriteStep
   DEF Recover

----------------------------------------------------------------------------
(* The steps around the operations *)

LEMMA ReviewStep ==
  ASSUME PatchInv, NEW w \in Workers, NEW o \in Ops, NEW action \in Actions,
         Review(w, o, action)
  PROVE  PatchInv'
<1> DEFINE plan == [op |-> o, action |-> action, state |-> Disk.journal[o].state,
                    matches |-> OutputMatches(o)]
<1>1. DirectoryOK /\ DirectoryOK' /\ Disk' = Disk
  BY SameDirectory DEF Review, PatchInv, TypeInv, RecordInv, DirectoryOK
<1>2. Disk.journal[o].state \in States
  BY <1>1, DiskSound DEF Directories, Journals
<1>3. OutputMatches(o) \in BOOLEAN
  BY DEF OutputMatches
<1>4. /\ plan \in [op : Ops \cup {"none"}, action : Actions \cup {"none"},
                   state : States, matches : BOOLEAN]
      /\ plan.op = o /\ plan.action = action
  BY <1>2, <1>3
<1>5. plans' = [plans EXCEPT ![w] = plan]
  BY DEF Review
<1> HIDE DEF plan
<1>6. TypeInv'
  <2>1. plans' \in [Workers -> [op : Ops \cup {"none"}, action : Actions \cup {"none"},
                                state : States, matches : BOOLEAN]]
    BY <1>4, <1>5 DEF PatchInv, TypeInv
  <2>2. \A v \in Workers :
          plans'[v] = NoPlan \/ (plans'[v].op \in Ops /\ plans'[v].action \in Actions)
    BY <1>4, <1>5 DEF PatchInv, TypeInv
  <2> QED BY <2>1, <2>2 DEF Review, PatchInv, TypeInv, Recovering
<1>7. RecordInv'
  <2>1. UNCHANGED <<apply, recover, unread>> /\ RecordInv
    BY DEF Review, PatchInv
  <2>2. Exclusive'
    BY <2>1 DEF RecordInv, Exclusive, Busy, Recovering
  <2>3. \A p \in Ops : AttemptKnows(p)'
    BY <1>1, <2>1 DEF RecordInv, AttemptKnows
  <2>4. \A v \in Workers : Recovering(v)' => RecoveryKnows(v)'
    BY <1>1, <2>1 DEF RecordInv, Recovering, RecoveryKnows
  <2> QED BY <1>1, <2>2, <2>3, <2>4 DEF RecordInv, DirectoryOK
<1> QED BY <1>6, <1>7 DEF PatchInv

LEMMA OthersCreateStep ==
  ASSUME PatchInv, OthersCreate
  PROVE  PatchInv'
<1> DEFINE d == [Disk EXCEPT !.dest = "other"]
<1>1. /\ DirectoryOK /\ Disk \in Directories /\ Sound(Disk, unread) /\ Disk.dest = "absent"
  BY DiskSound DEF PatchInv, TypeInv, RecordInv, DirectoryOK, OthersCreate
<1>2. "absent" \notin Ops /\ "other" \notin Ops
  BY PatchAssumption DEF PatchAssumption
<1>3. /\ d \in Directories /\ d.dest = "other" /\ d.receipt = Disk.receipt
      /\ d.temp = Disk.temp /\ d.journal = Disk.journal
  BY <1>1 DEF Directories
<1>4. directory' = <<d>> /\ UNCHANGED unread
  BY DEF OthersCreate
<1> HIDE DEF d
<1>5. Sound(d, unread)
  BY <1>1, <1>2, <1>3 DEF Sound
<1>6. DirectoryOK' /\ Disk' = d
  BY <1>1, <1>3, <1>4, <1>5, NewState
<1>7. TypeInv'
  BY <1>6, SpendOK DEF OthersCreate, PatchInv, TypeInv, DirectoryOK, Recovering
<1>8. \A o \in Ops : AttemptKnows(o)'
  <2> SUFFICES ASSUME NEW o \in Ops
               PROVE  AttemptKnows(o)'
    OBVIOUS
  <2>1. apply' = apply /\ AttemptKnows(o)
    BY DEF OthersCreate, PatchInv, RecordInv
  <2> QED BY <1>1, <1>2, <1>3, <1>6, <2>1 DEF AttemptKnows
<1>9. \A w \in Workers : Recovering(w)' => RecoveryKnows(w)'
  <2> SUFFICES ASSUME NEW w \in Workers, Recovering(w)'
               PROVE  RecoveryKnows(w)'
    OBVIOUS
  <2>1. recover' = recover /\ Recovering(w) /\ recover[w].op \in Ops
    BY DEF OthersCreate, Recovering, PatchInv, TypeInv
  <2>2. RecoveryKnows(w)
    BY <2>1 DEF PatchInv, RecordInv
  <2> QED BY <1>1, <1>2, <1>3, <1>4, <1>6, <2>1, <2>2 DEF RecoveryKnows
<1>10. Exclusive'
  BY DEF OthersCreate, PatchInv, RecordInv, Exclusive, Busy, Recovering
<1> QED BY <1>6, <1>7, <1>8, <1>9, <1>10 DEF PatchInv, RecordInv, DirectoryOK

LEMMA SourceChangesStep ==
  ASSUME PatchInv, SourceChanges
  PROVE  PatchInv'
<1>1. DirectoryOK' /\ Disk' = Disk
  BY SameDirectory DEF SourceChanges, PatchInv, TypeInv, RecordInv, DirectoryOK
<1>2. TypeInv'
  BY SpendOK DEF SourceChanges, PatchInv, TypeInv, Recovering
<1>3. UNCHANGED <<apply, recover, unread>> /\ RecordInv
  BY DEF SourceChanges, PatchInv
<1>4. Exclusive'
  BY <1>3 DEF RecordInv, Exclusive, Busy, Recovering
<1>5. \A o \in Ops : AttemptKnows(o)'
  BY <1>1, <1>3 DEF RecordInv, AttemptKnows
<1>6. \A w \in Workers : Recovering(w)' => RecoveryKnows(w)'
  BY <1>1, <1>3 DEF RecordInv, Recovering, RecoveryKnows
<1> QED BY <1>1, <1>2, <1>4, <1>5, <1>6 DEF PatchInv, RecordInv, DirectoryOK

\* A process that died works on nothing and has reviewed nothing.
LEMMA DieStep ==
  ASSUME PatchInv, Die, DirectoryOK'
  PROVE  PatchInv'
<1>1. TypeInv'
  BY SpendOK, ReadyTyped, IdleTyped, NoPlanTyped
     DEF Die, PatchInv, TypeInv, DirectoryOK, Recovering
<1>2. (\A o \in Ops : apply'[o].at = "") /\ (\A w \in Workers : recover'[w].at = "")
  BY IdleTyped DEF Die, Ready
<1> QED BY <1>1, <1>2 DEF PatchInv, RecordInv, DirectoryOK, Exclusive, Busy, Recovering,
                          AttemptKnows, BeforeLink, WithOutput, WithReceipt

LEMMA PowerLossStep ==
  ASSUME PatchInv, PowerLoss
  PROVE  PatchInv'
<1>1. DirectoryOK
  BY DEF PatchInv, TypeInv, RecordInv, DirectoryOK
<1>2. PICK i \in DOMAIN directory : directory' = <<directory[i]>>
  BY DEF PowerLoss
<1>3. directory[i] \in Directories /\ Sound(directory[i], unread)
  BY <1>1 DEF DirectoryOK, AllSound
<1> QED BY <1>1, <1>2, <1>3, NewState, DieStep DEF PowerLoss, Die

----------------------------------------------------------------------------
(* The invariant *)

LEMMA PatchStarts == Init => PatchInv
<1> SUFFICES ASSUME Init PROVE PatchInv
  OBVIOUS
<1> DEFINE d == [dest |-> "absent", receipt |-> "absent", temp |-> [o \in Ops |-> "absent"],
                 journal |-> [o \in Ops |-> NoJournal]]
<1>1. directory = <<d>> /\ d \in Directories
  BY NoJournalTyped DEF Init, Directories
<1>2. Sound(d, unread)
  BY PatchAssumption
     DEF Sound, NoJournal, Informed, Standing, Announced, PatchAssumption
<1>3. directory \in Seq(Directories) /\ directory # <<>> /\ AllSound /\ unread \subseteq Ops
  BY <1>1, <1>2 DEF AllSound, Init
<1>4. TypeInv
  <2>1. apply \in [Ops -> [at : ApplySteps, journal : Journals]]
    BY ReadyTyped DEF Init
  <2>2. plans \in [Workers -> [op : Ops \cup {"none"}, action : Actions \cup {"none"},
                               state : States, matches : BOOLEAN]]
    BY NoPlanTyped DEF Init
  <2>3. recover \in [Workers -> [at : RecoverSteps, op : Ops \cup {"none"},
                                 journal : Journals]]
    BY IdleTyped DEF Init
  <2>4. \A w \in Workers : plans[w] = NoPlan /\ recover[w] = Idle /\ ~Recovering(w)
    BY IdleTyped DEF Init, Recovering
  <2>5. changed \in BOOLEAN
    BY Zenon DEF Init
  <2>6. troubles \in 0..MaxTroubles
    <3>1. MaxTroubles \in Nat
      BY PatchAssumption DEF PatchAssumption
    <3>2. troubles = 0
      BY Zenon DEF Init
    <3> QED BY <3>1, <3>2
  <2> QED BY <1>3, <2>1, <2>2, <2>3, <2>4, <2>5, <2>6 DEF TypeInv
<1>5. (\A o \in Ops : apply[o].at = "") /\ (\A w \in Workers : recover[w].at = "")
  BY IdleTyped DEF Init, Ready
<1> QED BY <1>3, <1>4, <1>5 DEF PatchInv, RecordInv, Exclusive, Busy, Recovering,
                                AttemptKnows, BeforeLink, WithOutput, WithReceipt

LEMMA PatchStep ==
  ASSUME PatchInv, Separate, [Next]_vars
  PROVE  PatchInv'
<1>1. CASE UNCHANGED vars
  <2>1. DirectoryOK' /\ Disk' = Disk
    BY <1>1, SameDirectory DEF vars, PatchInv, TypeInv, RecordInv, DirectoryOK
  <2>2. TypeInv'
    BY <1>1 DEF vars, PatchInv, TypeInv, Recovering
  <2>3. Exclusive'
    BY <1>1 DEF vars, PatchInv, RecordInv, Exclusive, Busy, Recovering
  <2>4. \A o \in Ops : AttemptKnows(o)'
    BY <1>1, <2>1 DEF vars, PatchInv, RecordInv, AttemptKnows
  <2>5. \A w \in Workers : Recovering(w)' => RecoveryKnows(w)'
    BY <1>1, <2>1 DEF vars, PatchInv, RecordInv, Recovering, RecoveryKnows
  <2> QED BY <2>1, <2>2, <2>3, <2>4, <2>5 DEF PatchInv, RecordInv, DirectoryOK
<1>2. CASE Killed
  <2>1. DirectoryOK'
    BY <1>2, SameDirectory DEF Killed, Die, PatchInv, TypeInv, RecordInv, DirectoryOK
  <2> QED BY <1>2, <2>1, DieStep DEF Killed
<1> QED BY <1>1, <1>2, ApplyStep, RecoverStep, ReviewStep, OthersCreateStep,
           SourceChangesStep, PowerLossStep DEF Next

LEMMA PatchInvariant == ASSUME Separate PROVE Spec => []PatchInv
<1>1. PatchInv /\ [Next]_vars => PatchInv'
  BY PatchStep
<1> QED BY <1>1, PatchStarts, PTL DEF Spec

----------------------------------------------------------------------------
(* The properties *)

\* Every value the attempts, the reviews and the recoveries write is one the
\* code can hold.
THEOREM TypeCorrect ==
  ASSUME Separate
  PROVE  Spec => []TypeOK
<1>1. PatchInv => TypeOK
  <2> SUFFICES ASSUME PatchInv PROVE TypeOK
    OBVIOUS
  <2>1. TypeInv
    BY DEF PatchInv
  <2>2. /\ directory # <<>> /\ \A i \in DOMAIN directory : directory[i] \in Directories
        /\ changed \in BOOLEAN /\ unread \subseteq Ops
    BY <2>1 DEF TypeInv
  <2>3. \A o \in Ops : apply[o] \in [at : ApplySteps, journal : Journals]
    BY <2>1 DEF TypeInv
  <2>4. \A w \in Workers :
          /\ plans[w] = NoPlan \/ (plans[w].op \in Ops /\ plans[w].action \in Actions)
          /\ recover[w].at \in RecoverSteps /\ recover[w].journal \in Journals
          /\ recover[w].at = "" <=> recover[w] = Idle
    BY <2>1, IdleTyped DEF TypeInv, Recovering
  <2>5. troubles <= MaxTroubles
    BY <2>1, PatchAssumption DEF TypeInv, PatchAssumption
  <2> QED BY <2>2, <2>3, <2>4, <2>5 DEF TypeOK
<1> QED BY <1>1, PatchInvariant, PTL

\* Whatever a power loss leaves of the directory, an output at the destination
\* is announced by its attempt's journal, which knows both hashes, and has that
\* attempt's receipt (the order of the journal writes and links of
\* publish_durable_patch_output and of the recoveries).
THEOREM OutputIsRecordedCorrect ==
  ASSUME Separate
  PROVE  Spec => []OutputIsRecorded
<1>1. PatchInv => OutputIsRecorded
  BY DEF PatchInv, RecordInv, AllSound, Sound, Informed, Standing, OutputIsRecorded
<1> QED BY <1>1, PatchInvariant, PTL

\* A journal that says "completed" or "rolled_back" is true of the directory,
\* whatever a power loss leaves: both are written last, after what they say; only
\* a receipt the rollback could not read may be left.
THEOREM TerminalIsTrueCorrect ==
  ASSUME Separate
  PROVE  Spec => []TerminalIsTrue
<1>1. PatchInv => TerminalIsTrue
  BY DEF PatchInv, RecordInv, AllSound, Sound, TerminalIsTrue
<1> QED BY <1>1, PatchInvariant, PTL

\* An output that was published and interrupted is classified as likely
\* complete, so the page offers to resume it.
THEOREM PublishedIsOfferedCorrect ==
  ASSUME Separate
  PROVE  Spec => []PublishedIsOffered
<1>1. PatchInv => PublishedIsOffered
  <2> SUFFICES ASSUME PatchInv, NEW o \in Ops, Disk.dest = o, ~changed,
                      Disk.journal[o].state \notin {"completed", "rolling_back",
                                                    "rollback_failed"}
               PROVE  "resume" \in Offered(o)
    BY DEF PublishedIsOffered
  <2>1. Sound(Disk, unread)
    BY DiskSound DEF PatchInv, TypeInv, RecordInv, DirectoryOK
  <2>2. Disk.journal[o].state \in Announced /\ Disk.receipt = o /\ Disk.journal[o].receipt
    BY <2>1 DEF Sound, Informed, Standing
  <2>3. OutputMatches(o) /\ ReceiptMatches(o)
    BY <2>2 DEF OutputMatches, ReceiptMatches
  <2>4. Classification(o) = "publication_likely_complete"
    BY <2>2, <2>3 DEF Classification, Announced, Terminal
  <2> QED BY <2>4 DEF Offered
<1> QED BY <1>1, PatchInvariant, PTL

----------------------------------------------------------------------------
(* What a step leaves alone *)

KeepsDest ==
  Disk'.dest # Disk.dest =>
    \/ Disk.dest = "absent"
    \/ Disk.dest \in Ops /\ Disk.journal[Disk.dest].state = "rolling_back"

\* The directory becomes what is appended to it.
LEMMA BecomesDisk ==
  ASSUME DirectoryOK, NEW d \in Directories,
         directory' = <<d>> \/ directory' = Append(directory, d)
  PROVE  Disk' = d
<1>1. CASE directory' = <<d>>
  BY <1>1 DEF Disk, Last
<1>2. CASE directory' = Append(directory, d)
  BY <1>2 DEF Disk, Last, DirectoryOK
<1> QED BY <1>1, <1>2

\* A journal write leaves the destination alone.
LEMMA WriteKeeps ==
  ASSUME DirectoryOK, NEW o \in Ops, NEW j \in Journals, NEW result \in Writes,
         WriteJournal(o, j, result)
  PROVE  KeepsDest
<1> DEFINE d == [Disk EXCEPT !.journal[o] = j]
<1>1. d \in Directories /\ d.dest = Disk.dest
  BY DiskSound DEF Directories
<1>2. CASE result = "lost"
  BY <1>2 DEF WriteJournal, Disk, KeepsDest
<1>3. CASE result # "lost"
  <2>1. Disk' = d
    BY <1>1, <1>3, BecomesDisk DEF WriteJournal, Writes
  <2> HIDE DEF d
  <2> QED BY <1>1, <2>1 DEF KeepsDest
<1> QED BY <1>2, <1>3

LEMMA BecomesKeeps ==
  ASSUME DirectoryOK, NEW d \in Directories, Becomes(d),
         \/ d.dest = Disk.dest
         \/ Disk.dest = "absent"
         \/ Disk.dest \in Ops /\ Disk.journal[Disk.dest].state = "rolling_back"
  PROVE  KeepsDest
BY BecomesDisk DEF Becomes, KeepsDest

LEMMA SameKeeps ==
  ASSUME UNCHANGED directory
  PROVE  KeepsDest
BY DEF Disk, KeepsDest

LEMMA TransitionKeeps ==
  ASSUME PatchInv, NEW o \in Ops, NEW j \in Journals, NEW next, Transition(o, j, next)
  PROVE  KeepsDest
BY WriteKeeps DEF Transition, PatchInv, TypeInv, RecordInv, DirectoryOK

LEMMA AttemptKeeps ==
  ASSUME PatchInv, NEW o \in Ops, Apply(o)
  PROVE  KeepsDest
<1> DEFINE j == apply[o].journal
<1>1. DirectoryOK /\ Disk \in Directories /\ j \in Journals
  BY DiskSound DEF PatchInv, TypeInv, RecordInv, DirectoryOK
<1>2. ASSUME NEW state \in States, NEW next,
             Transition(o, [j EXCEPT !.state = state], next)
      PROVE  KeepsDest
  <2>1. [j EXCEPT !.state = state] \in Journals
    BY <1>1 DEF Journals
  <2> QED BY <1>2, <2>1, TransitionKeeps
<1>3. ASSUME Fail(o) PROVE KeepsDest
  <2>1. [j EXCEPT !.state = "failed"] \in Journals
    BY <1>1 DEF Journals, States
  <2> QED BY <1>1, <1>3, <2>1, WriteKeeps DEF Fail
<1>4. CASE Begin(o)
  <2>1. [NoJournal EXCEPT !.state = "planned"] \in Journals
    BY DEF NoJournal, Journals, States
  <2> QED BY <1>4, <2>1, TransitionKeeps DEF Begin
<1>5. CASE Prepare(o)
  BY <1>2, <1>5 DEF Prepare, States
<1>6. CASE Produce(o)
  <2>1. [j EXCEPT !.state = "prepared", !.output = TRUE] \in Journals
    BY <1>1 DEF Journals, States
  <2> QED BY <1>3, <1>6, <2>1, TransitionKeeps DEF Produce
<1>7. CASE AnnounceTemporary(o) \/ AnnouncePublication(o) \/ RecordPublished(o)
           \/ AnnounceVerification(o)
  BY <1>2, <1>7 DEF AnnounceTemporary, AnnouncePublication, RecordPublished,
                    AnnounceVerification, States
<1>8. CASE Complete(o)
  BY <1>2, <1>8, SameKeeps DEF Complete, States
<1>9. CASE RecordFailure(o)
  BY <1>3, <1>9 DEF RecordFailure
<1>10. CASE WriteTemporary(o)
  <2>1. ASSUME NEW left \in {"absent", "partial", "whole"},
               Becomes([Disk EXCEPT !.temp[o] = left])
        PROVE  KeepsDest
    <3>1. /\ [Disk EXCEPT !.temp[o] = left] \in Directories
          /\ [Disk EXCEPT !.temp[o] = left].dest = Disk.dest
      BY <1>1 DEF Directories
    <3> QED BY <1>1, <2>1, <3>1, BecomesKeeps
  <2> QED BY <1>10, <2>1 DEF WriteTemporary
<1>11. CASE FinaliseReceipt(o)
  <2>1. ASSUME Becomes([Disk EXCEPT !.receipt = o])
        PROVE  KeepsDest
    <3>1. /\ [Disk EXCEPT !.receipt = o] \in Directories
          /\ [Disk EXCEPT !.receipt = o].dest = Disk.dest
      BY <1>1 DEF Directories
    <3> QED BY <1>1, <2>1, <3>1, BecomesKeeps
  <2> QED BY <1>11, <2>1, SameKeeps DEF FinaliseReceipt
<1>12. CASE Link(o)
  <2>1. ASSUME CanLink, Becomes([Disk EXCEPT !.dest = o])
        PROVE  KeepsDest
    <3>1. [Disk EXCEPT !.dest = o] \in Directories
      BY <1>1 DEF Directories
    <3> QED BY <1>1, <2>1, <3>1, BecomesKeeps DEF CanLink
  <2> QED BY <1>12, <2>1, SameKeeps DEF Link
<1>13. CASE Clean(o)
  <2>1. ASSUME Becomes([Disk EXCEPT !.temp[o] = "absent"])
        PROVE  KeepsDest
    <3>1. /\ [Disk EXCEPT !.temp[o] = "absent"] \in Directories
          /\ [Disk EXCEPT !.temp[o] = "absent"].dest = Disk.dest
      BY <1>1 DEF Directories
    <3> QED BY <1>1, <2>1, <3>1, BecomesKeeps
  <2> QED BY <1>13, <2>1, SameKeeps DEF Clean, Removed
<1> QED BY <1>4, <1>5, <1>6, <1>7, <1>8, <1>9, <1>10, <1>11, <1>12, <1>13 DEF Apply

\* A recovery takes the output away only after it wrote "rolling_back".
LEMMA RecoveryKeeps ==
  ASSUME PatchInv, NEW w \in Workers, Recover(w)
  PROVE  KeepsDest
<1> DEFINE o == recover[w].op
           j == recover[w].journal
<1>1. CASE Run(w)
  BY <1>1, SameKeeps DEF Run
<1>2. ASSUME ~Run(w) PROVE Recovering(w)
  BY <1>2 DEF Recover, ResumeAnnounce, ResumeLink, ResumeRecord, ResumeVerify,
              ResumeComplete, ResumeClean, RollBack, RemoveAll, RemovePart, LeaveReceipt,
              GiveUp, DropAll, Drop, Finish, Doing, Recovering
<1> SUFFICES ASSUME ~Run(w) PROVE KeepsDest
  BY <1>1
<1>3. /\ RecoveryKnows(w) /\ o \in Ops /\ j \in Journals
      /\ DirectoryOK /\ Sound(Disk, unread) /\ Disk \in Directories
  BY <1>2, RecoveryFacts
<1>4. ASSUME NEW state \in States, NEW next, Move(w, state, next)
      PROVE  KeepsDest
  <2>1. [j EXCEPT !.state = state] \in Journals
    BY <1>3 DEF Journals
  <2> QED BY <1>3, <1>4, <2>1, WriteKeeps DEF Move
<1>5. CASE ResumeAnnounce(w) \/ ResumeRecord(w) \/ RollBack(w)
  BY <1>4, <1>5 DEF ResumeAnnounce, ResumeRecord, RollBack, States
<1>6. CASE ResumeVerify(w) \/ ResumeComplete(w)
  BY <1>4, <1>6, SameKeeps DEF ResumeVerify, ResumeComplete, States
<1>7. CASE ResumeLink(w)
  <2>1. ASSUME CanLink, Becomes([Disk EXCEPT !.dest = o])
        PROVE  KeepsDest
    <3>1. [Disk EXCEPT !.dest = o] \in Directories
      BY <1>3 DEF Directories
    <3> QED BY <1>3, <2>1, <3>1, BecomesKeeps DEF CanLink
  <2> QED BY <1>7, <2>1, SameKeeps DEF ResumeLink
<1>8. ASSUME NEW part \in {"dest", "temp", "receipt"}, Becomes(Removed(Disk, o, part)),
             part = "dest" => recover[w].at = "remove dest",
             part = "receipt" => Disk.dest \notin Ops
      PROVE  KeepsDest
  <2>1. part = "dest" => Disk.dest = o /\ Disk.journal[o].state = "rolling_back"
    BY <1>3, <1>8 DEF RecoveryKnows
  <2>2. /\ Removed(Disk, o, part) \in Directories
        /\ Removed(Disk, o, part).dest = IF part = "dest" THEN "absent" ELSE Disk.dest
    BY <1>3, <1>8, <2>1, SoundRemoval
  <2> QED BY <1>3, <1>8, <2>1, <2>2, BecomesKeeps
<1>9. ASSUME Becomes(Disk) PROVE KeepsDest
  BY <1>3, <1>9, BecomesKeeps
<1>10. CASE ResumeClean(w)
  BY <1>8, <1>10, SameKeeps DEF ResumeClean
<1>11. CASE RemoveAll(w)
  <2>1. CASE RemovePart(w, "remove dest", "dest", "remove temp")
    BY <1>8, <2>1, SameKeeps DEF RemovePart, Doing
  <2>2. CASE RemovePart(w, "remove temp", "temp", "remove receipt")
    BY <1>8, <2>2, SameKeeps DEF RemovePart, Doing
  <2>3. CASE RemovePart(w, "remove receipt", "receipt", "finish")
    <3>1. Disk.dest \notin Ops
      BY <1>3, <2>3 DEF RemovePart, Doing, RecoveryKnows, Removing
    <3> QED BY <1>8, <1>9, <2>3, <3>1, SameKeeps DEF RemovePart
  <2>4. CASE LeaveReceipt(w)
    BY <2>4, SameKeeps DEF LeaveReceipt
  <2> QED BY <1>11, <2>1, <2>2, <2>3, <2>4 DEF RemoveAll
<1>12. CASE DropAll(w)
  <2>1. CASE Drop(w, "drop temp", "temp", "drop receipt")
    BY <1>8, <2>1, SameKeeps DEF Drop
  <2>2. CASE Drop(w, "drop receipt", "receipt", "finish")
    <3>1. Disk.dest \notin Ops
      BY <1>3, <2>2 DEF Drop, Doing, RecoveryKnows, Removing
    <3> QED BY <1>8, <1>9, <2>2, <3>1, SameKeeps DEF Drop
  <2> QED BY <1>12, <2>1, <2>2 DEF DropAll
<1>13. CASE GiveUp(w) \/ Finish(w)
  <2>1. /\ [j EXCEPT !.state = "rollback_failed"] \in Journals
        /\ [j EXCEPT !.state = "rolled_back"] \in Journals
    BY <1>3 DEF Journals, States
  <2> QED BY <1>3, <1>13, <2>1, WriteKeeps DEF GiveUp, Finish
<1> QED BY <1>2, <1>5, <1>6, <1>7, <1>10, <1>11, <1>12, <1>13 DEF Recover

LEMMA StepKeeps ==
  ASSUME PatchInv, [Next]_vars
  PROVE  KeepsDest \/ PowerLoss
<1>1. ASSUME OthersCreate PROVE KeepsDest
  BY <1>1 DEF OthersCreate, KeepsDest
<1> QED BY <1>1, AttemptKeeps, RecoveryKeeps, SameKeeps
        DEF Next, Review, SourceChanges, Killed, vars

\* The destination only appears where nothing is, or is removed by the rollback
\* of the attempt that created it, or is forgotten by a power loss (hard_link
\* does not replace; rollback_patch_output removes after it wrote RollingBack).
THEOREM NeverClobbersCorrect ==
  ASSUME Separate
  PROVE  Spec => NeverClobbers
<1>1. PatchInv /\ [Next]_vars => (KeepsDest \/ PowerLoss)
  BY StepKeeps
<1>2. PatchInv /\ [Next]_vars =>
        [Disk'.dest # Disk.dest =>
           \/ Disk.dest = "absent"
           \/ Disk.dest \in Ops /\ Disk.journal[Disk.dest].state = "rolling_back"
           \/ PowerLoss]_vars
  BY <1>1 DEF KeepsDest
<1> QED BY <1>2, PatchInvariant, PTL DEF Spec, NeverClobbers

=============================================================================

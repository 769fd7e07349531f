--------------------------- MODULE CampaignProofs ---------------------------
(***************************************************************************)
(* The dataset and its readers, for any advisories, patches, files and any *)
(* order of the commands, killed or not.  The sweeps: none evaluates a CVE *)
(* its seed was trained on unless a fingerprint was borrowed               *)
(* (LeaksAreBorrowed).  The dataset: what every record in memory and in a  *)
(* file satisfies (CollectionTyped), one record per CVE (EntriesSingle),   *)
(* what became of the advisories (Accounted), and what phase 6 draws its   *)
(* sample from (FromLatest).                                               *)
(***************************************************************************)
EXTENDS Campaign, SelectionProofs, TLAPS

-----------------------------------------------------------------------------
(* The sweeps. *)

\* What is in the cache under a fingerprint with training CVEs was trained on no others,
\* unless a sweep with another split filed it.
CacheTrained ==
    \A fp \in DOMAIN cache :
        fp.training # {} /\ fp \notin misfiled => cache[fp] \subseteq fp.training

\* The slot of a run after the runs rs, and whether its seed is perhaps not of its split.
SlotIn(rs, run) == IF run.source = 0 THEN FingerprintOf(run) ELSE FingerprintOf(rs[run.source])
BorrowsIn(rs, run) == ~run.targeted /\ run.source # 0 /\ rs[run.source].training # run.training
MixedIn(rs, mis, run) == BorrowsIn(rs, run) \/ SlotIn(rs, run) \in mis

\* What is known of a run: its own split separates training and validation; a targeted
\* one has no training part; and its seed was trained on CVEs of its slot only, unless the
\* slot was borrowed.
Sound(rs, mis, run) ==
    /\ run.source \in 0..Len(rs)
    /\ run.targeted => run.training = {}
    /\ ~run.targeted => run.validation \cap run.training = {}
    /\ SlotIn(rs, run).training # {} /\ ~MixedIn(rs, mis, run) =>
            run.trained \subseteq SlotIn(rs, run).training

RunsSound == \A i \in 1..Len(runs) : Sound(runs, misfiled, runs[i])

IsSequence(rs) == \E S : rs \in Seq(S)

SeedsInv == IsSequence(runs) /\ CacheTrained /\ RunsSound

-----------------------------------------------------------------------------
(* Appending a run, filling a slot of the cache. *)

LEMMA AppendedSequence ==
    ASSUME NEW rs, IsSequence(rs), NEW run
    PROVE  /\ IsSequence(Append(rs, run))
           /\ Len(rs) \in Nat
           /\ Len(Append(rs, run)) = Len(rs) + 1
           /\ \A i \in 1..Len(rs) : Append(rs, run)[i] = rs[i]
           /\ Append(rs, run)[Len(rs) + 1] = run
<1>1. PICK S : rs \in Seq(S)
    BY DEF IsSequence
<1>2. rs \in Seq(S \cup {run}) /\ run \in S \cup {run}
    BY <1>1
<1>3. Append(rs, run) \in Seq(S \cup {run})
    BY <1>2
<1>4. IsSequence(Append(rs, run))
    BY <1>3 DEF IsSequence
<1> QED
    BY <1>2, <1>4

\* The training CVEs of a slot.
LEMMA SlotTraining ==
    ASSUME NEW rs, NEW run
    PROVE  SlotIn(rs, run).training = IF run.source = 0 THEN run.training ELSE rs[run.source].training
BY DEF SlotIn, FingerprintOf, Fingerprint

LEMMA SlotsNow ==
    ASSUME NEW run
    PROVE  /\ Slot(run) = SlotIn(runs, run)
           /\ Borrows(run) = BorrowsIn(runs, run)
           /\ Mixed(run) = MixedIn(runs, misfiled, run)
BY DEF Slot, SlotIn, Borrows, BorrowsIn, Mixed, MixedIn

\* A sound run stays so while runs are added, and slots misfiled.
LEMMA StaysSound ==
    ASSUME NEW rs, Len(rs) \in Nat, NEW mis, NEW run, Sound(rs, mis, run),
           NEW more, Len(more) \in Nat, Len(rs) <= Len(more), \A i \in 1..Len(rs) : more[i] = rs[i],
           NEW others, mis \subseteq others
    PROVE  Sound(more, others, run)
<1>1. run.source # 0 => run.source \in 1..Len(rs) /\ more[run.source] = rs[run.source]
    BY DEF Sound
<1>2. SlotIn(more, run) = SlotIn(rs, run)
    BY <1>1 DEF SlotIn
<1>3. BorrowsIn(more, run) = BorrowsIn(rs, run)
    BY <1>1 DEF BorrowsIn
<1>4. ~MixedIn(more, others, run) => ~MixedIn(rs, mis, run)
    BY <1>2, <1>3 DEF MixedIn
<1>5. run.source \in 0..Len(more)
    BY DEF Sound
<1> QED
    BY <1>2, <1>4, <1>5 DEF Sound

\* A run that is sound when it is started stays so, and so do the others.
LEMMA AppendedSound ==
    ASSUME IsSequence(runs), RunsSound, NEW run, Sound(runs, misfiled, run), runs' = Append(runs, run),
           misfiled \subseteq misfiled'
    PROVE  IsSequence(runs') /\ RunsSound'
<1>1. /\ IsSequence(runs') /\ Len(runs) \in Nat /\ Len(runs') = Len(runs) + 1
      /\ \A i \in 1..Len(runs) : runs'[i] = runs[i]
      /\ runs'[Len(runs) + 1] = run
    BY AppendedSequence
<1>2. ASSUME NEW r, Sound(runs, misfiled, r) PROVE Sound(runs', misfiled', r)
    <2>1. Len(runs') \in Nat /\ Len(runs) <= Len(runs')
        BY <1>1
    <2> QED
        BY <1>1, <1>2, <2>1, StaysSound
<1>3. ASSUME NEW i \in 1..Len(runs') PROVE Sound(runs', misfiled', runs'[i])
    <2>1. CASE i \in 1..Len(runs)
        BY <1>1, <1>2, <2>1 DEF RunsSound
    <2>2. CASE i = Len(runs) + 1
        BY <1>1, <1>2, <2>2
    <2> QED
        BY <1>1, <2>1, <2>2
<1> QED
    BY <1>1, <1>3 DEF RunsSound

\* The runs are as sound when another slot is filled.
LEMMA SameRunsSound ==
    ASSUME IsSequence(runs), RunsSound, UNCHANGED runs, misfiled \subseteq misfiled'
    PROVE  IsSequence(runs') /\ RunsSound'
<1>1. Len(runs) \in Nat
    BY DEF IsSequence
<1>2. ASSUME NEW r, Sound(runs, misfiled, r) PROVE Sound(runs', misfiled', r)
    BY <1>1, <1>2, StaysSound
<1> QED
    BY <1>2 DEF RunsSound, IsSequence

\* A slot is filled with a seed that was trained on its training CVEs, or misfiled.
LEMMA FiledTrained ==
    ASSUME CacheTrained, NEW fp, NEW trained, NEW mixed, FileSeed(fp, trained, mixed),
           fp.training # {} /\ ~mixed => trained \subseteq fp.training
    PROVE  CacheTrained' /\ misfiled \subseteq misfiled'
BY DEF CacheTrained, FileSeed, Put

-----------------------------------------------------------------------------
(* The programs. *)

\* What is known of a run before it has a seed.
Split(run) ==
    /\ run.source \in 0..Len(runs)
    /\ run.targeted => run.training = {} /\ run.trained = {}
    /\ ~run.targeted => run.validation \cap run.training = {} /\ run.trained = run.training

\* With a seed of its own it is sound, and files it rightly or as borrowed.
LEMMA OwnSeed ==
    ASSUME NEW run, Split(run)
    PROVE  /\ ~Borrows(run) => run.trained \subseteq Slot(run).training
           /\ Sound(runs, misfiled, run)
<1>1. ~BorrowsIn(runs, run) => run.trained \subseteq SlotIn(runs, run).training
    BY SlotTraining DEF Split, BorrowsIn
<1> QED
    BY <1>1, SlotsNow DEF Split, Sound, MixedIn

\* So it is with any seed trained on CVEs of its slot.
LEMMA OtherSeed ==
    ASSUME NEW run, NEW tool, NEW targeted, NEW source, NEW size, NEW training, NEW validation,
           NEW trained, run = Run(tool, targeted, source, size, training, validation, trained),
           Split(run), NEW other,
           Slot(run).training # {} /\ Slot(run) \notin misfiled => other \subseteq Slot(run).training
    PROVE  Sound(runs, misfiled, [run EXCEPT !.trained = other])
<1> DEFINE given == Run(tool, targeted, source, size, training, validation, other)
<1>1. [run EXCEPT !.trained = other] = given
    BY DEF Run
<1>2. /\ given.source = run.source /\ given.targeted = run.targeted /\ given.training = run.training
      /\ given.validation = run.validation /\ given.size = run.size /\ given.trained = other
    BY DEF Run
<1> HIDE DEF given
<1>3. SlotIn(runs, given) = SlotIn(runs, run) /\ BorrowsIn(runs, given) = BorrowsIn(runs, run)
    BY <1>2 DEF SlotIn, FingerprintOf, BorrowsIn
<1>4. SlotIn(runs, run) = Slot(run)
    BY SlotsNow
<1>5. Sound(runs, misfiled, given)
    BY <1>2, <1>3, <1>4 DEF Split, Sound, MixedIn
<1> QED
    BY <1>1, <1>5

LEMMA LaunchKeepsInv ==
    ASSUME SeedsInv, NEW source, NEW size, NEW training, NEW validation, NEW trained, NEW targeted, NEW force,
           Split(Run("semgrep", targeted, source, size, training, validation, trained)),
           LaunchOrDie(Run("semgrep", targeted, source, size, training, validation, trained), force)
    PROVE  SeedsInv'
<1> DEFINE run == Run("semgrep", targeted, source, size, training, validation, trained)
<1>1. CASE /\ Hit(run, force) /\ runs' = Append(runs, [run EXCEPT !.trained = cache[Slot(run)]])
           /\ UNCHANGED <<cache, misfiled>>
    <2>1. Slot(run).training # {} /\ Slot(run) \notin misfiled => cache[Slot(run)] \subseteq Slot(run).training
        BY <1>1 DEF SeedsInv, CacheTrained, Hit
    <2>2. Sound(runs, misfiled, [run EXCEPT !.trained = cache[Slot(run)]])
        BY <2>1, OtherSeed
    <2>3. IsSequence(runs') /\ RunsSound'
        BY <1>1, <2>2, AppendedSound DEF SeedsInv
    <2>4. CacheTrained'
        BY <1>1 DEF SeedsInv, CacheTrained
    <2> QED
        BY <2>3, <2>4 DEF SeedsInv
<1>2. Sound(runs, misfiled, run) /\ (~Borrows(run) => run.trained \subseteq Slot(run).training)
    BY OwnSeed
<1>3. CASE FileSeed(Slot(run), run.trained, Borrows(run)) /\ (runs' = Append(runs, run) \/ UNCHANGED runs)
    <2>1. CacheTrained' /\ misfiled \subseteq misfiled'
        BY <1>2, <1>3, FiledTrained DEF SeedsInv
    <2>2. CASE runs' = Append(runs, run)
        BY <1>2, <2>1, <2>2, AppendedSound DEF SeedsInv
    <2>3. CASE UNCHANGED runs
        BY <2>1, <2>3, SameRunsSound DEF SeedsInv
    <2> QED
        BY <1>3, <2>2, <2>3
<1>4. CASE runs' = Append(runs, run) /\ UNCHANGED <<cache, misfiled>>
    <2>1. IsSequence(runs') /\ RunsSound'
        BY <1>2, <1>4, AppendedSound DEF SeedsInv
    <2>2. CacheTrained'
        BY <1>4 DEF SeedsInv, CacheTrained
    <2> QED
        BY <2>1, <2>2 DEF SeedsInv
<1> QED
    BY <1>1, <1>3, <1>4 DEF LaunchOrDie, Launch, Die

LEMMA SourcesEarlier ==
    ASSUME IsSequence(runs), NEW source \in Sources
    PROVE  source \in 0..Len(runs)
BY AppendedSequence DEF Sources

LEMMA SemgrepSweepKeepsInv ==
    ASSUME SeedsInv, NEW dataset, SemgrepSweep(dataset)
    PROVE  SeedsInv'
<1>1. PICK size \in Sizes, skip \in Skips, force \in BOOLEAN, source \in Sources :
        \E selected, training :
            LaunchOrDie(Run("semgrep", FALSE, source, size, training,
                            Validation(selected, training), training), force)
    BY DEF SemgrepSweep
<1>2. PICK selected, training :
            LaunchOrDie(Run("semgrep", FALSE, source, size, training,
                            Validation(selected, training), training), force)
    BY <1>1
<1>3. source \in 0..Len(runs)
    BY SourcesEarlier DEF SeedsInv
<1>4. Split(Run("semgrep", FALSE, source, size, training, Validation(selected, training), training))
    BY <1>3 DEF Split, Run, Validation
<1> QED
    BY <1>2, <1>4, LaunchKeepsInv

LEMMA TargetedSweepKeepsInv ==
    ASSUME SeedsInv, NEW dataset, TargetedSweep(dataset)
    PROVE  SeedsInv'
<1>1. PICK size \in Sizes, skip \in Skips, only \in Onlys \ {{}}, force \in BOOLEAN, source \in Sources :
        LaunchOrDie(Run("semgrep", TRUE, source, size, {}, Eligible(dataset, skip) \cap only, {}), force)
    BY DEF TargetedSweep
<1>2. source \in 0..Len(runs)
    BY SourcesEarlier DEF SeedsInv
<1>3. Split(Run("semgrep", TRUE, source, size, {}, Eligible(dataset, skip) \cap only, {}))
    BY <1>2 DEF Split, Run
<1> QED
    BY <1>1, <1>3, LaunchKeepsInv

LEMMA JoernSweepKeepsInv ==
    ASSUME SeedsInv, NEW dataset, JoernSweep(dataset), UNCHANGED <<cache, misfiled>>
    PROVE  SeedsInv'
<1>1. PICK run : runs' = Append(runs, run) /\ Sound(runs, misfiled, run)
    <2>1. PICK size, selected :
            \/ runs' = Append(runs, Run("catalog", FALSE, 0, size, {}, selected, {}))
            \/ \E training : runs' = Append(runs, Run("joern", FALSE, 0, size, training,
                                                      Validation(selected, training), training))
        BY DEF JoernSweep
    <2>2. 0 \in 0..Len(runs)
        BY AppendedSequence DEF SeedsInv
    <2>3. Sound(runs, misfiled, Run("catalog", FALSE, 0, size, {}, selected, {}))
        BY <2>2, OwnSeed DEF Run, Split
    <2>4. ASSUME NEW training
          PROVE  Sound(runs, misfiled, Run("joern", FALSE, 0, size, training,
                                           Validation(selected, training), training))
        BY <2>2, OwnSeed DEF Run, Split, Validation
    <2> QED
        BY <2>1, <2>3, <2>4
<1>2. IsSequence(runs') /\ RunsSound'
    BY <1>1, AppendedSound DEF SeedsInv
<1>3. CacheTrained'
    BY DEF SeedsInv, CacheTrained
<1> QED
    BY <1>2, <1>3 DEF SeedsInv

LEMMA BootstrapKeepsInv ==
    ASSUME SeedsInv, NEW i \in 1..Len(runs), Bootstrap(runs[i]), UNCHANGED runs
    PROVE  SeedsInv'
<1> DEFINE run == runs[i]
<1>1. Sound(runs, misfiled, run)
    BY DEF SeedsInv, RunsSound
<1>2. FingerprintOf(run).training = run.training
    BY DEF FingerprintOf, Fingerprint
<1>3. Mixed(run) = MixedIn(runs, misfiled, run)
    BY SlotsNow
<1>4. run.training # {} /\ ~Mixed(run) => run.trained \subseteq run.training
    <2>1. run.training # {} /\ ~Mixed(run) => SlotIn(runs, run).training = run.training
        BY <1>1, <1>3, SlotTraining DEF Sound, MixedIn, BorrowsIn
    <2> QED
        BY <1>1, <1>3, <2>1 DEF Sound
<1>5. CacheTrained' /\ misfiled \subseteq misfiled'
    BY <1>2, <1>4, FiledTrained DEF SeedsInv, Bootstrap
<1> QED
    BY <1>5, SameRunsSound DEF SeedsInv

-----------------------------------------------------------------------------
(* The theorem. *)

LEMMA InitSeedsInv == Init => SeedsInv
<1> SUFFICES ASSUME Init PROVE SeedsInv
    OBVIOUS
<1>1. runs = <<>> /\ cache = [fp \in {} |-> {}]
    BY DEF Init, SeedsInit
<1>2. IsSequence(runs)
    <2>1. runs \in Seq({})
        BY <1>1
    <2> QED
        BY <2>1 DEF IsSequence
<1> QED
    BY <1>1, <1>2 DEF SeedsInv, CacheTrained, RunsSound

LEMMA NextKeepsSeedsInv == SeedsInv /\ [Next]_vars => SeedsInv'
<1> SUFFICES ASSUME SeedsInv, [Next]_vars PROVE SeedsInv'
    OBVIOUS
<1>1. CASE UNCHANGED seedsVars
    <2>1. UNCHANGED <<runs, cache, misfiled>>
        BY <1>1 DEF seedsVars
    <2>2. CacheTrained'
        BY <2>1 DEF SeedsInv, CacheTrained
    <2> QED
        BY <2>1, <2>2, SameRunsSound DEF SeedsInv
<1>2. CASE Sweeping
    <2>1. SeedsNext(Dataset)
        BY <1>2 DEF Sweeping
    <2>2. CASE SemgrepSweep(Dataset)
        BY <2>2, SemgrepSweepKeepsInv
    <2>3. CASE TargetedSweep(Dataset)
        BY <2>3, TargetedSweepKeepsInv
    <2>4. CASE JoernSweep(Dataset) /\ UNCHANGED <<cache, misfiled, deaths>>
        BY <2>4, JoernSweepKeepsInv
    <2>5. CASE (\E i \in 1..Len(runs) : Bootstrap(runs[i])) /\ UNCHANGED <<runs, deaths>>
        BY <2>5, BootstrapKeepsInv
    <2> QED
        BY <2>1, <2>2, <2>3, <2>4, <2>5 DEF SeedsNext
<1> QED
    BY <1>1, <1>2 DEF Next, vars

LEMMA SeedsInvImpliesLeaksBorrowed == SeedsInv => LeaksAreBorrowed
<1> SUFFICES ASSUME SeedsInv, NEW i \in 1..Len(runs), Separated(runs[i]), ~Mixed(runs[i])
             PROVE  runs[i].validation \cap runs[i].trained = {}
    BY DEF LeaksAreBorrowed
<1>1. Sound(runs, misfiled, runs[i]) /\ ~MixedIn(runs, misfiled, runs[i])
    BY SlotsNow DEF SeedsInv, RunsSound
<1>2. CASE ~runs[i].targeted /\ runs[i].training # {}
    <2>1. SlotIn(runs, runs[i]).training = runs[i].training
        BY <1>1, <1>2, SlotTraining DEF MixedIn, BorrowsIn
    <2> QED
        BY <1>1, <1>2, <2>1 DEF Sound
<1>3. CASE /\ runs[i].targeted /\ runs[i].source # 0 /\ runs[runs[i].source].training # {}
           /\ runs[i].validation \subseteq runs[runs[i].source].validation
    <2> DEFINE source == runs[runs[i].source]
    <2>1. SlotIn(runs, runs[i]).training = source.training
        BY <1>3, SlotTraining
    <2>2. runs[i].source \in 1..Len(runs) /\ runs[i].trained \subseteq source.training
        <3>1. Len(runs) \in Nat
            BY DEF SeedsInv, IsSequence
        <3> QED
            BY <1>1, <1>3, <2>1, <3>1 DEF Sound
    <2>3. Sound(runs, misfiled, source)
        BY <2>2 DEF SeedsInv, RunsSound
    <2>4. ~source.targeted
        BY <1>3, <2>3 DEF Sound
    <2>5. source.validation \cap source.training = {}
        BY <2>3, <2>4 DEF Sound
    <2> QED
        BY <1>3, <2>2, <2>5
<1> QED
    BY <1>2, <1>3 DEF Separated

\* A sweep evaluates a CVE that its seed was trained on only after a fingerprint was
\* borrowed, by itself or by the one that filed its seed, through any history of the
\* dataset, of the cache and of the runs (seed_cache.py, run_semgrep_sweep.py,
\* run_joern_sweep.py).
THEOREM SweepsLeakOnlyBorrowed == Spec => []LeaksAreBorrowed
<1>1. Init => SeedsInv
    BY InitSeedsInv
<1>2. SeedsInv /\ [Next]_vars => SeedsInv'
    BY NextKeepsSeedsInv
<1>3. SeedsInv => LeaksAreBorrowed
    BY SeedsInvImpliesLeaksBorrowed
<1> QED
    BY <1>1, <1>2, <1>3, PTL DEF Spec

-----------------------------------------------------------------------------
(* The diff of a commit: what parse_diff makes of it (patch_utils.py). *)

LEMMA LatestIs ==
    ASSUME NEW S \in SUBSET Nat, NEW b \in Nat, \A n \in S : n <= b
    PROVE  /\ Latest(S) \in S \cup {0}
           /\ \A n \in S : n <= Latest(S)
           /\ S # {} => Latest(S) \in S
           /\ Latest(S) \in Nat /\ Latest(S) <= b
<1> DEFINE T == S \cup {0}
<1>1. T \in SUBSET Nat /\ T # {} /\ \A n \in T : n <= b
  OBVIOUS
<1> HIDE DEF T
<1>2. \E m \in T : \A n \in T : n <= m
  BY <1>1, GreatestElement
<1>3. \E m \in T : \A n \in S : n <= m
  BY <1>2 DEF T
<1>4. Latest(S) \in T /\ \A n \in S : n <= Latest(S)
  BY <1>3 DEF Latest, T
<1>5. ASSUME S # {} PROVE Latest(S) \in S
  <2>1. PICK n \in S : TRUE
    BY <1>5
  <2>2. n <= Latest(S) /\ n \in Nat
    BY <1>4
  <2>3. CASE Latest(S) = 0
    <3>1. n = 0  BY <2>2, <2>3
    <3> QED  BY <3>1, <2>3
  <2> QED
    BY <1>4, <2>3 DEF T
<1>6. Latest(S) \in Nat /\ Latest(S) <= b
  <2>1. T \in SUBSET Nat /\ \A n \in T : n <= b
    BY DEF T
  <2> QED
    BY <1>4, <2>1
<1> QED
  BY <1>4, <1>5, <1>6 DEF T

ParserState == [file : Path \cup {NoPath}, lines : Seq(Nat), touched : BOOLEAN, old : Nat,
                bestFile : Path \cup {NoPath}, bestLines : Seq(Nat)]

LEMMA StartType == Start \in ParserState
<1>1. <<>> \in Seq(Nat) /\ 0 \in Nat /\ FALSE \in BOOLEAN /\ NoPath \in Path \cup {NoPath}
  OBVIOUS
<1> QED
  BY <1>1 DEF Start, ParserState

LEMMA CommitFileType ==
    ASSUME NEW s \in ParserState
    PROVE  /\ CommitFile(s) \in ParserState
           /\ CommitFile(s).old = s.old /\ CommitFile(s).file = s.file
           /\ CommitFile(s).lines = s.lines /\ CommitFile(s).touched = s.touched
<1> DEFINE ls == IF s.lines # <<>> THEN s.lines ELSE IF s.old > 0 THEN <<s.old>> ELSE <<>>
<1>1. ls \in Seq(Nat)
  BY DEF ParserState
<1>2. CommitFile(s) = s \/ CommitFile(s) = [s EXCEPT !.bestFile = s.file, !.bestLines = ls]
  BY DEF CommitFile
<1> HIDE DEF ls
<1>3. [s EXCEPT !.bestFile = s.file, !.bestLines = ls] \in ParserState
  BY <1>1 DEF ParserState
<1> QED
  BY <1>2, <1>3 DEF ParserState

LEMMA ReadLineType ==
    ASSUME NEW s \in ParserState, NEW line \in DiffLine
    PROVE  ReadLine(s, line) \in ParserState
<1>1. CASE line.kind = "old"
  <2>1. ReadLine(s, line) = NextFile(s, line)
    BY <1>1 DEF ReadLine
  <2>2. CommitFile(s) \in ParserState
    BY CommitFileType
  <2>3. (IF line.path \in Python THEN line.path ELSE NoPath) \in Path \cup {NoPath}
    BY DEF DiffLine
  <2>4. <<>> \in Seq(Nat)
    OBVIOUS
  <2> QED
    BY <2>1, <2>2, <2>3, <2>4 DEF NextFile, ParserState
<1>2. CASE line.kind # "old" /\ s.file = NoPath
  BY <1>2 DEF ReadLine
<1>3. CASE line.kind = "hunk" /\ s.file # NoPath
  <2>1. ReadLine(s, line) = [s EXCEPT !.old = line.from, !.touched = TRUE]
    BY <1>3 DEF ReadLine
  <2>2. line.from \in Nat
    BY DEF DiffLine
  <2> QED
    BY <2>1, <2>2 DEF ParserState
<1>4. CASE line.kind = "removed" /\ s.file # NoPath
  <2>1. ReadLine(s, line) = [s EXCEPT !.lines = Append(s.lines, s.old), !.old = s.old + 1]
    BY <1>4 DEF ReadLine, RemovedLine
  <2>2. Append(s.lines, s.old) \in Seq(Nat) /\ s.old + 1 \in Nat
    BY DEF ParserState
  <2> QED
    BY <2>1, <2>2 DEF ParserState
<1>5. CASE line.kind = "added" /\ s.file # NoPath
  BY <1>5 DEF ReadLine
<1>6. CASE line.kind = "other" /\ s.file # NoPath
  <2>1. ReadLine(s, line) = [s EXCEPT !.old = s.old + 1]
    BY <1>6 DEF ReadLine
  <2>2. s.old + 1 \in Nat
    BY DEF ParserState
  <2> QED
    BY <2>1, <2>2 DEF ParserState
<1>7. line.kind \in {"old", "hunk", "removed", "added", "other"}
  BY DEF DiffLine
<1> QED
  BY <1>1, <1>2, <1>3, <1>4, <1>5, <1>6, <1>7

\* The states of the parser, line by line.
IsParse(f, diff) ==
    f = [i \in 0..Len(diff) |-> IF i = 0 THEN Start ELSE ReadLine(f[i - 1], diff[i])]

ParsedUp(f, diff) ==
    /\ f \in [0..Len(diff) -> ParserState]
    /\ f[0] = Start /\ ParseDiff(diff) = CommitFile(f[Len(diff)])
    /\ \A i \in 1..Len(diff) : f[i] = ReadLine(f[i - 1], diff[i])

LEMMA IsParseSteps ==
    ASSUME NEW diff \in Seq(DiffLine), NEW f, IsParse(f, diff)
    PROVE  /\ f \in [0..Len(diff) -> ParserState]
           /\ f[0] = Start
           /\ \A i \in 1..Len(diff) : f[i] = ReadLine(f[i - 1], diff[i])
<1>1. Len(diff) \in Nat
  OBVIOUS
<1>2. ASSUME NEW i \in 0..Len(diff)
      PROVE  f[i] = IF i = 0 THEN Start ELSE ReadLine(f[i - 1], diff[i])
  BY Zenon DEF IsParse
<1>3. f[0] = Start
  BY <1>1, <1>2
<1>4. ASSUME NEW i \in 1..Len(diff) PROVE f[i] = ReadLine(f[i - 1], diff[i])
  <2>1. i \in 0..Len(diff) /\ i # 0
    BY <1>1
  <2> QED
    BY <1>2, <2>1
<1> DEFINE G == {n \in Nat : n <= Len(diff) => f[n] \in ParserState}
<1>5. 0 \in G
  BY <1>3, StartType
<1>6. \A n \in Nat : n \in G => n + 1 \in G
  <2> SUFFICES ASSUME NEW n \in Nat, n \in G, n + 1 <= Len(diff) PROVE f[n + 1] \in ParserState
    OBVIOUS
  <2>1. n + 1 \in 1..Len(diff) /\ (n + 1) - 1 = n /\ f[n] \in ParserState
    BY <1>1
  <2>2. diff[n + 1] \in DiffLine
    BY <2>1
  <2>3. ReadLine(f[n], diff[n + 1]) \in ParserState
    BY <2>1, <2>2, ReadLineType
  <2> QED
    BY <2>1, <2>3, <1>4
<1> HIDE DEF G
<1>7. Nat \subseteq G
  BY <1>5, <1>6, Induction
<1>8. f \in [0..Len(diff) -> ParserState]
  <2>1. \A n \in 0..Len(diff) : f[n] \in ParserState
    BY <1>7, <1>1 DEF G
  <2>2. f = [n \in 0..Len(diff) |-> f[n]]
    BY DEF IsParse
  <2> QED
    BY <2>1, <2>2
<1> QED
  BY <1>3, <1>4, <1>8

LEMMA ParseSteps ==
    ASSUME NEW diff \in Seq(DiffLine)
    PROVE  \E f : ParsedUp(f, diff)
<1> DEFINE step == [i \in 1..Len(diff) |-> [x \in ParserState |-> ReadLine(x, diff[i])]]
<1>1. Len(diff) \in Nat /\ Start \in ParserState
  BY StartType
<1>2. \A i \in 1..Len(diff), x \in ParserState : step[i][x] = ReadLine(x, diff[i])
  OBVIOUS
<1>3. \A i \in 1..Len(diff) : \A x \in ParserState : step[i][x] \in ParserState
  BY <1>2, ReadLineType
<1> HIDE DEF step
<1>4. PICK f \in [0..Len(diff) -> ParserState] :
        f[0] = Start /\ \A i \in 1..Len(diff) : f[i] = step[i][f[i - 1]]
  <2>1. \E f : Iterates(f, Len(diff), ParserState, Start, step)
    BY <1>1, <1>3, RecursiveFunction
  <2> QED
    BY <2>1 DEF Iterates
<1>5. IsParse(f, diff)
  <2>1. ASSUME NEW i \in 0..Len(diff)
        PROVE f[i] = IF i = 0 THEN Start ELSE ReadLine(f[i - 1], diff[i])
    <3>1. CASE i = 0
      BY <3>1, <1>4
    <3>2. CASE i # 0
      <4>1. i \in 1..Len(diff) /\ i - 1 \in 0..Len(diff)
        BY <3>2, <1>1
      <4> QED
        BY <4>1, <3>2, <1>2, <1>4
    <3> QED
      BY <3>1, <3>2
  <2>2. f = [i \in 0..Len(diff) |-> f[i]]
    OBVIOUS
  <2> QED
    BY <2>1, <2>2 DEF IsParse
<1> DEFINE g == CHOOSE h : IsParse(h, diff)
<1>6. IsParse(g, diff)
  BY <1>5
<1>7. ParseDiff(diff) = CommitFile(g[Len(diff)])
  BY DEF ParseDiff, IsParse
<1> HIDE DEF g
<1> QED
  BY <1>6, <1>7, IsParseSteps DEF ParsedUp

LEMMA PositionsType ==
    ASSUME NEW diff \in Seq(DiffLine), NEW kind
    PROVE  /\ Positions(diff, kind) \in SUBSET Nat
           /\ \A i \in Positions(diff, kind) : i \in 1..Len(diff) /\ i <= Len(diff)
BY DEF Positions

LEMMA SectionFacts ==
    ASSUME NEW diff \in Seq(DiffLine), NEW i \in Nat
    PROVE  /\ SectionOf(diff, i) \in 0..i
           /\ SectionOf(diff, i) # 0 => SectionOf(diff, i) \in Positions(diff, "old")
           /\ \A o \in Positions(diff, "old") : o <= i => o <= SectionOf(diff, i)
<1> DEFINE S == {o \in Positions(diff, "old") : o <= i}
<1>1. S \in SUBSET Nat /\ \A o \in S : o <= i
  BY PositionsType
<1>2. SectionOf(diff, i) = Latest(S)
  BY DEF SectionOf
<1>3. \A o \in Positions(diff, "old") : o <= i => o \in S
  OBVIOUS
<1>4. \A o \in S : o \in Positions(diff, "old")
  OBVIOUS
<1> HIDE DEF S
<1>5. Latest(S) \in S \cup {0} /\ \A o \in S : o <= Latest(S)
  BY <1>1, LatestIs
<1>6. Latest(S) \in Nat /\ Latest(S) <= i
  BY <1>1, LatestIs
<1> QED
  BY <1>2, <1>3, <1>4, <1>5, <1>6

LEMMA HunkFacts ==
    ASSUME NEW diff \in Seq(DiffLine), NEW i \in Nat
    PROVE  /\ HunkOf(diff, i) \in Nat /\ (HunkOf(diff, i) # 0 => HunkOf(diff, i) < i)
           /\ HunkOf(diff, i) # 0 => HunkOf(diff, i) \in Positions(diff, "hunk")
           /\ \A h \in Positions(diff, "hunk") : h < i => h <= HunkOf(diff, i)
<1> DEFINE S == {h \in Positions(diff, "hunk") : h < i}
<1>1. S \in SUBSET Nat /\ \A h \in S : h <= i /\ h < i
  BY PositionsType
<1>2. HunkOf(diff, i) = Latest(S)
  BY DEF HunkOf
<1>3. \A h \in Positions(diff, "hunk") : h < i => h \in S
  OBVIOUS
<1>4. \A h \in S : h \in Positions(diff, "hunk")
  OBVIOUS
<1> HIDE DEF S
<1>5. Latest(S) \in S \cup {0} /\ \A h \in S : h <= Latest(S)
  BY <1>1, LatestIs
<1>6. Latest(S) \in Nat
  BY <1>1, LatestIs
<1>7. Latest(S) # 0 => Latest(S) \in S /\ Latest(S) < i
  BY <1>1, <1>5
<1> QED
  BY <1>2, <1>3, <1>4, <1>5, <1>6, <1>7

\* A line that begins no section is in that of the line before it, ...
LEMMA SectionStep ==
    ASSUME NEW diff \in Seq(DiffLine), NEW i \in Nat
    PROVE  /\ i + 1 \in Positions(diff, "old") => SectionOf(diff, i + 1) = i + 1
           /\ i + 1 \notin Positions(diff, "old") => SectionOf(diff, i + 1) = SectionOf(diff, i)
<1>1. ASSUME i + 1 \in Positions(diff, "old") PROVE SectionOf(diff, i + 1) = i + 1
  <2>1. SectionOf(diff, i + 1) \in 0..(i + 1) /\ i + 1 <= SectionOf(diff, i + 1)
    BY <1>1, SectionFacts
  <2> QED
    BY <2>1
<1>2. ASSUME i + 1 \notin Positions(diff, "old") PROVE SectionOf(diff, i + 1) = SectionOf(diff, i)
  <2>1. \A o \in Positions(diff, "old") : o <= i + 1 <=> o <= i
    <3>1. \A o \in Positions(diff, "old") : o \in Nat /\ o # i + 1
      BY <1>2, PositionsType
    <3> QED
      BY <3>1
  <2>2. {o \in Positions(diff, "old") : o <= i + 1} = {o \in Positions(diff, "old") : o <= i}
    BY <2>1
  <2> QED
    BY <2>2 DEF SectionOf
<1> QED
  BY <1>1, <1>2

\* ... and the hunk is the same after a line that is none.
LEMMA HunkStep ==
    ASSUME NEW diff \in Seq(DiffLine), NEW i \in Nat
    PROVE  /\ i \in Positions(diff, "hunk") => HunkOf(diff, i + 1) = i
           /\ i \notin Positions(diff, "hunk") => HunkOf(diff, i + 1) = HunkOf(diff, i)
<1>1. ASSUME i \in Positions(diff, "hunk") PROVE HunkOf(diff, i + 1) = i
  <2>1. i <= HunkOf(diff, i + 1) /\ HunkOf(diff, i + 1) \in Nat
    BY <1>1, HunkFacts
  <2>2. i # 0
    BY <1>1, PositionsType
  <2>3. HunkOf(diff, i + 1) < i + 1
    BY <2>1, <2>2, HunkFacts
  <2> QED
    BY <2>1, <2>3
<1>2. ASSUME i \notin Positions(diff, "hunk") PROVE HunkOf(diff, i + 1) = HunkOf(diff, i)
  <2>1. \A h \in Positions(diff, "hunk") : h < i + 1 <=> h < i
    <3>1. \A h \in Positions(diff, "hunk") : h \in Nat /\ h # i
      BY <1>2, PositionsType
    <3> QED
      BY <3>1
  <2>2. {h \in Positions(diff, "hunk") : h < i + 1} = {h \in Positions(diff, "hunk") : h < i}
    BY <2>1
  <2> QED
    BY <2>2 DEF HunkOf
<1> QED
  BY <1>1, <1>2

\* The lines of the old file between a hunk and line i.
OldLines(diff, h, i) == {j \in (h + 1)..(i - 1) : diff[j].kind \in {"removed", "other"}}

\* What the number of a line is after each kind of line.
LEMMA OldNumberStep ==
    ASSUME NEW diff \in Seq(DiffLine), NEW i \in 1..Len(diff)
    PROVE  /\ OldNumber(diff, i) = diff[HunkOf(diff, i)].from
                                        + Cardinality(OldLines(diff, HunkOf(diff, i), i))
           /\ diff[i].kind = "hunk" => OldNumber(diff, i + 1) = diff[i].from
           /\ diff[i].kind \in {"removed", "other"} /\ HunkOf(diff, i) # 0 =>
                    OldNumber(diff, i + 1) = OldNumber(diff, i) + 1
           /\ diff[i].kind \in {"old", "added"} => OldNumber(diff, i + 1) = OldNumber(diff, i)
<1> PICK k : k = i + 1
  OBVIOUS
<1>1. \A j : OldNumber(diff, j) = diff[HunkOf(diff, j)].from + Cardinality(OldLines(diff, HunkOf(diff, j), j))
  BY DEF OldNumber, OldLines
<1>2. ASSUME diff[i].kind = "hunk" PROVE OldNumber(diff, k) = diff[i].from
  <2>1. i \in Positions(diff, "hunk")
    BY <1>2 DEF Positions
  <2>2. HunkOf(diff, k) = i
    BY <2>1, HunkStep
  <2>3. OldLines(diff, i, k) = {}
    BY DEF OldLines
  <2>4. Cardinality(OldLines(diff, i, k)) = 0
    BY <2>3, FS_EmptySet
  <2>5. diff[i].from \in Nat
    <3>1. diff[i] \in DiffLine
      OBVIOUS
    <3> QED
      BY <3>1 DEF DiffLine
  <2> QED
    BY <1>1, <2>2, <2>4, <2>5
<1>3. ASSUME diff[i].kind # "hunk" PROVE HunkOf(diff, k) = HunkOf(diff, i)
  <2>1. i \notin Positions(diff, "hunk")
    BY <1>3 DEF Positions
  <2> QED
    BY <2>1, HunkStep
<1> PICK h : h = HunkOf(diff, i)
  OBVIOUS
<1>4. h \in Nat /\ (h # 0 => h < i /\ h \in 1..Len(diff))
  BY HunkFacts, PositionsType
<1>5. IsFiniteSet(OldLines(diff, h, i))
  <2>1. IsFiniteSet((h + 1)..(i - 1))
    <3>1. h + 1 \in Int /\ i - 1 \in Int
      BY <1>4
    <3> QED
      BY <3>1, FS_Interval
  <2>2. OldLines(diff, h, i) \subseteq (h + 1)..(i - 1)
    BY DEF OldLines
  <2> QED
    BY <2>1, <2>2, FS_Subset
<1>6. ASSUME diff[i].kind \in {"removed", "other"}, h # 0
      PROVE  OldNumber(diff, k) = OldNumber(diff, i) + 1
  <2>1. HunkOf(diff, k) = h
    BY <1>3, <1>6
  <2>2. OldLines(diff, h, k) = OldLines(diff, h, i) \cup {i}
    BY <1>4, <1>6 DEF OldLines
  <2>3. i \notin OldLines(diff, h, i)
    BY <1>4 DEF OldLines
  <2>4. Cardinality(OldLines(diff, h, k)) = Cardinality(OldLines(diff, h, i)) + 1
    BY <1>5, <2>2, <2>3, FS_AddElement
  <2>5. diff[h].from \in Nat /\ Cardinality(OldLines(diff, h, i)) \in Nat
    <3>1. diff[h] \in DiffLine
      BY <1>4, <1>6
    <3>2. Cardinality(OldLines(diff, h, i)) \in Nat
      BY <1>5, FS_CardinalityType
    <3> QED
      BY <3>1, <3>2 DEF DiffLine
  <2> QED
    BY <1>1, <2>1, <2>4, <2>5
<1>7. ASSUME diff[i].kind \in {"old", "added"} PROVE OldNumber(diff, k) = OldNumber(diff, i)
  <2>1. HunkOf(diff, k) = h
    BY <1>3, <1>7
  <2>2. OldLines(diff, h, k) = OldLines(diff, h, i)
    <3>1. ASSUME NEW j \in (h + 1)..(k - 1), diff[j].kind \in {"removed", "other"}
          PROVE  j \in (h + 1)..(i - 1)
      <4>1. j # i
        BY <1>7, <3>1
      <4> QED
        BY <1>4, <4>1
    <3>2. (h + 1)..(i - 1) \subseteq (h + 1)..(k - 1)
      BY <1>4
    <3> QED
      BY <3>1, <3>2 DEF OldLines
  <2> QED
    BY <1>1, <2>1, <2>2
<1> QED
  BY <1>1, <1>2, <1>6, <1>7

Formatted(diff) ==
    \A i \in Positions(diff, "removed") :
        /\ SectionOf(diff, i) <= HunkOf(diff, i)
        /\ \A j \in Positions(diff, "removed") :
                j < i /\ SectionOf(diff, j) = SectionOf(diff, i)
                    => OldNumber(diff, j) < OldNumber(diff, i)

NumbersOf(diff, is) == {OldNumber(diff, i) : i \in is}

\* The numbers of the lines at the positions is, each once.
Lists(lines, diff, is) ==
    /\ {lines[n] : n \in 1..Len(lines)} = NumbersOf(diff, is)
    /\ IsFiniteSet(NumbersOf(diff, is)) /\ Len(lines) = Cardinality(NumbersOf(diff, is))

LEMMA NothingListed ==
    ASSUME NEW diff PROVE Lists(<<>>, diff, {})
<1>1. NumbersOf(diff, {}) = {} /\ 1..Len(<<>>) = {} /\ Len(<<>>) = 0
  BY DEF NumbersOf
<1>2. {<<>>[n] : n \in {}} = {}
  OBVIOUS
<1> QED
  BY <1>1, <1>2, FS_EmptySet DEF Lists

LEMMA OneMoreListed ==
    ASSUME NEW lines \in Seq(Nat), NEW diff, NEW is, Lists(lines, diff, is),
           NEW i, OldNumber(diff, i) \in Nat, OldNumber(diff, i) \notin NumbersOf(diff, is)
    PROVE  Lists(Append(lines, OldNumber(diff, i)), diff, is \cup {i})
<1> PICK new : new = OldNumber(diff, i)
  OBVIOUS
<1> PICK more : more = Append(lines, new)
  OBVIOUS
<1> PICK l : l = Len(lines)
  OBVIOUS
<1>1. l \in Nat /\ Len(more) = l + 1 /\ more[l + 1] = new /\ \A n \in 1..l : more[n] = lines[n]
  BY AppendProperties
<1>2. NumbersOf(diff, is \cup {i}) = NumbersOf(diff, is) \cup {new}
  BY DEF NumbersOf
<1>3. {more[n] : n \in 1..(l + 1)} = {lines[n] : n \in 1..l} \cup {new}
  <2>1. ASSUME NEW n \in 1..(l + 1) PROVE more[n] \in {lines[m] : m \in 1..l} \cup {new}
    <3>1. CASE n = l + 1
      BY <1>1, <3>1
    <3>2. CASE n \in 1..l
      BY <1>1, <3>2
    <3> QED
      BY <1>1, <3>1, <3>2
  <2>2. ASSUME NEW n \in 1..l PROVE lines[n] \in {more[m] : m \in 1..(l + 1)}
    <3>1. n \in 1..(l + 1) /\ more[n] = lines[n]
      BY <1>1
    <3> QED
      BY <3>1
  <2>3. new \in {more[m] : m \in 1..(l + 1)}
    <3>1. l + 1 \in 1..(l + 1)
      BY <1>1
    <3> QED
      BY <1>1, <3>1
  <2> QED
    BY <2>1, <2>2, <2>3
<1>4. /\ IsFiniteSet(NumbersOf(diff, is) \cup {new})
      /\ Cardinality(NumbersOf(diff, is) \cup {new}) = l + 1
  BY FS_AddElement DEF Lists
<1>5. Lists(more, diff, is \cup {i})
  BY <1>1, <1>2, <1>3, <1>4 DEF Lists
<1> QED
  BY <1>5

FileAt(diff, section) ==
    IF section # 0 /\ diff[section].path \in Python THEN diff[section].path ELSE NoPath

RemovedUpTo(diff, i) ==
    {j \in Positions(diff, "removed") : j <= i /\ SectionOf(diff, j) = SectionOf(diff, i)}

\* What the parser knows, after line i, of the section it is in.
InSection(diff, i, s) ==
    /\ s.file = FileAt(diff, SectionOf(diff, i))
    /\ s.file # NoPath =>
        /\ s.touched <=> SectionOf(diff, i) < HunkOf(diff, i + 1)
        /\ s.touched => s.old = OldNumber(diff, i + 1)
        /\ s.lines # <<>> => s.touched
        /\ Lists(s.lines, diff, RemovedUpTo(diff, i))

LEMMA NewSection ==
    ASSUME NEW diff \in Seq(DiffLine), NEW i \in Nat, NEW k, k = i + 1, k \in 1..Len(diff), NEW s \in ParserState,
           diff[k].kind = "old"
    PROVE  InSection(diff, k, ReadLine(s, diff[k]))
<1> PICK t : t = ReadLine(s, diff[k])
  OBVIOUS
<1>1. t = NextFile(s, diff[k])
  BY DEF ReadLine
<1>2. /\ t.file = (IF diff[k].path \in Python THEN diff[k].path ELSE NoPath)
      /\ t.lines = <<>> /\ t.touched = FALSE
  BY <1>1, CommitFileType DEF NextFile, ParserState
<1>3. k \in Positions(diff, "old")
  BY DEF Positions
<1>4. SectionOf(diff, k) = k /\ k # 0
  BY <1>3, SectionStep
<1>5. t.file = FileAt(diff, SectionOf(diff, k))
  BY <1>2, <1>4 DEF FileAt
<1>6. ~(k < HunkOf(diff, k + 1))
  <2>1. HunkOf(diff, k + 1) \in Nat /\ (HunkOf(diff, k + 1) # 0 => HunkOf(diff, k + 1) < k + 1)
    BY HunkFacts
  <2> QED
    BY <2>1
<1>7. RemovedUpTo(diff, k) = {}
  <2> SUFFICES ASSUME NEW j \in RemovedUpTo(diff, k) PROVE FALSE
    OBVIOUS
  <2>1. j \in Positions(diff, "removed") /\ j <= k /\ SectionOf(diff, j) = k
    BY <1>4 DEF RemovedUpTo
  <2>2. j \in Nat /\ SectionOf(diff, j) \in 0..j
    BY <2>1, PositionsType, SectionFacts
  <2>3. j = k
    BY <2>1, <2>2
  <2> QED
    BY <2>1, <2>3 DEF Positions
<1>8. Lists(t.lines, diff, RemovedUpTo(diff, k))
  BY <1>2, <1>7, NothingListed
<1>9. InSection(diff, k, t)
  BY <1>2, <1>4, <1>5, <1>6, <1>8 DEF InSection
<1> QED
  BY <1>9

LEMMA SameSection ==
    ASSUME NEW diff \in Seq(DiffLine), Formatted(diff), NEW i \in Nat, NEW k, k = i + 1, k \in 1..Len(diff),
           NEW s \in ParserState, InSection(diff, i, s), diff[k].kind # "old"
    PROVE  InSection(diff, k, ReadLine(s, diff[k]))
<1> PICK t : t = ReadLine(s, diff[k])
  OBVIOUS
<1> PICK section : section = SectionOf(diff, i)
  OBVIOUS
<1> PICK h : h = HunkOf(diff, k)
  OBVIOUS
<1>1. SectionOf(diff, k) = section /\ section \in 0..i
  <2>1. k \notin Positions(diff, "old")
    BY DEF Positions
  <2> QED
    BY <2>1, SectionStep, SectionFacts
<1>2. /\ s.file = FileAt(diff, section)
      /\ s.file # NoPath =>
            /\ s.touched <=> section < h
            /\ s.touched => s.old = OldNumber(diff, k)
            /\ s.lines # <<>> => s.touched
            /\ Lists(s.lines, diff, RemovedUpTo(diff, i))
  BY DEF InSection
<1>3. CASE s.file = NoPath
  <2>1. t = s
    BY <1>3 DEF ReadLine
  <2>2. InSection(diff, k, t)
    BY <1>1, <1>2, <1>3, <2>1 DEF InSection
  <2> QED
    BY <2>2
<1> SUFFICES ASSUME s.file # NoPath
             PROVE  /\ t.file = s.file
                    /\ t.touched <=> section < HunkOf(diff, k + 1)
                    /\ t.touched => t.old = OldNumber(diff, k + 1)
                    /\ t.lines # <<>> => t.touched
                    /\ Lists(t.lines, diff, RemovedUpTo(diff, k))
  BY <1>1, <1>2, <1>3 DEF InSection
<1>4. /\ s.touched <=> section < h
      /\ s.touched => s.old = OldNumber(diff, k)
      /\ s.lines # <<>> => s.touched
      /\ Lists(s.lines, diff, RemovedUpTo(diff, i))
  BY <1>2
<1>5. section # 0 /\ section \in Positions(diff, "old") /\ diff[section].kind = "old"
  <2>1. section # 0
    BY <1>2 DEF FileAt
  <2> QED
    BY <2>1, SectionFacts DEF Positions
<1>6. h \in Nat /\ (h # 0 => h < k)
  BY HunkFacts
<1>7. ASSUME diff[k].kind # "removed" PROVE RemovedUpTo(diff, k) = RemovedUpTo(diff, i)
  <2>1. \A j \in Positions(diff, "removed") : j \in Nat /\ j # k
    BY <1>7, PositionsType DEF Positions
  <2>2. \A j \in Positions(diff, "removed") : j <= k <=> j <= i
    BY <2>1
  <2> QED
    BY <1>1, <2>2 DEF RemovedUpTo
<1>8. ASSUME diff[k].kind # "hunk" PROVE HunkOf(diff, k + 1) = h
  BY <1>8, HunkStep DEF Positions
<1>9. CASE diff[k].kind = "hunk"
  <2>1. t = [s EXCEPT !.old = diff[k].from, !.touched = TRUE]
    BY <1>9 DEF ReadLine
  <2>2. t.file = s.file /\ t.old = diff[k].from /\ t.touched = TRUE /\ t.lines = s.lines
    BY <2>1 DEF ParserState
  <2>3. HunkOf(diff, k + 1) = k
    BY <1>9, HunkStep DEF Positions
  <2>4. OldNumber(diff, k + 1) = diff[k].from
    BY <1>9, OldNumberStep
  <2> QED
    BY <1>1, <1>4, <1>7, <1>9, <2>2, <2>3, <2>4
<1>10. CASE diff[k].kind = "added"
  <2>1. t = s
    BY <1>10 DEF ReadLine
  <2>2. OldNumber(diff, k + 1) = OldNumber(diff, k)
    BY <1>10, OldNumberStep
  <2> QED
    BY <1>4, <1>7, <1>8, <1>10, <2>1, <2>2
<1>11. CASE diff[k].kind = "other"
  <2>1. t = [s EXCEPT !.old = s.old + 1]
    BY <1>11 DEF ReadLine
  <2>2. t.file = s.file /\ t.old = s.old + 1 /\ t.touched = s.touched /\ t.lines = s.lines
    BY <2>1 DEF ParserState
  <2>3. ASSUME s.touched PROVE OldNumber(diff, k + 1) = OldNumber(diff, k) + 1
    <3>1. h # 0
      BY <1>1, <1>4, <1>6, <2>3
    <3> QED
      BY <1>11, <3>1, OldNumberStep
  <2> QED
    BY <1>4, <1>7, <1>8, <1>11, <2>2, <2>3
<1>12. CASE diff[k].kind = "removed"
  <2>1. t = [s EXCEPT !.lines = Append(s.lines, s.old), !.old = s.old + 1]
    BY <1>12 DEF ReadLine, RemovedLine
  <2>2. t.file = s.file /\ t.old = s.old + 1 /\ t.touched = s.touched /\ t.lines = Append(s.lines, s.old)
    BY <2>1 DEF ParserState
  <2>3. k \in Positions(diff, "removed")
    BY <1>12 DEF Positions
  <2>4. s.touched /\ h # 0
    <3>1. section <= h
      BY <1>1, <2>3 DEF Formatted
    <3>2. h # 0
      BY <1>1, <1>5, <1>6, <3>1
    <3>3. diff[h].kind = "hunk"
      <4>1. h \in Positions(diff, "hunk")
        BY <3>2, HunkFacts
      <4> QED
        BY <4>1 DEF Positions
    <3>4. section # h
      BY <1>5, <3>3
    <3> QED
      BY <1>1, <1>4, <1>6, <3>1, <3>2, <3>4
  <2>5. s.old = OldNumber(diff, k) /\ s.old \in Nat /\ s.lines \in Seq(Nat)
    BY <1>4, <2>4 DEF ParserState
  <2>6. OldNumber(diff, k + 1) = OldNumber(diff, k) + 1
    BY <1>12, <2>4, OldNumberStep
  <2>7. RemovedUpTo(diff, k) = RemovedUpTo(diff, i) \cup {k}
    <3>1. \A j \in Positions(diff, "removed") : j \in Nat
      BY PositionsType
    <3>2. \A j \in Positions(diff, "removed") : j <= k <=> j <= i \/ j = k
      BY <3>1
    <3> QED
      BY <1>1, <2>3, <3>2 DEF RemovedUpTo
  <2>8. OldNumber(diff, k) \notin NumbersOf(diff, RemovedUpTo(diff, i))
    <3>1. ASSUME NEW j \in RemovedUpTo(diff, i) PROVE OldNumber(diff, j) # OldNumber(diff, k)
      <4>1. j \in Positions(diff, "removed") /\ j <= i /\ SectionOf(diff, j) = section
        BY DEF RemovedUpTo
      <4>2. j \in Nat /\ j < k
        BY <4>1, PositionsType
      <4>3. OldNumber(diff, j) < OldNumber(diff, k)
        BY <1>1, <2>3, <4>1, <4>2 DEF Formatted
      <4> QED
        BY <2>5, <4>3
    <3> QED
      BY <3>1 DEF NumbersOf
  <2>9. Lists(Append(s.lines, OldNumber(diff, k)), diff, RemovedUpTo(diff, i) \cup {k})
    BY <1>4, <2>5, <2>8, OneMoreListed
  <2> QED
    BY <1>4, <1>8, <1>12, <2>2, <2>4, <2>5, <2>6, <2>7, <2>9
<1>13. diff[k].kind \in {"hunk", "removed", "added", "other"}
  <2>1. diff[k] \in DiffLine
    OBVIOUS
  <2> QED
    BY <2>1 DEF DiffLine
<1> QED
  BY <1>9, <1>10, <1>11, <1>12, <1>13

\* The lines at a place, each once.
ListsPlace(lines, place) ==
    {lines[n] : n \in 1..Len(lines)} = place /\ Len(lines) = Cardinality(place)

\* What the parser has kept of the sections before line b.
Best(diff, b, s) ==
    LET done == {o \in Touched(diff) : o < b} IN
    /\ s.bestFile = NoPath => s.bestLines = <<>>
    /\ done = {} => s.bestFile = NoPath
    /\ \A o \in done : (\A p \in done : o <= p) =>
            s.bestFile = diff[o].path /\ ListsPlace(s.bestLines, LinesOf(diff, o))

\* Line i is the last of its section.
Complete(diff, i) ==
    /\ EndOf(diff, SectionOf(diff, i)) = i + 1
    /\ \A kind \in {"hunk", "removed"} : \A j \in Positions(diff, kind) :
            i < j => SectionOf(diff, j) # SectionOf(diff, i)

LEMMA EndIs ==
    ASSUME NEW diff \in Seq(DiffLine), NEW section \in Nat, NEW e \in Nat,
           section < e, e <= Len(diff) + 1,
           e \in Positions(diff, "old") \/ e = Len(diff) + 1,
           \A o \in Positions(diff, "old") : section < o => e <= o
    PROVE  EndOf(diff, section) = e
<1> DEFINE ends == {o \in Positions(diff, "old") : section < o} \cup {Len(diff) + 1}
<1>1. e \in ends /\ \A o \in ends : e <= o
  OBVIOUS
<1>2. ends \subseteq Nat
  BY PositionsType
<1>3. \A d \in ends : (\A o \in ends : d <= o) => d = e
  BY <1>1, <1>2
<1>4. EndOf(diff, section) = CHOOSE d \in ends : \A o \in ends : d <= o
  BY DEF EndOf
<1> HIDE DEF ends
<1> QED
  BY <1>1, <1>3, <1>4

\* A line before a new section, or the last of all.
LEMMA CompleteIs ==
    ASSUME NEW diff \in Seq(DiffLine), NEW i \in Nat, i <= Len(diff),
           i + 1 \in Positions(diff, "old") \/ i = Len(diff)
    PROVE  Complete(diff, i)
<1> PICK section : section = SectionOf(diff, i)
  OBVIOUS
<1> PICK k : k = i + 1
  OBVIOUS
<1>1. section \in 0..i /\ \A o \in Positions(diff, "old") : o \in Nat /\ o <= Len(diff) /\ (o <= i => o <= section)
  BY SectionFacts, PositionsType
<1>2. Len(diff) \in Nat
  OBVIOUS
<1>3. \A o \in Positions(diff, "old") : section < o => k <= o
  BY <1>1
<1>4. EndOf(diff, section) = k
  <2>1. k \in Nat /\ section < k /\ k <= Len(diff) + 1 /\ section \in Nat
    BY <1>1, <1>2
  <2>2. k \in Positions(diff, "old") \/ k = Len(diff) + 1
    OBVIOUS
  <2> QED
    BY <1>3, <2>1, <2>2, EndIs
<1>5. ASSUME NEW kind, NEW j \in Positions(diff, kind), i < j
      PROVE  SectionOf(diff, j) # section
  <2>1. j \in Nat /\ j <= Len(diff)
    BY PositionsType
  <2>2. k \in Positions(diff, "old") /\ k <= j
    BY <1>2, <1>5, <2>1
  <2>3. k <= SectionOf(diff, j) /\ SectionOf(diff, j) \in Nat
    BY <2>1, <2>2, SectionFacts
  <2> QED
    BY <1>1, <2>3
<1> QED
  BY <1>4, <1>5 DEF Complete

LEMMA TouchedType ==
    ASSUME NEW diff \in Seq(DiffLine)
    PROVE  /\ Touched(diff) \in SUBSET Nat
           /\ \A o \in Touched(diff) : /\ o \in Positions(diff, "old") /\ diff[o].path \in Python
                                       /\ diff[o].path # NoPath
BY PositionsType, DiffAssumption DEF Touched

LEMMA TouchedHere ==
    ASSUME NEW diff \in Seq(DiffLine), NEW i \in Nat, NEW s \in ParserState, InSection(diff, i, s),
           Complete(diff, i)
    PROVE  SectionOf(diff, i) \in Touched(diff) <=> s.file # NoPath /\ s.touched
<1> PICK section : section = SectionOf(diff, i)
  OBVIOUS
<1> PICK h : h = HunkOf(diff, i + 1)
  OBVIOUS
<1>1. section \in 0..i /\ h \in Nat /\ (section # 0 => section \in Positions(diff, "old"))
  BY SectionFacts, HunkFacts
<1>2. s.file = FileAt(diff, section) /\ (s.file # NoPath => (s.touched <=> section < h))
  BY DEF InSection
<1>3. ASSUME section \in Touched(diff) PROVE s.file # NoPath /\ s.touched
  <2>1. section \in Positions(diff, "old") /\ diff[section].path \in Python /\ diff[section].path # NoPath
    BY <1>3, TouchedType
  <2>2. section # 0 /\ diff[section].kind = "old"
    BY <2>1, PositionsType DEF Positions
  <2>3. s.file # NoPath
    BY <1>2, <2>1, <2>2 DEF FileAt
  <2>4. PICK g \in Positions(diff, "hunk") : SectionOf(diff, g) = section
    BY <1>3 DEF Touched
  <2>5. g \in Nat /\ diff[g].kind = "hunk" /\ g <= i
    <3>1. g \in Nat /\ diff[g].kind = "hunk"
      BY PositionsType DEF Positions
    <3>2. ~(i < g)
      BY <2>4 DEF Complete
    <3> QED
      BY <3>1, <3>2
  <2>6. section \in 0..g /\ section # g
    BY <2>2, <2>4, <2>5, SectionFacts
  <2>7. g <= h
    BY <2>5, HunkFacts
  <2> QED
    BY <1>1, <1>2, <2>3, <2>5, <2>6, <2>7
<1>4. ASSUME s.file # NoPath, s.touched PROVE section \in Touched(diff)
  <2>1. section # 0 /\ diff[section].path \in Python /\ section < h
    BY <1>2, <1>4 DEF FileAt
  <2>2. h \in Positions(diff, "hunk") /\ h < i + 1
    <3>1. h # 0 /\ i + 1 \in Nat
      BY <1>1, <2>1
    <3> QED
      BY <3>1, HunkFacts
  <2>3. section \in Positions(diff, "old")
    BY <1>1, <2>1
  <2> PICK o : o = SectionOf(diff, h)
    OBVIOUS
  <2>4. o \in 0..h /\ section <= o /\ (o # 0 => o \in Positions(diff, "old"))
    BY <1>1, <2>1, <2>3, SectionFacts
  <2>5. o # 0 => o <= section
    <3>1. o <= i
      BY <1>1, <2>2, <2>4
    <3> QED
      BY <2>4, <3>1, SectionFacts
  <2>6. o = section
    BY <1>1, <2>1, <2>4, <2>5
  <2> QED
    BY <2>1, <2>2, <2>3, <2>6 DEF Touched
<1> QED
  BY <1>3, <1>4

LEMMA NoPlace == ListsPlace(<<>>, {})
<1>1. Cardinality({}) = 0
  BY FS_EmptySet
<1>2. Len(<<>>) = 0 /\ 1..0 = {}
  OBVIOUS
<1> QED
  BY <1>1, <1>2 DEF ListsPlace

LEMMA OnePlace ==
    ASSUME NEW n \in Nat
    PROVE  ListsPlace(IF n > 0 THEN <<n>> ELSE <<>>, {n} \ {0})
<1>1. CASE n > 0
  <2>1. {n} \ {0} = {n} /\ Cardinality({n}) = 1
    BY <1>1, FS_Singleton
  <2>2. Len(<<n>>) = 1 /\ {<<n>>[m] : m \in 1..1} = {n}
    <3>1. \A m \in 1..1 : m = 1
      OBVIOUS
    <3>2. 1 \in 1..1 /\ <<n>>[1] = n
      OBVIOUS
    <3> QED
      BY <3>1, <3>2
  <2> QED
    BY <1>1, <2>1, <2>2 DEF ListsPlace
<1>2. CASE n = 0
  <2>1. {n} \ {0} = {}
    BY <1>2
  <2> QED
    BY <1>2, <2>1, NoPlace
<1> QED
  BY <1>1, <1>2

LEMMA CommitKeepsBest ==
    ASSUME NEW diff \in Seq(DiffLine), NEW i \in Nat, NEW s \in ParserState, InSection(diff, i, s),
           Complete(diff, i), Best(diff, SectionOf(diff, i), s)
    PROVE  Best(diff, i + 1, CommitFile(s))
<1> PICK section : section = SectionOf(diff, i)
  OBVIOUS
<1> PICK before : before = {o \in Touched(diff) : o < section}
  OBVIOUS
<1> PICK done : done = {o \in Touched(diff) : o < i + 1}
  OBVIOUS
<1> PICK t : t = CommitFile(s)
  OBVIOUS
<1>1. /\ s.bestFile = NoPath => s.bestLines = <<>>
      /\ before = {} => s.bestFile = NoPath
      /\ \A o \in before : (\A p \in before : o <= p) =>
            s.bestFile = diff[o].path /\ ListsPlace(s.bestLines, LinesOf(diff, o))
  BY DEF Best
<1> SUFFICES /\ t.bestFile = NoPath => t.bestLines = <<>>
             /\ done = {} => t.bestFile = NoPath
             /\ \A o \in done : (\A p \in done : o <= p) =>
                    t.bestFile = diff[o].path /\ ListsPlace(t.bestLines, LinesOf(diff, o))
  BY DEF Best
<1>2. section \in 0..i
  BY SectionFacts
<1>3. section \in Touched(diff) <=> s.file # NoPath /\ s.touched
  BY TouchedHere
<1>4. \A o \in Touched(diff) : o \in Nat /\ (o < i + 1 <=> o <= section)
  <2>1. ASSUME NEW o \in Touched(diff) PROVE o \in Nat /\ (o < i + 1 <=> o <= section)
    <3>1. o \in Nat /\ o \in Positions(diff, "old")
      BY TouchedType
    <3>2. o <= i => o <= section
      BY <3>1, SectionFacts
    <3> QED
      BY <1>2, <3>1, <3>2
  <2> QED
    BY <2>1
<1>5. before \subseteq done /\ \A o \in done : o \in Touched(diff) /\ (o \in before \/ o = section)
  BY <1>2, <1>4
<1>6. \A o \in before : o \in Nat /\ o < section
  BY <1>4
<1>7. CASE before # {}
  <2>1. PICK first \in before : \A p \in before : first <= p
    <3>1. before \in SUBSET Nat
      BY <1>4
    <3> QED
      BY <1>7, <3>1, LeastElement
  <2>2. s.bestFile = diff[first].path /\ diff[first].path # NoPath
    BY <1>1, <2>1, TouchedType
  <2>3. t = s
    BY <2>2 DEF CommitFile
  <2>4. ASSUME NEW o \in done, \A p \in done : o <= p
        PROVE  o \in before /\ \A p \in before : o <= p
    <3>1. o <= first /\ first < section
      BY <1>5, <1>6, <2>1, <2>4
    <3>2. o # section
      BY <1>2, <1>6, <3>1
    <3> QED
      BY <1>5, <2>4, <3>2
  <2> QED
    BY <1>1, <1>5, <1>7, <2>3, <2>4
<1>8. CASE before = {} /\ section \in Touched(diff)
  <2>1. s.file # NoPath /\ s.touched /\ s.bestFile = NoPath
    BY <1>1, <1>3, <1>8
  <2>2. done = {section}
    <3>1. section \in done
      BY <1>2, <1>8
    <3> QED
      BY <1>5, <1>8, <3>1
  <2>3. s.file = diff[section].path
    BY <2>1 DEF InSection, FileAt
  <2>4. /\ t.bestFile = s.file
        /\ t.bestLines = IF s.lines # <<>> THEN s.lines ELSE IF s.old > 0 THEN <<s.old>> ELSE <<>>
    BY <2>1 DEF CommitFile, ParserState
  <2>5. RemovedIn(diff, section) = RemovedUpTo(diff, i)
    <3>1. \A j \in Positions(diff, "removed") : SectionOf(diff, j) = section => j <= i
      <4>1. \A j \in Positions(diff, "removed") : j \in Nat /\ (i < j => SectionOf(diff, j) # section)
        BY PositionsType DEF Complete
      <4> QED
        BY <4>1
    <3> QED
      BY <3>1 DEF RemovedIn, RemovedUpTo
  <2>6. Lists(s.lines, diff, RemovedIn(diff, section))
    BY <2>1, <2>5 DEF InSection
  <2>7. RemovedIn(diff, section) # {} => s.lines # <<>>
    <3>1. s.lines = <<>> => {s.lines[n] : n \in 1..Len(s.lines)} = {}
      <4>1. 1..Len(<<>>) = {}
        OBVIOUS
      <4> QED
        BY <4>1
    <3>2. NumbersOf(diff, RemovedIn(diff, section)) = {} => RemovedIn(diff, section) = {}
      BY DEF NumbersOf
    <3> QED
      BY <2>6, <3>1, <3>2 DEF Lists
  <2>8. CASE RemovedIn(diff, section) # {}
    <3>1. t.bestLines = s.lines /\ LinesOf(diff, section) = NumbersOf(diff, RemovedIn(diff, section))
      BY <2>4, <2>7, <2>8 DEF LinesOf, NumbersOf
    <3>2. ListsPlace(t.bestLines, LinesOf(diff, section))
      BY <2>6, <3>1 DEF Lists, ListsPlace
    <3> QED
      BY <2>1, <2>2, <2>3, <2>4, <3>2
  <2>9. CASE RemovedIn(diff, section) = {}
    <3>1. s.lines = <<>>
      <4>1. Len(s.lines) = 0
        <5>1. NumbersOf(diff, {}) = {}
          BY DEF NumbersOf
        <5> QED
          BY <2>6, <2>9, <5>1, FS_EmptySet DEF Lists
      <4> QED
        BY <4>1, EmptySeq DEF ParserState
    <3>2. s.old = OldNumber(diff, i + 1) /\ s.old \in Nat
      BY <2>1 DEF InSection, ParserState
    <3>3. EndOf(diff, section) = i + 1
      BY DEF Complete
    <3>4. LinesOf(diff, section) = {s.old} \ {0}
      BY <2>9, <3>2, <3>3 DEF LinesOf
    <3>5. t.bestLines = IF s.old > 0 THEN <<s.old>> ELSE <<>>
      BY <2>4, <3>1
    <3>6. ListsPlace(t.bestLines, {s.old} \ {0})
      BY <3>2, <3>5, OnePlace
    <3> QED
      BY <2>1, <2>2, <2>3, <2>4, <3>4, <3>6
  <2> QED
    BY <2>8, <2>9
<1>9. CASE before = {} /\ section \notin Touched(diff)
  <2>1. done = {}
    BY <1>5, <1>9
  <2>2. ~(s.file # NoPath /\ s.touched) /\ s.bestFile = NoPath
    BY <1>1, <1>3, <1>9
  <2>3. s.file # NoPath => (s.lines # <<>> => s.touched)
    BY DEF InSection
  <2>4. t = s
    BY <2>2, <2>3 DEF CommitFile
  <2> QED
    BY <1>1, <2>1, <2>2, <2>4
<1> QED
  BY <1>7, <1>8, <1>9

Parsed(diff, i, s) == s \in ParserState /\ InSection(diff, i, s) /\ Best(diff, SectionOf(diff, i), s)

LEMMA NothingParsed ==
    ASSUME NEW diff \in Seq(DiffLine)
    PROVE  Parsed(diff, 0, Start)
<1>1. SectionOf(diff, 0) = 0
  BY SectionFacts
<1>2. Start.file = NoPath /\ Start.bestFile = NoPath /\ Start.bestLines = <<>>
  BY DEF Start
<1>3. InSection(diff, 0, Start)
  BY <1>1, <1>2 DEF InSection, FileAt
<1>4. {o \in Touched(diff) : o < 0} = {}
  BY TouchedType
<1> QED
  BY <1>1, <1>2, <1>3, <1>4, StartType DEF Parsed, Best

LEMMA LineParsed ==
    ASSUME NEW diff \in Seq(DiffLine), Formatted(diff), NEW i \in Nat, NEW k, k = i + 1, k \in 1..Len(diff), NEW s,
           Parsed(diff, i, s)
    PROVE  Parsed(diff, k, ReadLine(s, diff[k]))
<1> PICK t : t = ReadLine(s, diff[k])
  OBVIOUS
<1>1. s \in ParserState /\ InSection(diff, i, s) /\ Best(diff, SectionOf(diff, i), s) /\ diff[k] \in DiffLine
  BY DEF Parsed
<1>2. t \in ParserState
  BY <1>1, ReadLineType
<1>3. CASE diff[k].kind = "old"
  <2>1. InSection(diff, k, t)
    BY <1>1, <1>3, NewSection
  <2>2. SectionOf(diff, k) = k /\ k \in Positions(diff, "old")
    <3>1. k \in Positions(diff, "old")
      BY <1>3 DEF Positions
    <3> QED
      BY <3>1, SectionStep
  <2>3. Complete(diff, i)
    <3>1. i <= Len(diff) /\ i + 1 \in Positions(diff, "old")
      BY <2>2
    <3> QED
      BY <3>1, CompleteIs
  <2>4. Best(diff, k, CommitFile(s))
    BY <1>1, <2>3, CommitKeepsBest
  <2>5. t.bestFile = CommitFile(s).bestFile /\ t.bestLines = CommitFile(s).bestLines
    BY <1>1, <1>3, CommitFileType DEF ReadLine, NextFile, ParserState
  <2>6. Best(diff, SectionOf(diff, k), t)
    BY <2>2, <2>4, <2>5 DEF Best
  <2>7. Parsed(diff, k, t)
    BY <1>2, <2>1, <2>6 DEF Parsed
  <2> QED
    BY <2>7
<1>4. CASE diff[k].kind # "old"
  <2>1. InSection(diff, k, t)
    BY <1>1, <1>4, SameSection
  <2>2. SectionOf(diff, k) = SectionOf(diff, i)
    <3>1. k \notin Positions(diff, "old")
      BY <1>4 DEF Positions
    <3> QED
      BY <3>1, SectionStep
  <2>3. t.bestFile = s.bestFile /\ t.bestLines = s.bestLines
    <3>1. diff[k].kind \in {"hunk", "removed", "added", "other"}
      BY <1>1, <1>4 DEF DiffLine
    <3>2. CASE s.file = NoPath
      BY <1>4, <3>2 DEF ReadLine
    <3>3. CASE s.file # NoPath
      BY <1>1, <3>1, <3>3 DEF ReadLine, RemovedLine, ParserState
    <3> QED
      BY <3>2, <3>3
  <2>4. Best(diff, SectionOf(diff, k), t)
    BY <1>1, <2>2, <2>3 DEF Best
  <2>5. Parsed(diff, k, t)
    BY <1>2, <2>1, <2>4 DEF Parsed
  <2> QED
    BY <2>5
<1> QED
  BY <1>3, <1>4

LEMMA DiffParsed ==
    ASSUME NEW diff \in Seq(DiffLine), Formatted(diff)
    PROVE  /\ ParseDiff(diff) \in ParserState
           /\ Best(diff, Len(diff) + 1, ParseDiff(diff))
<1>1. PICK f : ParsedUp(f, diff)
  BY ParseSteps
<1>2. Len(diff) \in Nat
  OBVIOUS
<1> DEFINE G == {n \in Nat : n <= Len(diff) => Parsed(diff, n, f[n])}
<1>3. 0 \in G
  BY <1>1, NothingParsed DEF ParsedUp
<1>4. \A n \in Nat : n \in G => n + 1 \in G
  <2> SUFFICES ASSUME NEW n \in Nat, n \in G, n + 1 <= Len(diff) PROVE Parsed(diff, n + 1, f[n + 1])
    OBVIOUS
  <2>1. n + 1 \in 1..Len(diff) /\ Parsed(diff, n, f[n]) /\ (n + 1) - 1 = n
    BY <1>2
  <2>2. f[n + 1] = ReadLine(f[n], diff[n + 1])
    BY <1>1, <2>1 DEF ParsedUp
  <2>3. Parsed(diff, n + 1, ReadLine(f[n], diff[n + 1]))
    BY <2>1, LineParsed
  <2> QED
    BY <2>2, <2>3
<1> HIDE DEF G
<1>5. Nat \subseteq G
  BY <1>3, <1>4, Induction
<1>6. Parsed(diff, Len(diff), f[Len(diff)])
  BY <1>2, <1>5 DEF G
<1>7. Complete(diff, Len(diff))
  BY <1>2, CompleteIs
<1>8. Best(diff, Len(diff) + 1, CommitFile(f[Len(diff)]))
  BY <1>2, <1>6, <1>7, CommitKeepsBest DEF Parsed
<1>9. CommitFile(f[Len(diff)]) \in ParserState
  BY <1>6, CommitFileType DEF Parsed
<1> QED
  BY <1>1, <1>8, <1>9 DEF ParsedUp

\* What the parser finds in a diff is the place of the diff.
LEMMA LocationOfDiff ==
    ASSUME NEW c \in Commit
    PROVE  Locates(Where(Diff[c]), c)
<1> PICK diff : diff = Diff[c]
  OBVIOUS
<1> PICK p : p = ParseDiff(diff)
  OBVIOUS
<1>1. diff \in Seq(DiffLine) /\ Formatted(diff)
  BY DiffAssumption, FormatAssumption DEF Formatted
<1>2. p \in ParserState /\ Best(diff, Len(diff) + 1, p)
  BY <1>1, DiffParsed
<1>3. {o \in Touched(diff) : o < Len(diff) + 1} = Touched(diff)
  <2>1. \A o \in Touched(diff) : o \in 1..Len(diff)
    BY <1>1, TouchedType, PositionsType
  <2>2. Len(diff) \in Nat
    BY <1>1
  <2> QED
    BY <2>1, <2>2
<1>4. /\ p.bestFile = NoPath => p.bestLines = <<>>
      /\ Touched(diff) = {} => p.bestFile = NoPath
      /\ \A o \in Touched(diff) : (\A q \in Touched(diff) : o <= q) =>
            p.bestFile = diff[o].path /\ ListsPlace(p.bestLines, LinesOf(diff, o))
  BY <1>2, <1>3 DEF Best
<1>5. Where(diff).file = p.bestFile /\ Where(diff).lines = p.bestLines
  BY DEF Where
<1>6. Places[c] = PlaceOf(diff)
  BY DEF Places
<1>7. CASE Touched(diff) = {}
  <2>1. Places[c].file = NoPath /\ Places[c].lines = {}
    BY <1>6, <1>7 DEF PlaceOf
  <2>2. p.bestFile = NoPath /\ p.bestLines = <<>>
    BY <1>4, <1>7
  <2>3. ListsPlace(<<>>, {})
    BY NoPlace
  <2> QED
    BY <1>5, <2>1, <2>2, <2>3 DEF Locates, ListsPlace
<1>8. CASE Touched(diff) # {}
  <2> DEFINE first == CHOOSE s \in Touched(diff) : \A t \in Touched(diff) : s <= t
  <2>1. first \in Touched(diff) /\ \A t \in Touched(diff) : first <= t
    <3>1. Touched(diff) \in SUBSET Nat
      BY <1>1, TouchedType
    <3>2. \E s \in Touched(diff) : \A t \in Touched(diff) : s <= t
      BY <1>8, <3>1, LeastElement
    <3> QED
      BY <3>2
  <2>2. PlaceOf(diff) = [file |-> diff[first].path, lines |-> LinesOf(diff, first)]
    BY <1>8 DEF PlaceOf
  <2> HIDE DEF first
  <2>3. p.bestFile = diff[first].path /\ ListsPlace(p.bestLines, LinesOf(diff, first))
    BY <1>4, <2>1
  <2> QED
    BY <1>5, <1>6, <2>2, <2>3 DEF Locates, ListsPlace
<1> QED
  BY <1>7, <1>8

-----------------------------------------------------------------------------
(* Records: what the phases and the supplement make of one. *)

LEMMA SinkType == ASSUME NEW diff PROVE MatchSink(diff) \in Sink \cup {NoPath, "unknown"}
<1> DEFINE known == {p \in 1..Len(SinkPatterns) :
                        SinkPatterns[p] \in UNION {diff[i].sinks : i \in Positions(diff, "removed")}}
<1>1. MatchSink(diff) = IF known = {} THEN "unknown"
                        ELSE SinkPatterns[CHOOSE p \in known : \A q \in known : p <= q]
  BY DEF MatchSink
<1>2. known \in SUBSET Nat /\ \A p \in known : SinkPatterns[p] \in Sink
  BY DiffAssumption
<1> HIDE DEF known
<1>3. CASE known # {}
  <2>1. \E p \in known : \A q \in known : p <= q
    BY <1>2, <1>3, LeastElement
  <2> QED
    BY <1>1, <1>2, <1>3, <2>1
<1> QED
  BY <1>1, <1>3

\* Where the hunks among the first lines end.
EndsUpTo(diff, n) == {0} \cup {diff[i].from + diff[i].count : i \in {j \in Positions(diff, "hunk") : j <= n}}

LEMMA LocType == ASSUME NEW diff \in Seq(DiffLine) PROVE EstimateLoc(diff) \in Nat
<1>1. Len(diff) \in Nat
  OBVIOUS
<1>2. ASSUME NEW i \in 1..Len(diff) PROVE diff[i].from + diff[i].count \in Nat
  <2>1. diff[i] \in DiffLine
    OBVIOUS
  <2>2. diff[i].from \in Nat /\ diff[i].count \in Nat
    BY <2>1 DEF DiffLine
  <2> QED
    BY <2>2
<1> DEFINE G == {n \in Nat : n <= Len(diff) => \E b \in Nat : \A e \in EndsUpTo(diff, n) : e <= b}
<1>3. 0 \in G
  <2>1. {j \in Positions(diff, "hunk") : j <= 0} = {}
    BY PositionsType
  <2>2. \A e \in EndsUpTo(diff, 0) : e <= 0
    BY <2>1 DEF EndsUpTo
  <2> QED
    BY <2>2
<1>4. \A n \in Nat : n \in G => n + 1 \in G
  <2> SUFFICES ASSUME NEW n \in Nat, n \in G, n + 1 <= Len(diff)
               PROVE  \E b \in Nat : \A e \in EndsUpTo(diff, n + 1) : e <= b
    OBVIOUS
  <2>1. PICK b \in Nat : \A e \in EndsUpTo(diff, n) : e <= b
    BY <1>1
  <2> PICK k : k = n + 1
    OBVIOUS
  <2> PICK new : new = diff[k].from + diff[k].count
    OBVIOUS
  <2>2. new \in Nat
    BY <1>2
  <2>3. ASSUME NEW e \in EndsUpTo(diff, k) PROVE e \in EndsUpTo(diff, n) \/ e = new
    <3>1. CASE e = 0
      BY <3>1 DEF EndsUpTo
    <3>2. CASE e # 0
      <4>1. PICK i \in {j \in Positions(diff, "hunk") : j <= k} : e = diff[i].from + diff[i].count
        BY <3>2 DEF EndsUpTo
      <4>2. i \in Positions(diff, "hunk") /\ i \in Nat /\ i <= k
        BY PositionsType
      <4>3. i <= n \/ i = k
        BY <4>2
      <4> QED
        BY <4>1, <4>2, <4>3 DEF EndsUpTo
    <3> QED
      BY <3>1, <3>2
  <2>4. b + new \in Nat /\ \A e \in EndsUpTo(diff, n) : e \in Nat
    <3>1. \A i \in Positions(diff, "hunk") : diff[i].from + diff[i].count \in Nat
      BY <1>2, PositionsType
    <3> QED
      BY <2>2, <3>1 DEF EndsUpTo
  <2>5. \A e \in EndsUpTo(diff, k) : e <= b + new
    BY <2>1, <2>2, <2>3, <2>4
  <2> QED
    BY <2>4, <2>5
<1> HIDE DEF G
<1>5. Nat \subseteq G
  BY <1>3, <1>4, Induction
<1> DEFINE ends == {0} \cup {diff[i].from + diff[i].count : i \in Positions(diff, "hunk")}
<1>6. ends = EndsUpTo(diff, Len(diff))
  <2>1. {j \in Positions(diff, "hunk") : j <= Len(diff)} = Positions(diff, "hunk")
    BY PositionsType
  <2> QED
    BY <2>1 DEF EndsUpTo
<1>7. ends \in SUBSET Nat /\ ends # {}
  <2>1. \A i \in Positions(diff, "hunk") : diff[i].from + diff[i].count \in Nat
    BY <1>2, PositionsType
  <2> QED
    BY <2>1
<1>8. EstimateLoc(diff) = CHOOSE n \in ends : \A m \in ends : m <= n
  BY DEF EstimateLoc
<1> HIDE DEF ends
<1>9. PICK b \in Nat : \A e \in ends : e <= b
  BY <1>1, <1>5, <1>6 DEF G
<1>10. \E n \in ends : \A m \in ends : m <= n
  BY <1>7, <1>9, GreatestElement
<1> QED
  BY <1>7, <1>8, <1>10

LEMMA WhereType ==
    ASSUME NEW c \in Commit
    PROVE  Where(Diff[c]) \in [file : Path \cup {NoPath}, lines : Seq(Nat),
                               sink : Sink \cup {NoPath, "unknown"}, loc : Nat]
<1>1. Diff[c] \in Seq(DiffLine) /\ Formatted(Diff[c])
  BY DiffAssumption, FormatAssumption DEF Formatted
<1>2. ParseDiff(Diff[c]) \in ParserState
  BY <1>1, DiffParsed
<1> QED
  BY <1>1, <1>2, SinkType, LocType DEF Where, ParserState

Honest(r) ==
    /\ r.patch # NoCommit => r.vulnerable
    /\ r.diff => r.patch # NoCommit /\ Locates(r.where, r.patch)
    /\ r.reason \in {"no_commit_resolved", "no_patch_commit"} => ~r.diff

Row == {r \in Record : Honest(r)}

LEMMA NewRecordRow ==
    ASSUME NEW a \in Advisory
    PROVE  /\ NewRecord(a) \in Row /\ NewRecord(a).cve = a.cve /\ NewRecord(a).repo = a.repo
           /\ NewRecord(a).patch = NoCommit /\ ~NewRecord(a).diff /\ NewRecord(a).reason = "none"
<1>1. Nowhere \in [file : Path \cup {NoPath}, lines : Seq(Nat),
                   sink : Sink \cup {NoPath, "unknown"}, loc : Nat]
  <2>1. <<>> \in Seq(Nat)
    OBVIOUS
  <2> QED
    BY <2>1 DEF Nowhere
<1>2. NewRecord(a) \in Record
  BY <1>1 DEF NewRecord, Record, Advisory
<1> QED
  BY <1>2 DEF NewRecord, Row, Honest

LEMMA ScoredRow ==
    ASSUME NEW r \in Row
    PROVE  /\ Scored(r) \in Row /\ ScoredLate(r) \in Row
           /\ Scored(r).cve = r.cve /\ Scored(r).repo = r.repo /\ Scored(r).patch = r.patch
           /\ Scored(r).diff = r.diff /\ Scored(r).reason = r.reason
           /\ ScoredLate(r).cve = r.cve
<1>1. r \in Record /\ r.cve \in Cve
  BY DEF Row, Record
<1>2. Nvd[r.cve].v31 \in Severity \cup {NoSeverity} /\ Nvd[r.cve].v30 \in Severity \cup {NoSeverity}
  BY <1>1, CollectionAssumption
<1> DEFINE Same(q) == /\ q \in Row /\ q.cve = r.cve /\ q.repo = r.repo /\ q.patch = r.patch
                      /\ q.diff = r.diff /\ q.reason = r.reason
<1>3. Same(r) /\ \A v \in Severity \cup {NoSeverity} : Same([r EXCEPT !.severity = v, !.scored = TRUE])
  <2>1. ASSUME NEW v \in Severity \cup {NoSeverity} PROVE Same([r EXCEPT !.severity = v, !.scored = TRUE])
    <3> PICK q : q = [r EXCEPT !.severity = v, !.scored = TRUE]
      OBVIOUS
    <3>1. q \in Record
      BY <1>1 DEF Record
    <3>2. /\ q.cve = r.cve /\ q.repo = r.repo /\ q.patch = r.patch /\ q.diff = r.diff
          /\ q.reason = r.reason /\ q.vulnerable = r.vulnerable /\ q.where = r.where
      BY <1>1 DEF Record
    <3>3. Honest(r)
      BY DEF Row
    <3>4. Honest(q)
      BY <3>2, <3>3 DEF Honest
    <3> QED
      BY <3>1, <3>2, <3>4 DEF Row
  <2> QED
    BY <2>1
<1>4. /\ \/ Scored(r) = r
         \/ \E v \in Severity \cup {NoSeverity} : Scored(r) = [r EXCEPT !.severity = v, !.scored = TRUE]
      /\ \/ ScoredLate(r) = r
         \/ \E v \in Severity \cup {NoSeverity} : ScoredLate(r) = [r EXCEPT !.severity = v, !.scored = TRUE]
  BY <1>2 DEF Scored, ScoredLate
<1> HIDE DEF Same
<1>5. Same(Scored(r)) /\ Same(ScoredLate(r))
  BY <1>3, <1>4
<1> QED
  BY <1>5 DEF Same

\* q is r with a commit.
Committed(q, r, commit) ==
    /\ q \in Row /\ q.cve = r.cve /\ q.repo = r.repo /\ q.patch = commit /\ q.vulnerable
    /\ ~q.diff /\ q.reason = r.reason

LEMMA WithCommitRow ==
    ASSUME NEW r \in Row, r.patch = NoCommit, NEW commit \in Commit, NEW parent
    PROVE  Committed(WithCommit(r, commit, parent), r, commit)
<1>1. r \in Record /\ Honest(r)
  BY DEF Row
<1>2. ~r.diff /\ r.diff \in BOOLEAN /\ commit # NoCommit
  BY <1>1, DiffAssumption DEF Honest, Record
<1>3. WithCommit(r, commit, parent) = [r EXCEPT !.patch = commit, !.vulnerable = TRUE]
  BY DEF WithCommit
<1> QED
  BY <1>1, <1>2, <1>3 DEF Row, Record, Honest, Committed

LEMMA WithDiffRow ==
    ASSUME NEW r \in Row, r.patch \in Commit, r.reason \notin {"no_commit_resolved", "no_patch_commit"}
    PROVE  LET q == WithDiff(r) IN
           /\ q \in Row /\ q.cve = r.cve /\ q.repo = r.repo /\ q.patch = r.patch /\ q.diff = TRUE
           /\ q.reason = r.reason
<1>1. r \in Record /\ Honest(r) /\ r.patch # NoCommit
  BY DiffAssumption DEF Row
<1>2. WithDiff(r) = [r EXCEPT !.diff = TRUE, !.where = Where(Diff[r.patch])]
  BY DEF WithDiff
<1> PICK w : w = Where(Diff[r.patch])
  OBVIOUS
<1>3. w \in [file : Path \cup {NoPath}, lines : Seq(Nat), sink : Sink \cup {NoPath, "unknown"}, loc : Nat]
  BY WhereType
<1>4. Locates(w, r.patch)
  BY LocationOfDiff
<1>5. [r EXCEPT !.diff = TRUE, !.where = w] \in Record
  BY <1>1, <1>3 DEF Record
<1>6. Honest([r EXCEPT !.diff = TRUE, !.where = w])
  BY <1>1, <1>4, <1>5 DEF Record, Honest
<1> QED
  BY <1>1, <1>2, <1>5, <1>6 DEF Row, Record

LEMMA WithReasonRow ==
    ASSUME NEW r \in Row, NEW reason \in {"no_repo_url", "diff_fetch_failed", "duplicate_cve_id",
                                          "no_vulnerable_commit", "duplicate_location"}
    PROVE  LET q == [r EXCEPT !.reason = reason] IN
           /\ q \in Row /\ q.cve = r.cve /\ q.repo = r.repo /\ q.patch = r.patch /\ q.diff = r.diff
           /\ q.where = r.where /\ q.reason = reason
BY DEF Row, Record, Honest

LEMMA WithoutCommitRow ==
    ASSUME NEW r \in Row, r.patch = NoCommit, NEW reason \in {"no_commit_resolved", "no_patch_commit"}
    PROVE  LET q == [r EXCEPT !.reason = reason] IN
           /\ q \in Row /\ q.cve = r.cve /\ q.repo = r.repo /\ q.patch = r.patch /\ q.diff = r.diff
           /\ q.where = r.where /\ q.reason = reason /\ ~r.diff
BY DEF Row, Record, Honest

Unique(rows) == \A i, j \in 1..Len(rows) : rows[i].cve = rows[j].cve => i = j

\* The same CVEs in the same places.
SameCves(p, q) == Len(p) = Len(q) /\ \A i \in 1..Len(p) : p[i].cve = q[i].cve

LEMMA SameCvesUnique ==
    ASSUME NEW p, NEW q, SameCves(p, q)
    PROVE  (Unique(q) => Unique(p)) /\ CvesOf(p) = CvesOf(q)
BY DEF SameCves, Unique, CvesOf

\* Of the elements at the positions is no two have the same CVE, if that is so of the
\* elements of s.
LEMMA KeptUnique ==
    ASSUME NEW T, NEW s \in Seq(T), NEW is \in SUBSET (1..Len(s)),
           \A m, n \in is : s[m].cve = s[n].cve => m = n
    PROVE  Unique(Kept(s, is)) /\ CvesOf(Kept(s, is)) = {s[n].cve : n \in is}
<1> PICK p : p = Kept(s, is)
  OBVIOUS
<1>1. p \in Seq(T) /\ ListsAt(p, s, is)
  BY KeptElements
<1>2. PICK to \in [1..Len(p) -> is] :
        /\ \A i \in 1..Len(p) : p[i] = s[to[i]]
        /\ \A i, j \in 1..Len(p) : i < j => to[i] < to[j]
        /\ \A n \in is : \E i \in 1..Len(p) : to[i] = n
  BY <1>1 DEF ListsAt
<1>3. \A i \in 1..Len(p) : i \in Nat /\ to[i] \in is /\ to[i] \in Nat
  <2>1. \A n \in is : n \in Nat
    OBVIOUS
  <2>2. \A i \in 1..Len(p) : i \in Nat /\ to[i] \in is
    BY <1>1, <1>2
  <2> QED
    BY <2>1, <2>2
<1>4. ASSUME NEW i \in 1..Len(p), NEW j \in 1..Len(p), p[i].cve = p[j].cve PROVE i = j
  <2>1. to[i] = to[j]
    BY <1>2, <1>3, <1>4
  <2>2. ~(to[i] < to[j]) /\ ~(to[j] < to[i])
    BY <1>3, <2>1
  <2> QED
    BY <1>2, <1>3, <2>2
<1>5. CvesOf(p) = {s[n].cve : n \in is}
  <2>1. ASSUME NEW c \in CvesOf(p) PROVE c \in {s[n].cve : n \in is}
    <3>1. PICK i \in 1..Len(p) : c = p[i].cve
      BY DEF CvesOf
    <3> QED
      BY <1>2, <1>3, <3>1
  <2>2. ASSUME NEW n \in is PROVE s[n].cve \in CvesOf(p)
    <3>1. PICK i \in 1..Len(p) : to[i] = n
      BY <1>2
    <3> QED
      BY <1>2, <3>1 DEF CvesOf
  <2> QED
    BY <2>1, <2>2
<1> QED
  BY <1>4, <1>5 DEF Unique

LEMMA FirstOfEachRows ==
    ASSUME NEW wanted \in Seq(Advisory)
    PROVE  LET rows == FirstOfEach(wanted) IN
           /\ rows \in Seq(Row) /\ Unique(rows)
           /\ CvesOf(rows) = {wanted[i].cve : i \in 1..Len(wanted)}
           /\ \A i \in 1..Len(rows) : rows[i].patch = NoCommit /\ ~rows[i].diff /\ rows[i].reason = "none"
<1> DEFINE First(i) == \A j \in 1..(i - 1) : wanted[j].cve # wanted[i].cve
           firsts == {i \in 1..Len(wanted) : First(i)}
<1> PICK taken : taken = Kept(wanted, firsts)
  OBVIOUS
<1> PICK rows : rows = FirstOfEach(wanted)
  OBVIOUS
<1>0. Len(wanted) \in Nat
  OBVIOUS
<1>1. rows = [n \in 1..Len(taken) |-> NewRecord(taken[n])]
  BY DEF FirstOfEach
<1>2. \A m, n \in firsts : wanted[m].cve = wanted[n].cve => m = n
  <2> SUFFICES ASSUME NEW m \in firsts, NEW n \in firsts, m < n PROVE wanted[m].cve # wanted[n].cve
    <3>1. \A m, n \in firsts : m \in Nat /\ n \in Nat /\ (m < n \/ n < m \/ m = n)
      BY <1>0
    <3> QED
      BY <3>1
  <2>1. m \in 1..(n - 1)
    BY <1>0
  <2> QED
    BY <2>1
<1>3. {wanted[n].cve : n \in firsts} = {wanted[i].cve : i \in 1..Len(wanted)}
  <2>0. {wanted[n].cve : n \in firsts} \subseteq {wanted[i].cve : i \in 1..Len(wanted)}
    OBVIOUS
  <2> SUFFICES ASSUME NEW i \in 1..Len(wanted) PROVE wanted[i].cve \in {wanted[n].cve : n \in firsts}
    BY <2>0
  <2> DEFINE those == {j \in 1..Len(wanted) : wanted[j].cve = wanted[i].cve}
  <2>1. PICK n \in those : \A j \in those : n <= j
    <3>1. those \in SUBSET Nat /\ those # {}
      BY <1>0
    <3> HIDE DEF those
    <3> QED
      BY <3>1, LeastElement
  <2>2. ASSUME NEW j \in 1..(n - 1) PROVE wanted[j].cve # wanted[n].cve
    <3>1. j \in 1..Len(wanted) /\ ~(n <= j)
      BY <1>0
    <3> QED
      BY <2>1, <3>1
  <2> QED
    <3>1. n \in firsts /\ wanted[n].cve = wanted[i].cve
      BY <2>1, <2>2
    <3> QED
      BY <3>1
<1>4. firsts \in SUBSET (1..Len(wanted))
  OBVIOUS
<1> HIDE DEF firsts
<1>5. /\ taken \in Seq(Advisory) /\ Len(taken) \in Nat /\ Unique(taken)
      /\ CvesOf(taken) = {wanted[i].cve : i \in 1..Len(wanted)}
  <2>1. taken \in Seq(Advisory) /\ Len(taken) \in Nat
    BY <1>4, KeptSources
  <2>2. Unique(Kept(wanted, firsts)) /\ CvesOf(Kept(wanted, firsts)) = {wanted[n].cve : n \in firsts}
    BY <1>2, <1>4, KeptUnique
  <2> QED
    BY <1>3, <2>1, <2>2
<1>6. \A n \in 1..Len(taken) : taken[n] \in Advisory
  BY <1>5
<1>7. rows \in Seq(Row) /\ Len(rows) = Len(taken) /\ \A n \in 1..Len(taken) : rows[n] = NewRecord(taken[n])
  <2>1. \A n \in 1..Len(taken) : NewRecord(taken[n]) \in Row
    BY <1>6, NewRecordRow
  <2> QED
    BY <1>1, <1>5, <2>1
<1>8. SameCves(rows, taken)
  BY <1>6, <1>7, NewRecordRow DEF SameCves
<1>9. \A i \in 1..Len(rows) : rows[i].patch = NoCommit /\ ~rows[i].diff /\ rows[i].reason = "none"
  BY <1>6, <1>7, NewRecordRow
<1> QED
  BY <1>5, <1>7, <1>8, <1>9, SameCvesUnique

-----------------------------------------------------------------------------
(* The sample of phase 6. *)

IsNeeding(f, picked, order) ==
    f = [n \in 0..Len(order) |->
            IF n = 0 THEN picked
            ELSE IF Cardinality(f[n - 1]) < TargetN /\ Needed(order[n], f[n - 1])
                 THEN f[n - 1] \cup {order[n]} ELSE f[n - 1]]

NeedStep(order, n, selected) ==
    IF Cardinality(selected) < TargetN /\ Needed(order[n], selected)
    THEN selected \cup {order[n]} ELSE selected

\* What may be selected while the needed ones join what was picked.
Selections(picked, all) ==
    {W \in SUBSET all : picked \subseteq W /\ (W = picked \/ Cardinality(W) <= TargetN)}

LEMMA NeedStepType ==
    ASSUME NEW all, IsFiniteSet(all), NEW picked \in SUBSET all, NEW order \in Seq(all),
           NEW n \in 1..Len(order), NEW W \in Selections(picked, all)
    PROVE  NeedStep(order, n, W) \in Selections(picked, all)
<1> PICK x : x = order[n]
  OBVIOUS
<1>1. x \in all
  OBVIOUS
<1>2. W \subseteq all /\ picked \subseteq W
  BY DEF Selections
<1>3. IsFiniteSet(W)
  BY <1>2, FS_Subset
<1>4. Cardinality(W) \in Nat /\ TargetN \in Nat
  BY <1>3, FS_CardinalityType, CollectionAssumption
<1>5. Cardinality(W \cup {x}) = Cardinality(W) \/ Cardinality(W \cup {x}) = Cardinality(W) + 1
  BY <1>3, FS_AddElement
<1>6. Cardinality(W) < TargetN => W \cup {x} \in Selections(picked, all)
  <2>1. Cardinality(W) < TargetN => Cardinality(W \cup {x}) <= TargetN
    BY <1>4, <1>5
  <2> QED
    BY <1>1, <1>2, <2>1 DEF Selections
<1> QED
  BY <1>6 DEF NeedStep

LEMMA WithNeededSelects ==
    ASSUME NEW all, IsFiniteSet(all), NEW picked \in SUBSET all, NEW order \in Seq(all)
    PROVE  WithNeeded(picked, order) \in Selections(picked, all)
<1> DEFINE S == Selections(picked, all)
           step == [i \in 1..Len(order) |-> [W \in S |-> NeedStep(order, i, W)]]
<1>1. Len(order) \in Nat /\ picked \in S
  BY DEF Selections
<1>2. \A i \in 1..Len(order), W \in S : step[i][W] = NeedStep(order, i, W)
  OBVIOUS
<1>3. \A i \in 1..Len(order) : \A W \in S : step[i][W] \in S
  BY <1>2, NeedStepType
<1> HIDE DEF step
<1> HIDE DEF S
<1>4. PICK f \in [0..Len(order) -> S] :
        f[0] = picked /\ \A i \in 1..Len(order) : f[i] = step[i][f[i - 1]]
  <2>1. \E f : Iterates(f, Len(order), S, picked, step)
    BY <1>1, <1>3, RecursiveFunction
  <2> QED
    BY <2>1 DEF Iterates
<1>5. IsNeeding(f, picked, order)
  <2>1. ASSUME NEW n \in 0..Len(order)
        PROVE f[n] = IF n = 0 THEN picked
                     ELSE IF Cardinality(f[n - 1]) < TargetN /\ Needed(order[n], f[n - 1])
                     THEN f[n - 1] \cup {order[n]} ELSE f[n - 1]
    <3>1. CASE n = 0
      BY <3>1, <1>4
    <3>2. CASE n # 0
      <4>1. n \in 1..Len(order) /\ n - 1 \in 0..Len(order)
        BY <3>2, <1>1
      <4>2. f[n] = NeedStep(order, n, f[n - 1])
        BY <4>1, <1>2, <1>4
      <4> QED
        BY <4>2, <3>2 DEF NeedStep
    <3> QED
      BY <3>1, <3>2
  <2>2. f = [n \in 0..Len(order) |-> f[n]]
    OBVIOUS
  <2> QED
    BY <2>1, <2>2 DEF IsNeeding
<1> DEFINE g == CHOOSE h : IsNeeding(h, picked, order)
<1>6. IsNeeding(g, picked, order)
  BY <1>5
<1>7. WithNeeded(picked, order) = g[Len(order)]
  BY DEF WithNeeded, IsNeeding
<1> HIDE DEF g
<1>8. ASSUME NEW n \in 0..Len(order)
      PROVE  g[n] = IF n = 0 THEN picked
                     ELSE IF Cardinality(g[n - 1]) < TargetN /\ Needed(order[n], g[n - 1])
                     THEN g[n - 1] \cup {order[n]} ELSE g[n - 1]
  BY <1>6, Zenon DEF IsNeeding
<1> DEFINE G == {n \in Nat : n <= Len(order) => g[n] \in S}
<1>9. 0 \in G
  <2>1. 0 \in 0..Len(order)
    BY <1>1
  <2>2. g[0] = picked
    BY <1>8, <2>1
  <2> QED
    BY <1>1, <2>2
<1>10. \A n \in Nat : n \in G => n + 1 \in G
  <2> SUFFICES ASSUME NEW n \in Nat, n \in G, n + 1 <= Len(order) PROVE g[n + 1] \in S
    OBVIOUS
  <2> PICK k : k = n + 1
    OBVIOUS
  <2>1. k \in 1..Len(order) /\ k \in 0..Len(order) /\ k # 0 /\ k - 1 = n /\ g[n] \in S
    BY <1>1
  <2>2. g[k] = NeedStep(order, k, g[n])
    BY <1>8, <2>1 DEF NeedStep
  <2>3. NeedStep(order, k, g[n]) \in S
    BY <2>1, NeedStepType DEF S
  <2> QED
    BY <2>2, <2>3
<1> HIDE DEF G
<1>11. Nat \subseteq G
  BY <1>9, <1>10, Induction
<1> QED
  BY <1>1, <1>7, <1>11 DEF G, S

LEMMA OrderIs ==
    ASSUME NEW set, IsFiniteSet(set), NEW order \in Orders(set)
    PROVE  /\ order \in Seq(set) /\ Len(order) = Cardinality(set)
           /\ \A i, j \in 1..Len(order) : order[i] = order[j] => i = j
<1>1. Cardinality(set) \in Nat
  BY FS_CardinalityType
<1>2. order \in [1..Cardinality(set) -> set] /\ \A i, j \in DOMAIN order : order[i] = order[j] => i = j
  BY DEF Orders
<1>3. order \in Seq(set) /\ Len(order) = Cardinality(set)
  BY <1>1, <1>2
<1> QED
  BY <1>2, <1>3

\* F is W and as much more as the target asks for.
FilledTo(F, W, n) ==
    /\ F \in SUBSET (1..n) /\ W \subseteq F
    /\ Cardinality(W) < TargetN => Cardinality(F) = TargetN
    /\ ~(Cardinality(W) < TargetN) => Cardinality(F) = Cardinality(W)

LEMMA FilledSize ==
    ASSUME NEW n \in Nat, n > TargetN, NEW picked \in SUBSET (1..n), NEW rest, rest = (1..n) \ picked,
           NEW order \in Orders(rest),
           NEW W \in SUBSET (1..n), picked \subseteq W
    PROVE  FilledTo(Filled(W, order), W, n)
<1> SUFFICES /\ Filled(W, order) \in SUBSET (1..n) /\ W \subseteq Filled(W, order)
             /\ Cardinality(W) < TargetN => Cardinality(Filled(W, order)) = TargetN
             /\ ~(Cardinality(W) < TargetN) => Cardinality(Filled(W, order)) = Cardinality(W)
  BY DEF FilledTo
<1> DEFINE js == {m \in 1..Len(order) : order[m] \notin W}
<1> PICK left : left = Kept(order, js)
  OBVIOUS
<1> PICK l : l = Len(left)
  OBVIOUS
<1> DEFINE new == {left[m] : m \in {k \in 1..l : k + Cardinality(W) <= TargetN}}
<1>1. Filled(W, order) = W \cup new
  BY DEF Filled
<1>2. IsFiniteSet(1..n) /\ Cardinality(1..n) = n /\ TargetN \in Nat
  BY UpToSize, CollectionAssumption
<1>3. IsFiniteSet(W) /\ IsFiniteSet(rest) /\ Cardinality(W) \in Nat
  BY <1>2, FS_Subset, FS_CardinalityType
<1>4. /\ order \in Seq(rest) /\ Len(order) = Cardinality(rest)
      /\ \A i, j \in 1..Len(order) : order[i] = order[j] => i = j
  BY <1>3, OrderIs
<1>5. Len(order) \in Nat /\ \A i \in 1..Len(order) : order[i] \in rest
  BY <1>4, ElementsIn
<1>6. js \in SUBSET (1..Len(order)) /\ \A j \in js : order[j] \in (1..n) \ W
  BY <1>5
<1>7. \A x \in rest : \E i \in 1..Len(order) : order[i] = x
  <2> DEFINE f == [i \in 1..Len(order) |-> order[i]]
  <2>1. f \in [1..Len(order) -> rest] /\ \A i \in 1..Len(order) : f[i] = order[i]
    BY <1>5
  <2> HIDE DEF f
  <2>2. f \in Injection(1..Len(order), rest)
    BY <1>4, <2>1 DEF Injection, IsInjective
  <2>3. Cardinality(1..Len(order)) = Cardinality(rest)
    BY <1>4, <1>5, UpToSize
  <2>4. f \in Surjection(1..Len(order), rest)
    BY <1>3, <2>2, <2>3, FS_Injection
  <2> QED
    BY <2>1, <2>4 DEF Surjection
<1>8. Cardinality(js) = n - Cardinality(W) /\ IsFiniteSet(js)
  <2>1. \A x \in (1..n) \ W : \E j \in js : order[j] = x
    BY <1>7
  <2>2. IsFiniteSet(js)
    <3>1. IsFiniteSet(1..Len(order))
      BY <1>5, UpToSize
    <3> QED
      BY <1>6, <3>1, FS_Subset
  <2>3. Cardinality((1..n) \ W) = Cardinality(js)
    <3>1. \A x, y \in js : order[x] = order[y] => x = y
      BY <1>4
    <3> HIDE DEF js
    <3> QED
      BY <1>6, <2>1, <2>2, <3>1, SameSize
  <2>4. (1..n) \cap W = W
    OBVIOUS
  <2>5. Cardinality((1..n) \ W) = Cardinality(1..n) - Cardinality((1..n) \cap W)
    BY <1>2, FS_Difference
  <2> QED
    BY <1>2, <2>2, <2>3, <2>4, <2>5
<1> HIDE DEF js
<1>9. left \in Seq(rest) /\ l \in Nat /\ l = n - Cardinality(W)
  <2>1. Kept(order, js) \in Seq(rest)
    BY <1>4, <1>6, KeptSources
  <2>2. Len(Kept(order, js)) = Cardinality(js)
    BY <1>4, <1>6, CountKept
  <2> QED
    BY <1>8, <2>1, <2>2, ElementsIn
<1>10. PICK to \in [1..l -> js] :
          /\ \A i \in 1..l : left[i] = order[to[i]]
          /\ \A i, j \in 1..l : to[i] = to[j] => i = j
  <2>1. PICK to : TakenFrom(to, Kept(order, js), order, js)
    BY <1>4, <1>6, KeptPlaces
  <2> QED
    BY <2>1 DEF TakenFrom
<1>11. ASSUME NEW i \in 1..l PROVE left[i] \in (1..n) \ W
  <2>1. to[i] \in js /\ left[i] = order[to[i]]
    BY <1>10
  <2> QED
    BY <1>6, <2>1
<1>12. \A i, j \in 1..l : left[i] = left[j] => i = j
  <2> SUFFICES ASSUME NEW i \in 1..l, NEW j \in 1..l, left[i] = left[j] PROVE i = j
    OBVIOUS
  <2>1. to[i] \in js /\ to[j] \in js
    BY <1>10
  <2>2. to[i] \in 1..Len(order) /\ to[j] \in 1..Len(order)
    BY <1>6, <2>1
  <2>3. to[i] = to[j]
    BY <1>4, <1>10, <2>2
  <2> QED
    BY <1>10, <2>3
<1>13. new \subseteq (1..n) \ W
  BY <1>11
<1>14. CASE Cardinality(W) < TargetN
  <2> PICK k : k = TargetN - Cardinality(W)
    OBVIOUS
  <2>1. k \in Nat /\ k <= l
    BY <1>2, <1>3, <1>9, <1>14
  <2>2. {m \in 1..l : m + Cardinality(W) <= TargetN} = 1..k
    BY <1>2, <1>3, <1>9, <2>1
  <2>3. new = {left[m] : m \in 1..k}
    BY <2>2
  <2>4. 1..k \subseteq 1..l
    BY <1>9, <2>1
  <2>5. IsFiniteSet(1..k) /\ Cardinality(1..k) = k
    BY <2>1, UpToSize
  <2> HIDE DEF new
  <2>6. IsFiniteSet(new) /\ Cardinality(new) = k
    <3>1. \A x \in 1..k : left[x] \in new
      BY <2>3
    <3>2. \A x, y \in 1..k : left[x] = left[y] => x = y
      BY <1>12, <2>4
    <3>3. \A b \in new : \E x \in 1..k : left[x] = b
      BY <2>3
    <3> HIDE DEF new
    <3>4. IsFiniteSet(new) /\ Cardinality(new) = Cardinality(1..k)
      BY <2>5, <3>1, <3>2, <3>3, SameSize
    <3> QED
      BY <2>5, <3>4
  <2>7. W \cap new = {}
    BY <1>13
  <2>8. Cardinality(W \cup new) = Cardinality(W) + Cardinality(new) - Cardinality(W \cap new)
    BY <1>3, <2>6, FS_Union
  <2>9. Cardinality(W \cap new) = 0
    BY <2>7, FS_EmptySet
  <2> QED
    BY <1>1, <1>2, <1>3, <1>13, <1>14, <2>1, <2>6, <2>8, <2>9
<1>15. CASE ~(Cardinality(W) < TargetN)
  <2>1. {m \in 1..l : m + Cardinality(W) <= TargetN} = {}
    BY <1>2, <1>3, <1>9, <1>15
  <2>2. new = {}
    BY <2>1
  <2> QED
    BY <1>1, <1>15, <2>2
<1> QED
  BY <1>14, <1>15

LEMMA BinType == ASSUME NEW r PROVE BinOf(r) \in Bins
<1> PICK l : l = Len(LocLimits)
  OBVIOUS
<1>1. l \in Nat
  BY CollectionAssumption
<1> DEFINE S == {n \in 1..l : LocLimits[n] <= r.where.loc}
<1>2. IsFiniteSet(1..l) /\ Cardinality(1..l) = l /\ S \in SUBSET (1..l)
  BY <1>1, UpToSize
<1>3. BinOf(r) = Cardinality(S)
  BY DEF BinOf
<1> HIDE DEF S
<1>4. IsFiniteSet(S) /\ Cardinality(S) <= l /\ Cardinality(S) \in Nat
  BY <1>2, FS_Subset, FS_CardinalityType
<1> QED
  BY <1>1, <1>3, <1>4 DEF Bins

LEMMA InBinFinite ==
    ASSUME NEW T, NEW rows \in Seq(T), NEW bin
    PROVE  /\ InBin(rows, bin) \in SUBSET (1..Len(rows)) /\ IsFiniteSet(InBin(rows, bin))
           /\ Cardinality(InBin(rows, bin)) \in Nat /\ Cardinality(InBin(rows, bin)) <= Len(rows)
<1>1. InBin(rows, bin) \in SUBSET (1..Len(rows)) /\ Len(rows) \in Nat
  BY DEF InBin
<1>2. IsFiniteSet(1..Len(rows)) /\ Cardinality(1..Len(rows)) = Len(rows)
  BY <1>1, UpToSize
<1> QED
  BY <1>1, <1>2, FS_Subset, FS_CardinalityType

\* What is picked by bins is as much as the bins are entitled to.
LEMMA PickedSize ==
    ASSUME NEW T, NEW rows \in Seq(T), NEW picked \in SUBSET (1..Len(rows)),
           \A bin \in Bins : Cardinality(picked \cap InBin(rows, bin))
                                = Smaller(MinPerLocBin, Cardinality(InBin(rows, bin)))
    PROVE  Cardinality(picked) = Reserved(rows)
<1> DEFINE share == [bin \in Bins |-> Smaller(MinPerLocBin, Cardinality(InBin(rows, bin)))]
           part == [bin \in Bins |-> picked \cap InBin(rows, bin)]
           places == {p \in Bins \X (1..Len(rows)) : p[2] <= Smaller(MinPerLocBin, Cardinality(InBin(rows, p[1])))}
<1>1. Len(rows) \in Nat /\ MinPerLocBin \in Nat
  BY CollectionAssumption
<1>2. ASSUME NEW bin \in Bins
      PROVE  /\ share[bin] \in Nat /\ share[bin] <= Len(rows)
             /\ IsFiniteSet(part[bin]) /\ Cardinality(part[bin]) = share[bin]
  <2>1. IsFiniteSet(InBin(rows, bin)) /\ Cardinality(InBin(rows, bin)) \in Nat
        /\ Cardinality(InBin(rows, bin)) <= Len(rows)
    BY InBinFinite
  <2>2. share[bin] \in Nat /\ share[bin] <= Len(rows)
    BY <1>1, <2>1 DEF Smaller
  <2>3. IsFiniteSet(part[bin])
    BY <2>1, FS_Intersection
  <2> QED
    BY <2>2, <2>3
<1>3. \A p \in Bins \X (1..Len(rows)) : p \in places <=> p[2] <= share[p[1]]
  OBVIOUS
<1>4. Reserved(rows) = Cardinality(places)
  BY DEF Reserved
<1>5. places \subseteq Bins \X (1..Len(rows))
  OBVIOUS
<1>6. \A bin \in Bins : part[bin] = picked \cap InBin(rows, bin)
  OBVIOUS
<1> HIDE DEF share, part, places
<1>7. \A bin \in Bins : \E f : f \in Bijection(1..share[bin], part[bin])
  <2> SUFFICES ASSUME NEW bin \in Bins PROVE \E f : f \in Bijection(1..share[bin], part[bin])
    OBVIOUS
  <2>1. ExistsBijection(1..Cardinality(part[bin]), part[bin])
    BY <1>2, FS_CardinalityType
  <2> QED
    BY <1>2, <2>1 DEF ExistsBijection
<1> DEFINE e == [bin \in Bins |-> CHOOSE f : f \in Bijection(1..share[bin], part[bin])]
           f == [p \in Bins \X (1..Len(rows)) |-> e[p[1]][p[2]]]
<1>8. \A bin \in Bins : e[bin] \in Bijection(1..share[bin], part[bin])
  BY <1>7
<1>9. \A p \in places : f[p] = e[p[1]][p[2]]
  BY <1>5
<1> HIDE DEF e, f
<1>10. \A p \in places : /\ p[1] \in Bins /\ p[2] \in 1..Len(rows) /\ p[2] \in 1..share[p[1]]
                         /\ p = <<p[1], p[2]>>
  <2> SUFFICES ASSUME NEW p \in places
               PROVE  /\ p[1] \in Bins /\ p[2] \in 1..Len(rows) /\ p[2] \in 1..share[p[1]]
                      /\ p = <<p[1], p[2]>>
    OBVIOUS
  <2>1. p \in Bins \X (1..Len(rows))
    BY <1>5
  <2>2. p[1] \in Bins /\ p[2] \in 1..Len(rows) /\ p = <<p[1], p[2]>>
    BY <2>1
  <2>3. p[2] <= share[p[1]] /\ share[p[1]] \in Nat
    BY <1>2, <1>3, <2>1, <2>2
  <2> QED
    BY <1>1, <2>2, <2>3
<1>11. \A bin \in Bins : \A k \in 1..share[bin] : e[bin][k] \in part[bin]
  BY <1>8 DEF Bijection, Injection
<1>12. \A bin \in Bins : \A k, m \in 1..share[bin] : e[bin][k] = e[bin][m] => k = m
  BY <1>8 DEF Bijection, Injection, IsInjective
<1>13. \A bin \in Bins : \A i \in part[bin] : \E k \in 1..share[bin] : e[bin][k] = i
  BY <1>8 DEF Bijection, Surjection
<1>14. \A bin \in Bins : \A i \in part[bin] : i \in picked /\ BinOf(rows[i]) = bin
  BY <1>6 DEF InBin
<1>15. \A p \in places : f[p] \in picked
  BY <1>9, <1>10, <1>11, <1>14
<1>16. ASSUME NEW p \in places, NEW q \in places, f[p] = f[q] PROVE p = q
  <2>1. f[p] \in part[p[1]] /\ f[q] \in part[q[1]]
    BY <1>9, <1>10, <1>11
  <2>2. p[1] = q[1]
    BY <1>10, <1>14, <1>16, <2>1
  <2>3. p[2] = q[2]
    BY <1>9, <1>10, <1>12, <1>16, <2>2
  <2> QED
    BY <1>10, <2>2, <2>3
<1>17. ASSUME NEW i \in picked PROVE \E p \in places : f[p] = i
  <2> PICK bin : bin = BinOf(rows[i])
    OBVIOUS
  <2>1. bin \in Bins
    BY BinType
  <2>2. i \in part[bin]
    BY <1>6, <2>1 DEF InBin
  <2>3. PICK k \in 1..share[bin] : e[bin][k] = i
    BY <1>13, <2>1, <2>2
  <2>4. k \in 1..Len(rows) /\ k <= share[bin]
    BY <1>1, <1>2, <2>1
  <2> PICK p : p = <<bin, k>>
    OBVIOUS
  <2>5. p \in Bins \X (1..Len(rows)) /\ p[1] = bin /\ p[2] = k
    BY <2>1, <2>4
  <2>6. p \in places
    BY <1>3, <2>4, <2>5
  <2> QED
    BY <1>9, <2>3, <2>5, <2>6
<1>18. IsFiniteSet(places)
  <2>1. IsFiniteSet(Bins)
    <3>1. 0 \in Int /\ Len(LocLimits) \in Int
      BY CollectionAssumption
    <3> QED
      BY <3>1, FS_Interval DEF Bins
  <2>2. IsFiniteSet(1..Len(rows))
    BY <1>1, UpToSize
  <2>3. IsFiniteSet(Bins \X (1..Len(rows)))
    BY <2>1, <2>2, FS_Product
  <2> QED
    BY <1>5, <2>3, FS_Subset
<1>19. Cardinality(picked) = Cardinality(places)
  BY <1>15, <1>16, <1>17, <1>18, SameSize
<1> QED
  BY <1>4, <1>19

LEMMA KeptBins ==
    ASSUME NEW T, NEW rows \in Seq(T), NEW F \in SUBSET (1..Len(rows)), NEW bin
    PROVE  Cardinality(InBin(Kept(rows, F), bin)) = Cardinality(F \cap InBin(rows, bin))
<1> PICK p : p = Kept(rows, F)
  OBVIOUS
<1>1. p \in Seq(T)
  BY KeptSources
<1>2. PICK to : TakenFrom(to, p, rows, F)
  BY KeptPlaces
<1>3. /\ \A i \in 1..Len(p) : to[i] \in F /\ p[i] = rows[to[i]]
      /\ \A i, j \in 1..Len(p) : to[i] = to[j] => i = j
      /\ \A n \in F : \E i \in 1..Len(p) : to[i] = n
  BY <1>2 DEF TakenFrom
<1>4. IsFiniteSet(InBin(p, bin)) /\ \A i \in InBin(p, bin) : i \in 1..Len(p)
  BY <1>1, InBinFinite
<1>5. \A i \in InBin(p, bin) : to[i] \in F \cap InBin(rows, bin)
  BY <1>3 DEF InBin
<1>6. \A i, j \in InBin(p, bin) : to[i] = to[j] => i = j
  BY <1>3, <1>4
<1>7. ASSUME NEW n \in F \cap InBin(rows, bin) PROVE \E i \in InBin(p, bin) : to[i] = n
  <2>1. PICK i \in 1..Len(p) : to[i] = n
    BY <1>3
  <2>2. i \in InBin(p, bin)
    BY <1>3, <2>1 DEF InBin
  <2> QED
    BY <2>1, <2>2
<1>8. Cardinality(F \cap InBin(rows, bin)) = Cardinality(InBin(p, bin))
  BY <1>4, <1>5, <1>6, <1>7, SameSize
<1> QED
  BY <1>8

\* A sample that is as large as asked for and has its share of every bin.
Stratified(sample, pool) ==
    /\ Len(sample) = IF Len(pool) <= TargetN THEN Len(pool)
                     ELSE IF Reserved(pool) > TargetN THEN Reserved(pool) ELSE TargetN
    /\ \A bin \in Bins : Cardinality(InBin(sample, bin))
                            >= Smaller(MinPerLocBin, Cardinality(InBin(pool, bin)))
    /\ CvesOf(sample) \subseteq CvesOf(pool)

LEMMA AllStratified ==
    ASSUME NEW T, NEW pool \in Seq(T), Len(pool) <= TargetN
    PROVE  Stratified(pool, pool)
<1>1. MinPerLocBin \in Nat
  BY CollectionAssumption
<1>2. \A bin \in Bins : Cardinality(InBin(pool, bin)) \in Nat
  BY InBinFinite
<1>3. \A bin \in Bins : Cardinality(InBin(pool, bin)) >= Smaller(MinPerLocBin, Cardinality(InBin(pool, bin)))
  BY <1>1, <1>2 DEF Smaller
<1> QED
  BY <1>3 DEF Stratified

\* The size of the sample is that of what was picked by bins, or the target.
LEMMA FilledSelection ==
    ASSUME NEW n \in Nat, n > TargetN, NEW picked \in SUBSET (1..n), NEW rest, rest = (1..n) \ picked,
           NEW order \in Orders(rest), NEW W \in Selections(picked, 1..n)
    PROVE  /\ Filled(W, order) \in SUBSET (1..n) /\ picked \subseteq Filled(W, order)
           /\ Cardinality(picked) \in Nat
           /\ Cardinality(picked) > TargetN => Cardinality(Filled(W, order)) = Cardinality(picked)
           /\ ~(Cardinality(picked) > TargetN) => Cardinality(Filled(W, order)) = TargetN
<1>1. IsFiniteSet(1..n) /\ TargetN \in Nat
  BY UpToSize, CollectionAssumption
<1>2. W \in SUBSET (1..n) /\ picked \subseteq W /\ (W = picked \/ Cardinality(W) <= TargetN)
  BY DEF Selections
<1>3. W \in SUBSET (1..n) /\ picked \subseteq W
  BY <1>2
<1>4. FilledTo(Filled(W, order), W, n)
  BY <1>3, FilledSize
<1>5. /\ Filled(W, order) \in SUBSET (1..n) /\ W \subseteq Filled(W, order)
      /\ Cardinality(W) < TargetN => Cardinality(Filled(W, order)) = TargetN
      /\ ~(Cardinality(W) < TargetN) => Cardinality(Filled(W, order)) = Cardinality(W)
  BY <1>4 DEF FilledTo
<1>6. IsFiniteSet(W) /\ Cardinality(W) \in Nat /\ Cardinality(picked) \in Nat /\ Cardinality(picked) <= Cardinality(W)
  BY <1>1, <1>2, FS_Subset, FS_CardinalityType
<1> QED
  BY <1>1, <1>2, <1>5, <1>6

\* What was picked has its share of every bin.
Shares(picked, pool) ==
    \A bin \in Bins : Cardinality(picked \cap InBin(pool, bin))
                            = Smaller(MinPerLocBin, Cardinality(InBin(pool, bin)))

LEMMA SampleStratified ==
    ASSUME NEW T, NEW pool \in Seq(T), Len(pool) > TargetN, NEW picked \in SUBSET (1..Len(pool)),
           Shares(picked, pool),
           NEW order \in Orders((1..Len(pool)) \ picked),
           NEW F, F = Filled(WithNeeded(picked, order), order)
    PROVE  F \in SUBSET (1..Len(pool)) /\ Stratified(Kept(pool, F), pool)
<1> PICK n : n = Len(pool)
  OBVIOUS
<1> PICK W : W = WithNeeded(picked, order)
  OBVIOUS
<1>1. n \in Nat /\ IsFiniteSet(1..n) /\ TargetN \in Nat
  BY UpToSize, CollectionAssumption
<1>2. order \in Seq(1..n)
  <2>1. IsFiniteSet((1..n) \ picked)
    BY <1>1, FS_Difference
  <2>2. order \in Seq((1..n) \ picked)
    BY <2>1, OrderIs
  <2> QED
    BY <2>2
<1>3. W \in Selections(picked, 1..n)
  BY <1>1, <1>2, WithNeededSelects
<1> PICK rest : rest = (1..n) \ picked
  OBVIOUS
<1>4. n > TargetN /\ order \in Orders(rest) /\ picked \in SUBSET (1..n) /\ F = Filled(W, order)
  OBVIOUS
<1>5. F \in SUBSET (1..n) /\ picked \subseteq F
  BY <1>1, <1>3, <1>4, FilledSelection
<1>6. Cardinality(picked) = Reserved(pool)
  BY PickedSize DEF Shares
<1>7. /\ Cardinality(picked) > TargetN => Cardinality(F) = Cardinality(picked)
      /\ ~(Cardinality(picked) > TargetN) => Cardinality(F) = TargetN
  BY <1>1, <1>3, <1>4, FilledSelection
<1>8. Cardinality(F) = IF Reserved(pool) > TargetN THEN Reserved(pool) ELSE TargetN
  BY <1>6, <1>7
<1>9. Len(Kept(pool, F)) = Cardinality(F)
  BY <1>5, CountKept
<1>10. ASSUME NEW bin \in Bins
       PROVE  Cardinality(InBin(Kept(pool, F), bin)) >= Smaller(MinPerLocBin, Cardinality(InBin(pool, bin)))
  <2>1. IsFiniteSet(F \cap InBin(pool, bin)) /\ Cardinality(F \cap InBin(pool, bin)) \in Nat
    <3>1. IsFiniteSet(InBin(pool, bin))
      BY InBinFinite
    <3> QED
      BY <3>1, FS_Intersection, FS_CardinalityType
  <2>2. picked \cap InBin(pool, bin) \in SUBSET (F \cap InBin(pool, bin))
    BY <1>5
  <2>3. Cardinality(picked \cap InBin(pool, bin)) <= Cardinality(F \cap InBin(pool, bin))
    BY <2>1, <2>2, FS_Subset
  <2>4. Cardinality(InBin(Kept(pool, F), bin)) = Cardinality(F \cap InBin(pool, bin))
    BY <1>5, KeptBins
  <2>5. Cardinality(picked \cap InBin(pool, bin)) \in Nat
    BY <2>1, <2>2, FS_Subset, FS_CardinalityType
  <2> QED
    BY <2>1, <2>3, <2>4, <2>5 DEF Shares
<1>11. CvesOf(Kept(pool, F)) \subseteq CvesOf(pool)
  <2> PICK p : p = Kept(pool, F)
    OBVIOUS
  <2>1. \A i \in 1..Len(p) : \E m \in F : p[i] = pool[m]
    BY <1>5, KeptSources
  <2>2. \A i \in 1..Len(p) : \E m \in 1..n : p[i].cve = pool[m].cve
    BY <1>5, <2>1
  <2> QED
    BY <2>2 DEF CvesOf
<1>12. ~(Len(pool) <= TargetN)
  BY <1>1
<1> QED
  BY <1>5, <1>8, <1>9, <1>10, <1>11, <1>12 DEF Stratified

-----------------------------------------------------------------------------
(* What is in memory and in the files. *)

\* What the supplement resolves: no commit, no reason.
FreshRow == {r \in Row : r.patch = NoCommit /\ r.reason = "none"}

DiskFile == [exists : BOOLEAN, torn : BOOLEAN, rows : Seq(Row)]

CollectionTyped ==
    /\ disk \in [File -> DiskFile]
    /\ diffs \in [Cve -> Commit \cup {NoCommit}]
    /\ pc \in File \cup {"idle", "merge"} /\ saving \in BOOLEAN
    /\ records \in Seq(Row) /\ kept \in Seq(Row) /\ dropped \in Seq(Row)
    /\ at \in Nat \ {0}
    /\ pc = "supplement" /\ ~saving => records \in Seq(FreshRow)

\* In memory after a program has ended.
LEMMA ExitTyped ==
    ASSUME Exit, disk' \in [File -> DiskFile], diffs' \in [Cve -> Commit \cup {NoCommit}]
    PROVE  CollectionTyped'
<1>1. <<>> \in Seq(Row) /\ 1 \in Nat \ {0}
  OBVIOUS
<1>2. pc' = "idle" /\ saving' = FALSE /\ records' = <<>> /\ at' = 1 /\ kept' = <<>> /\ dropped' = <<>>
  BY DEF Exit
<1> QED
  BY <1>1, <1>2 DEF CollectionTyped

LEMMA BeginTyped ==
    ASSUME NEW file \in File, NEW rows \in Seq(Row), Begin(file, rows),
           file = "supplement" => rows \in Seq(FreshRow),
           disk' \in [File -> DiskFile], diffs' \in [Cve -> Commit \cup {NoCommit}]
    PROVE  CollectionTyped'
<1>1. <<>> \in Seq(Row) /\ 1 \in Nat \ {0}
  OBVIOUS
<1>2. pc' = file /\ saving' = FALSE /\ records' = rows /\ at' = 1 /\ kept' = <<>> /\ dropped' = <<>>
  BY DEF Begin
<1> QED
  BY <1>1, <1>2 DEF CollectionTyped

LEMMA RowsType ==
    ASSUME CollectionTyped, NEW f \in File
    PROVE  Rows(f) \in Seq(Row) /\ disk[f].exists \in BOOLEAN /\ disk[f].torn \in BOOLEAN
<1>1. disk[f] \in DiskFile
  BY DEF CollectionTyped
<1> QED
  BY <1>1 DEF Rows, DiskFile

LEMMA WrittenType ==
    ASSUME CollectionTyped, NEW f \in File, NEW rows \in Seq(Row)
    PROVE  [disk EXCEPT ![f] = Written(rows)] \in [File -> DiskFile]
<1>1. Written(rows) \in DiskFile
  BY DEF Written, DiskFile
<1> QED
  BY <1>1 DEF CollectionTyped

LEMMA TornType ==
    ASSUME CollectionTyped, NEW f \in File
    PROVE  [disk EXCEPT ![f] = Torn] \in [File -> DiskFile]
<1>1. <<>> \in Seq(Row)
  OBVIOUS
<1>2. Torn \in DiskFile
  BY <1>1 DEF Torn, DiskFile
<1> QED
  BY <1>2 DEF CollectionTyped

LEMMA LatestCheckpointIs ==
    ASSUME Existing # {}
    PROVE  /\ LatestCheckpoint \in {"accepted", "sinks", "commits", "nvd", "ghsa"}
           /\ disk["accepted"].exists => LatestCheckpoint = "accepted"
<1> DEFINE first == CHOOSE i \in Existing : \A j \in Existing : i <= j
<1>1. Existing \in SUBSET (1..5) /\ Len(Checkpoints) = 5
  BY DEF Existing, Checkpoints
<1>2. \E i \in Existing : \A j \in Existing : i <= j
  <2>1. Existing \in SUBSET Nat
    BY <1>1
  <2> QED
    BY <2>1, LeastElement
<1>3. first \in Existing /\ \A j \in Existing : first <= j
  BY <1>2
<1>4. LatestCheckpoint = Checkpoints[first]
  BY DEF LatestCheckpoint
<1> HIDE DEF first
<1>5. LatestCheckpoint \in {"accepted", "sinks", "commits", "nvd", "ghsa"}
  <2>1. first \in 1..5
    BY <1>1, <1>3
  <2>2. first = 1 \/ first = 2 \/ first = 3 \/ first = 4 \/ first = 5
    BY <2>1
  <2> QED
    BY <1>4, <2>2 DEF Checkpoints
<1>6. ASSUME disk["accepted"].exists PROVE LatestCheckpoint = "accepted"
  <2>1. 1 \in Existing
    BY <1>1, <1>6 DEF Existing, Checkpoints
  <2>2. first <= 1 /\ first \in 1..5
    BY <1>1, <1>3, <2>1
  <2>3. first = 1
    BY <2>2
  <2> QED
    BY <1>4, <2>3 DEF Checkpoints
<1> QED
  BY <1>5, <1>6

LEMMA InitTyped == Init => CollectionTyped
<1> SUFFICES ASSUME CollectionInit PROVE CollectionTyped
  BY DEF Init
<1>1. <<>> \in Seq(Row) /\ 1 \in Nat \ {0} /\ <<>> \in Seq(FreshRow)
  OBVIOUS
<1>2. Shipped \in Seq(Row)
  <2>1. \A i \in 1..Len(Shipped) : Shipped[i] \in Row
    BY ShippedAssumption DEF Row, Honest
  <2> QED
    BY <2>1, ShippedAssumption
<1>3. Absent \in DiskFile /\ Written(Shipped) \in DiskFile
  BY <1>1, <1>2 DEF Absent, Written, DiskFile
<1>4. disk \in [File -> DiskFile]
  BY <1>3 DEF CollectionInit
<1>5. diffs \in [Cve -> Commit \cup {NoCommit}]
  <2> DEFINE commitOf(c) == Shipped[CHOOSE i \in 1..Len(Shipped) : Shipped[i].cve = c].patch
  <2>1. ASSUME NEW c \in Cve, c \in CvesOf(Shipped) PROVE commitOf(c) \in Commit \cup {NoCommit}
    <3>1. \E i \in 1..Len(Shipped) : Shipped[i].cve = c
      BY <2>1 DEF CvesOf
    <3> PICK n : n = CHOOSE i \in 1..Len(Shipped) : Shipped[i].cve = c
      OBVIOUS
    <3>2. n \in 1..Len(Shipped)
      BY <3>1
    <3>3. Shipped[n] \in Row
      BY <1>2, <3>2
    <3>4. Shipped[n].patch \in Commit \cup {NoCommit}
      BY <3>3 DEF Row, Record
    <3> QED
      BY <3>4
  <2>2. \/ diffs = [c \in Cve |-> NoCommit]
        \/ diffs = [c \in Cve |-> IF c \notin CvesOf(Shipped) THEN NoCommit ELSE commitOf(c)]
    BY DEF CollectionInit
  <2> HIDE DEF commitOf
  <2> QED
    BY <2>1, <2>2
<1>6. /\ pc = "idle" /\ saving = FALSE /\ records = <<>> /\ at = 1
      /\ kept = <<>> /\ dropped = <<>>
  BY DEF CollectionInit
<1> QED
  BY <1>1, <1>4, <1>5, <1>6 DEF CollectionTyped

LEMMA StartCollectionTyped == ASSUME CollectionTyped, StartCollection PROVE CollectionTyped'
<1>1. disk' \in [File -> DiskFile] /\ diffs' \in [Cve -> Commit \cup {NoCommit}]
  BY DEF CollectionTyped, StartCollection
<1>2. PICK phase \in 0..6 :
        IF phase <= 1 THEN Begin("ghsa", <<>>)
        ELSE Existing # {} /\ Readable(LatestCheckpoint) /\ Begin(Phases[phase], Rows(LatestCheckpoint))
  BY DEF StartCollection
<1>3. CASE phase <= 1
  <2>1. "ghsa" \in File /\ <<>> \in Seq(Row)
    BY DEF File
  <2> QED
    BY <1>1, <1>2, <1>3, <2>1, BeginTyped
<1>4. CASE ~(phase <= 1)
  <2>1. Existing # {} /\ Begin(Phases[phase], Rows(LatestCheckpoint))
    BY <1>2, <1>4
  <2>2. LatestCheckpoint \in File
    BY <2>1, LatestCheckpointIs DEF File
  <2>3. phase = 2 \/ phase = 3 \/ phase = 4 \/ phase = 5 \/ phase = 6
    BY <1>4
  <2>4. Phases[phase] \in File /\ Phases[phase] # "supplement"
    BY <2>3 DEF Phases, File
  <2>5. Rows(LatestCheckpoint) \in Seq(Row)
    BY <2>2, RowsType
  <2> QED
    BY <1>1, <2>1, <2>4, <2>5, BeginTyped
<1> QED
  BY <1>3, <1>4

LEMMA KilledWorkingTyped == ASSUME CollectionTyped, KilledWorking PROVE CollectionTyped'
<1>1. Exit /\ disk' \in [File -> DiskFile] /\ diffs' \in [Cve -> Commit \cup {NoCommit}]
  BY DEF CollectionTyped, KilledWorking
<1> QED
  BY <1>1, ExitTyped

\* A phase, at its end or before the next record.
LEMMA WorkTyped ==
    ASSUME CollectionTyped, pc # "supplement", UNCHANGED <<disk, pc>>, saving' \in BOOLEAN, at' \in {at, at + 1},
           records' \in Seq(Row), kept' \in Seq(Row), dropped' \in Seq(Row),
           diffs' \in [Cve -> Commit \cup {NoCommit}]
    PROVE  CollectionTyped'
<1>1. at' \in Nat \ {0}
  BY DEF CollectionTyped
<1> QED
  BY <1>1 DEF CollectionTyped

LEMMA SelectedRows ==
    LET rows == FirstOfEach(Kept(Advisories, {i \in 1..Len(Advisories) : Selected(Advisories[i])})) IN
    /\ rows \in Seq(Row) /\ Unique(rows)
    /\ CvesOf(rows) = {Advisories[i].cve : i \in {j \in 1..Len(Advisories) : Selected(Advisories[j])}}
    /\ \A i \in 1..Len(rows) : rows[i].patch = NoCommit /\ ~rows[i].diff /\ rows[i].reason = "none"
<1> DEFINE is == {i \in 1..Len(Advisories) : Selected(Advisories[i])}
<1>1. Advisories \in Seq(Advisory) /\ is \in SUBSET (1..Len(Advisories))
  BY CollectionAssumption
<1> HIDE DEF is
<1> PICK wanted : wanted = Kept(Advisories, is)
  OBVIOUS
<1>2. /\ wanted \in Seq(Advisory)
      /\ \A i \in 1..Len(wanted) : \E n \in is : wanted[i] = Advisories[n]
      /\ \A n \in is : \E i \in 1..Len(wanted) : wanted[i] = Advisories[n]
  BY <1>1, KeptSources
<1>3. {wanted[i].cve : i \in 1..Len(wanted)} = {Advisories[n].cve : n \in is}
  <2>1. ASSUME NEW i \in 1..Len(wanted) PROVE wanted[i].cve \in {Advisories[n].cve : n \in is}
    BY <1>2
  <2>2. ASSUME NEW n \in is PROVE Advisories[n].cve \in {wanted[i].cve : i \in 1..Len(wanted)}
    <3>1. PICK i \in 1..Len(wanted) : wanted[i] = Advisories[n]
      BY <1>2
    <3> QED
      BY <3>1
  <2> QED
    BY <2>1, <2>2
<1> PICK rows : rows = FirstOfEach(wanted)
  OBVIOUS
<1>4. /\ rows \in Seq(Row) /\ Unique(rows) /\ CvesOf(rows) = {wanted[i].cve : i \in 1..Len(wanted)}
      /\ \A i \in 1..Len(rows) : rows[i].patch = NoCommit /\ ~rows[i].diff /\ rows[i].reason = "none"
  BY <1>2, FirstOfEachRows
<1> QED
  BY <1>3, <1>4 DEF is

LEMMA CollectGhsaTyped == ASSUME CollectionTyped, CollectGhsa PROVE CollectionTyped'
<1>1. pc # "supplement" /\ UNCHANGED <<disk, pc, diffs, at, kept, dropped>> /\ saving' = TRUE
  BY DEF CollectGhsa, Working, Save
<1>2. records' \in Seq(Row)
  BY SelectedRows DEF CollectGhsa
<1> QED
  BY <1>1, <1>2, WorkTyped DEF CollectionTyped

LEMMA ResumeTyped == ASSUME CollectionTyped, Resume PROVE CollectionTyped'
<1>1. disk' \in [File -> DiskFile] /\ diffs' \in [Cve -> Commit \cup {NoCommit}]
  BY DEF CollectionTyped, Resume
<1>2. CASE Exit
  BY <1>1, <1>2, ExitTyped
<1>3. CASE Begin(CASE pc = "ghsa" -> "nvd" [] pc = "nvd" -> "commits" [] pc = "commits" -> "sinks", Rows(pc))
  <2>1. pc \in {"ghsa", "nvd", "commits"}
    BY DEF Resume
  <2>2. PICK next \in {"nvd", "commits", "sinks"} : Begin(next, Rows(pc))
    BY <1>3, <2>1
  <2>3. next \in File /\ next # "supplement" /\ pc \in File
    BY <2>1 DEF File
  <2>4. Rows(pc) \in Seq(Row)
    BY <2>3, RowsType
  <2> QED
    BY <1>1, <2>2, <2>3, <2>4, BeginTyped
<1> QED
  BY <1>2, <1>3 DEF Resume

Raw(r) == r.patch = NoCommit /\ ~r.diff /\ r.reason = "none"

\* What phase 3 makes of a raw record.
Resolved(r) ==
    /\ ~r.diff
    /\ \/ r.patch # NoCommit /\ r.repo # NoRepo /\ r.reason = "none"
       \/ r.patch = NoCommit /\ r.repo = NoRepo /\ r.reason = "no_repo_url"
       \/ r.patch = NoCommit /\ r.reason = "no_commit_resolved"

LEMMA AtRow ==
    ASSUME CollectionTyped, at <= Len(records)
    PROVE  at \in 1..Len(records) /\ records[at] \in Row
BY DEF CollectionTyped

LEMMA UnchangedRow ==
    ASSUME CollectionTyped, at <= Len(records)
    PROVE  records = [records EXCEPT ![at] = records[at]]
BY DEF CollectionTyped

LEMMA ScoredRows ==
    ASSUME CollectionTyped, EnrichNvd
    PROVE  /\ records' \in Seq(Row) /\ SameCves(records', records)
           /\ \A i \in 1..Len(records) : Raw(records[i]) => Raw(records'[i])
<1>1. PICK lost : records' = [i \in 1..Len(records) |-> IF i \in lost THEN records[i] ELSE Scored(records[i])]
  BY DEF EnrichNvd
<1> PICK l : l = Len(records)
  OBVIOUS
<1>2. l \in Nat /\ \A i \in 1..l : records[i] \in Row
  BY DEF CollectionTyped
<1>3. \A i \in 1..l : records'[i] = records[i] \/ records'[i] = Scored(records[i])
  BY <1>1
<1>4. \A i \in 1..l : /\ records'[i] \in Row /\ records'[i].cve = records[i].cve
                      /\ Raw(records[i]) => Raw(records'[i])
  BY <1>2, <1>3, ScoredRow DEF Raw
<1>5. records' \in Seq(Row) /\ Len(records') = l
  <2>1. records' = [i \in 1..l |-> records'[i]]
    BY <1>1
  <2>2. \A f \in [1..l -> Row] : f \in Seq(Row) /\ Len(f) = l
    BY <1>2
  <2>3. records' \in [1..l -> Row]
    BY <1>4, <2>1
  <2> QED
    BY <2>2, <2>3
<1> QED
  BY <1>4, <1>5 DEF SameCves

LEMMA EnrichNvdTyped == ASSUME CollectionTyped, EnrichNvd PROVE CollectionTyped'
<1>1. pc # "supplement" /\ UNCHANGED <<disk, pc, diffs, at, kept, dropped>> /\ saving' = TRUE
  BY DEF EnrichNvd, Working, Save
<1> QED
  BY <1>1, ScoredRows, WorkTyped DEF CollectionTyped

LEMMA ResolutionType ==
    ASSUME NEW r \in Row, NEW res \in Resolutions(r)
    PROVE  res.commit \in Commit \cup {NoCommit}
<1> PICK links : links = Links[r.refs]
  OBVIOUS
<1>1. Len(links) \in Nat
  <2>1. r.refs \in Refs
    BY DEF Row, Record
  <2> QED
    BY <2>1, CollectionAssumption
<1> DEFINE possible == {a \in [1..Len(links) -> Commit \cup {NoCommit}] :
                           \A i \in 1..Len(links) : a[i] \in Answers(links[i])}
           lost(a) == Cardinality({i \in 1..Len(links) : a[i] # links[i].commit})
<1>7. res \in {[commit |-> FirstFound(a), lost |-> lost(a)] : a \in possible}
  BY DEF Resolutions
<1>8. \A a \in possible : a \in [1..Len(links) -> Commit \cup {NoCommit}]
  OBVIOUS
<1> HIDE DEF possible, lost
<1>9. PICK a \in possible : res = [commit |-> FirstFound(a), lost |-> lost(a)]
  BY <1>7
<1>2. res.commit = FirstFound(a) /\ a \in [1..Len(links) -> Commit \cup {NoCommit}]
  BY <1>8, <1>9
<1>3. Len(a) = Len(links)
  BY <1>1, <1>2
<1> DEFINE found == {i \in 1..Len(a) : a[i] # NoCommit}
<1>4. FirstFound(a) = IF found = {} THEN NoCommit ELSE a[CHOOSE i \in found : \A j \in found : i <= j]
  BY DEF FirstFound
<1>5. found \in SUBSET Nat /\ \A i \in found : a[i] \in Commit \cup {NoCommit}
  BY <1>1, <1>2, <1>3
<1> HIDE DEF found
<1>6. CASE found # {}
  <2>1. \E i \in found : \A j \in found : i <= j
    BY <1>5, <1>6, LeastElement
  <2> QED
    BY <1>2, <1>4, <1>5, <1>6, <2>1
<1> QED
  BY <1>2, <1>4, <1>6

\* The record in hand after phase 3.
LEMMA ResolvedRow ==
    ASSUME CollectionTyped, ResolveCommit
    PROVE  \E r \in Row : /\ records' = [records EXCEPT ![at] = r]
                          /\ r.cve = records[at].cve
                          /\ Raw(records[at]) => Resolved(r)
<1> PICK q : q = records[at]
  OBVIOUS
<1>1. at \in 1..Len(records) /\ q \in Row
  BY AtRow DEF ResolveCommit
<1>2. CASE q.patch # NoCommit /\ UNCHANGED records
  BY <1>1, <1>2, UnchangedRow DEF Raw
<1>3. CASE q.patch = NoCommit /\ q.repo = NoRepo /\ records' = [records EXCEPT ![at].reason = "no_repo_url"]
  <2> PICK r : r = [q EXCEPT !.reason = "no_repo_url"]
    OBVIOUS
  <2>1. r \in Row /\ r.cve = q.cve /\ r.repo = q.repo /\ r.patch = q.patch /\ r.diff = q.diff
        /\ r.reason = "no_repo_url"
    BY <1>1, WithReasonRow
  <2>2. records' = [records EXCEPT ![at] = r]
    BY <1>3
  <2>3. Raw(q) => Resolved(r)
    BY <1>3, <2>1 DEF Raw, Resolved
  <2> QED
    BY <2>1, <2>2, <2>3
<1>4. ASSUME q.patch = NoCommit, q.repo # NoRepo, NEW res \in Resolutions(q), NEW parent \in BOOLEAN,
             records' = [records EXCEPT ![at] =
                            IF res.commit # NoCommit THEN WithCommit(q, res.commit, parent)
                            ELSE [q EXCEPT !.reason = "no_commit_resolved"]]
      PROVE  \E r \in Row : /\ records' = [records EXCEPT ![at] = r]
                            /\ r.cve = q.cve /\ (Raw(q) => Resolved(r))
  <2>1. res.commit \in Commit \cup {NoCommit}
    BY <1>1, ResolutionType
  <2>2. CASE res.commit # NoCommit
    <3>0. res.commit \in Commit /\ q.patch = NoCommit
      BY <1>4, <2>1, <2>2
    <3> PICK commit : commit = res.commit
      OBVIOUS
    <3>3. WithCommit(q, commit, parent) = WithCommit(q, commit, q)
      BY DEF WithCommit
    <3> PICK r : r = WithCommit(q, commit, q)
      OBVIOUS
    <3>1. r \in Row /\ r.cve = q.cve /\ r.repo = q.repo /\ r.patch = commit /\ ~r.diff
          /\ r.reason = q.reason
      <4>1. Committed(r, q, commit)
        BY <1>1, <3>0, WithCommitRow
      <4> QED
        BY <4>1 DEF Committed
    <3>2. Raw(q) => Resolved(r)
      BY <1>4, <2>2, <3>1 DEF Raw, Resolved
    <3> QED
      BY <1>4, <2>2, <3>1, <3>2, <3>3
  <2>3. CASE res.commit = NoCommit
    <3> PICK r : r = [q EXCEPT !.reason = "no_commit_resolved"]
      OBVIOUS
    <3>1. r \in Row /\ r.cve = q.cve /\ r.repo = q.repo /\ r.patch = q.patch /\ r.diff = q.diff
          /\ r.reason = "no_commit_resolved"
      BY <1>1, <1>4, WithoutCommitRow
    <3>2. Raw(q) => Resolved(r)
      BY <1>4, <3>1 DEF Raw, Resolved
    <3> QED
      BY <1>4, <2>3, <3>1, <3>2
  <2> QED
    BY <2>2, <2>3
<1>5. ResolveRecord(q)
  BY DEF ResolveCommit
<1> QED
  BY <1>2, <1>3, <1>4, <1>5 DEF ResolveRecord

LEMMA ResolveCommitTyped == ASSUME CollectionTyped, ResolveCommit PROVE CollectionTyped'
<1>1. pc # "supplement" /\ UNCHANGED <<disk, pc, diffs, saving, kept, dropped>> /\ at' = at + 1
  BY DEF ResolveCommit, Working
<1>2. records' \in Seq(Row)
  <2>1. at \in 1..Len(records) /\ records \in Seq(Row)
    BY AtRow DEF ResolveCommit, CollectionTyped
  <2> QED
    BY <2>1, ResolvedRow, ReplacedAt
<1> QED
  BY <1>1, <1>2, WorkTyped DEF CollectionTyped

\* What phase 4 makes of a resolved one, with the diffs d.
ExtractedWith(d, r) ==
    \/ r.reason = "none" /\ r.patch # NoCommit /\ r.diff /\ d[r.cve] = r.patch
    \/ r.reason = "no_repo_url" /\ r.repo = NoRepo /\ r.patch = NoCommit
    \/ r.reason = "no_commit_resolved" /\ r.patch = NoCommit
    \/ r.reason = "diff_fetch_failed" /\ r.patch # NoCommit /\ ~r.diff

\* The record in hand becomes r, and only its diff is written.
ExtractStep(r) ==
    /\ r \in Row /\ records' = [records EXCEPT ![at] = r] /\ r.cve = records[at].cve
    /\ diffs' \in [Cve -> Commit \cup {NoCommit}]
    /\ \A c \in Cve : c # r.cve => diffs'[c] = diffs[c]
    /\ Resolved(records[at]) => ExtractedWith(diffs', r)

LEMMA ExtractedRow == ASSUME CollectionTyped, ExtractSink PROVE \E r : ExtractStep(r)
<1> PICK q : q = records[at]
  OBVIOUS
<1>1. at \in 1..Len(records) /\ q \in Row /\ q.cve \in Cve /\ q.patch \in Commit \cup {NoCommit}
  <2>1. at \in 1..Len(records) /\ q \in Row
    BY AtRow DEF ExtractSink
  <2> QED
    BY <2>1 DEF Row, Record
<1>2. diffs \in [Cve -> Commit \cup {NoCommit}]
  BY DEF CollectionTyped
<1>3. CASE (q.patch = NoCommit \/ q.reason # "none" \/ q.repo = NoRepo) /\ UNCHANGED <<records, diffs>>
  <2>1. records' = [records EXCEPT ![at] = q]
    BY <1>3, UnchangedRow DEF ExtractSink
  <2>2. Resolved(q) => ExtractedWith(diffs', q)
    BY <1>3 DEF Resolved, ExtractedWith
  <2>3. ExtractStep(q)
    BY <1>1, <1>2, <1>3, <2>1, <2>2 DEF ExtractStep
  <2> QED
    BY <2>3
<1>4. CASE /\ q.patch # NoCommit /\ records' = [records EXCEPT ![at] = WithoutDiff(q)]
           /\ UNCHANGED diffs
  <2> PICK r : r = [q EXCEPT !.reason = "diff_fetch_failed"]
    OBVIOUS
  <2>1. r \in Row /\ r.cve = q.cve /\ r.patch = q.patch /\ r.diff = q.diff /\ r.reason = "diff_fetch_failed"
    BY <1>1, WithReasonRow
  <2>2. records' = [records EXCEPT ![at] = r]
    BY <1>4 DEF WithoutDiff
  <2>3. Resolved(q) => ExtractedWith(diffs', r)
    BY <1>4, <2>1 DEF Resolved, ExtractedWith
  <2>4. ExtractStep(r)
    BY <1>1, <1>2, <1>4, <2>1, <2>2, <2>3 DEF ExtractStep
  <2> QED
    BY <2>4
<1>5. CASE /\ q.patch # NoCommit /\ q.reason = "none"
           /\ records' = [records EXCEPT ![at] = WithDiff(q)] /\ diffs' = [diffs EXCEPT ![q.cve] = q.patch]
  <2> PICK r : r = WithDiff(q)
    OBVIOUS
  <2>0. q.patch \in Commit
    BY <1>1, <1>5
  <2>1. r \in Row /\ r.cve = q.cve /\ r.patch = q.patch /\ r.diff = TRUE /\ r.reason = q.reason
    BY <1>1, <1>5, <2>0, WithDiffRow
  <2>2. diffs' \in [Cve -> Commit \cup {NoCommit}] /\ diffs'[q.cve] = q.patch
        /\ \A c \in Cve : c # q.cve => diffs'[c] = diffs[c]
    BY <1>1, <1>2, <1>5
  <2>3. ExtractedWith(diffs', r)
    BY <1>5, <2>1, <2>2 DEF ExtractedWith
  <2>4. ExtractStep(r)
    BY <1>5, <2>1, <2>2, <2>3 DEF ExtractStep
  <2> QED
    BY <2>4
<1> QED
  BY <1>3, <1>4, <1>5 DEF ExtractSink

LEMMA ExtractSinkTyped == ASSUME CollectionTyped, ExtractSink PROVE CollectionTyped'
<1>1. pc # "supplement" /\ UNCHANGED <<disk, pc, saving, kept, dropped>> /\ at' = at + 1
  BY DEF ExtractSink, Working
<1>2. records' \in Seq(Row) /\ diffs' \in [Cve -> Commit \cup {NoCommit}]
  <2>1. at \in 1..Len(records) /\ records \in Seq(Row)
    BY AtRow DEF ExtractSink, CollectionTyped
  <2>2. PICK r : ExtractStep(r)
    BY ExtractedRow
  <2> QED
    BY <2>1, <2>2, ReplacedAt DEF ExtractStep
<1> QED
  BY <1>1, <1>2, WorkTyped DEF CollectionTyped

LEMMA LoopDoneTyped == ASSUME CollectionTyped, LoopDone PROVE CollectionTyped'
<1>1. pc # "supplement" /\ UNCHANGED <<disk, diffs, pc, records, at, kept, dropped>> /\ saving' = TRUE
  BY DEF LoopDone, Save
<1> QED
  BY <1>1, WorkTyped DEF CollectionTyped

\* q is r with another reason.
Reasoned(q, r, reason) ==
    /\ q \in Row /\ q.cve = r.cve /\ q.repo = r.repo /\ q.patch = r.patch /\ q.diff = r.diff
    /\ q.where = r.where /\ q.reason = reason

\* A record of phase 5 is accepted as it is, or rejected for what Reason says.
LEMMA ReasonType ==
    ASSUME NEW r \in Row
    PROVE  /\ Reason(r) = "none" => r.reason = "none" /\ r.patch # NoCommit /\ r.cve \notin CvesOf(kept)
           /\ Reasoned([r EXCEPT !.reason = Reason(r)], r, Reason(r))
<1>1. Reason(r) = "none" => r.reason = "none" /\ r.patch # NoCommit /\ r.cve \notin CvesOf(kept)
  BY DEF Reason
<1>2. \/ Reason(r) = r.reason
      \/ Reason(r) \in {"duplicate_cve_id", "no_vulnerable_commit", "duplicate_location"}
      \/ Reason(r) = "no_patch_commit" /\ r.patch = NoCommit
  BY DEF Reason
<1> PICK reason : reason = Reason(r)
  OBVIOUS
<1> PICK q : q = [r EXCEPT !.reason = reason]
  OBVIOUS
<1>3. reason = r.reason => Reasoned(q, r, reason)
  BY DEF Row, Record, Reasoned
<1>4. reason \in {"duplicate_cve_id", "no_vulnerable_commit", "duplicate_location"} => Reasoned(q, r, reason)
  BY DEF Row, Record, Honest, Reasoned
<1>5. reason = "no_patch_commit" /\ r.patch = NoCommit => Reasoned(q, r, reason)
  BY WithoutCommitRow DEF Reasoned
<1> QED
  BY <1>1, <1>2, <1>3, <1>4, <1>5

LEMMA FilterRecordTyped == ASSUME CollectionTyped, FilterRecord PROVE CollectionTyped'
<1>1. pc # "supplement" /\ UNCHANGED <<disk, diffs, pc, saving, records>> /\ at' = at + 1
  BY DEF FilterRecord, Working
<1> PICK r : r = records[at]
  OBVIOUS
<1>2. r \in Row
  BY AtRow DEF FilterRecord
<1>3. kept \in Seq(Row) /\ dropped \in Seq(Row)
  BY DEF CollectionTyped
<1>4. kept' \in Seq(Row) /\ dropped' \in Seq(Row)
  <2>1. \/ kept' = Append(kept, r) /\ UNCHANGED dropped
        \/ dropped' = Append(dropped, [r EXCEPT !.reason = Reason(r)]) /\ UNCHANGED kept
    BY DEF FilterRecord
  <2> PICK q : q = [r EXCEPT !.reason = Reason(r)]
    OBVIOUS
  <2>2. q \in Row
    BY <1>2, ReasonType DEF Reasoned
  <2>3. \A rows \in Seq(Row), x \in Row : Append(rows, x) \in Seq(Row)
    OBVIOUS
  <2> QED
    BY <1>2, <1>3, <2>1, <2>2, <2>3
<1> QED
  BY <1>1, <1>4, WorkTyped DEF CollectionTyped

\* What phase 6 leaves of the candidates.
SampledFrom(sample, pool) ==
    sample \in Seq(Row) /\ Stratified(sample, pool) /\ (Unique(pool) => Unique(sample))

LEMMA SampleShape == ASSUME CollectionTyped, Sample PROVE SampledFrom(records', records)
<1>0. records \in Seq(Row) /\ Len(records) \in Nat /\ TargetN \in Nat
  BY CollectionAssumption DEF CollectionTyped
<1>1. CASE Len(records) <= TargetN /\ UNCHANGED records
  BY <1>0, <1>1, AllStratified DEF SampledFrom
<1>2. ASSUME Len(records) > TargetN, NEW picked \in SUBSET (1..Len(records)), Shares(picked, records),
             NEW order \in Orders((1..Len(records)) \ picked),
             records' = Sampled(Filled(WithNeeded(picked, order), order))
      PROVE  SampledFrom(records', records)
  <2> PICK pool : pool = records
    OBVIOUS
  <2> PICK F : F = Filled(WithNeeded(picked, order), order)
    OBVIOUS
  <2>1. F \in SUBSET (1..Len(pool)) /\ Stratified(Kept(pool, F), pool)
    BY <1>0, <1>2, SampleStratified
  <2>2. Kept(pool, F) \in Seq(Row)
    BY <1>0, <2>1, KeptSources
  <2>3. records' = Kept(pool, F)
    BY <1>2 DEF Sampled
  <2>4. ASSUME Unique(pool) PROVE Unique(Kept(pool, F))
    <3>1. \A m, n \in F : pool[m].cve = pool[n].cve => m = n
      BY <2>1, <2>4 DEF Unique
    <3> QED
      BY <1>0, <2>1, <3>1, KeptUnique
  <2> QED
    BY <2>1, <2>2, <2>3, <2>4 DEF SampledFrom
<1> QED
  BY <1>1, <1>2 DEF Sample, Shares

LEMMA SampleTyped == ASSUME CollectionTyped, Sample PROVE CollectionTyped'
<1>1. pc # "supplement" /\ UNCHANGED <<disk, diffs, pc, at, kept, dropped>> /\ saving' = TRUE
  BY DEF Sample, Working, Save
<1> QED
  BY <1>1, SampleShape, WorkTyped DEF CollectionTyped, SampledFrom

LEMMA ContentType == ASSUME CollectionTyped PROVE Content \in Seq(Row)
BY DEF CollectionTyped, Content

LEMMA SavingFile == ASSUME Saving PROVE pc \in File /\ pc # "supplement"
BY DEF Saving, File

LEMMA SaveRowsTyped == ASSUME CollectionTyped, SaveRows PROVE CollectionTyped'
<1>1. disk' \in [File -> DiskFile] /\ diffs' \in [Cve -> Commit \cup {NoCommit}]
  <2>1. [disk EXCEPT ![pc] = Written(Content)] \in [File -> DiskFile]
    BY ContentType, SavingFile, WrittenType DEF SaveRows
  <2> QED
    BY <2>1 DEF SaveRows, CollectionTyped
<1>2. CASE Exit
  BY <1>1, <1>2, ExitTyped
<1>3. CASE pc' = "accepted" /\ UNCHANGED <<saving, memory>>
  BY <1>1, <1>3 DEF CollectionTyped, File, memory
<1>4. ASSUME NEW file \in {"nvd", "commits", "sinks", "rejected", "metadata"}, NEW rows \in {records, kept},
             Begin(file, rows)
      PROVE  CollectionTyped'
  <2>1. file \in File /\ file # "supplement"
    BY DEF File
  <2>2. rows \in Seq(Row)
    BY DEF CollectionTyped
  <2> QED
    BY <1>1, <1>4, <2>1, <2>2, BeginTyped
<1> QED
  BY <1>2, <1>3, <1>4 DEF SaveRows, GoOn

LEMMA KilledSavingTyped == ASSUME CollectionTyped, KilledSaving PROVE CollectionTyped'
<1>1. Exit /\ diffs' \in [Cve -> Commit \cup {NoCommit}]
  BY DEF KilledSaving, CollectionTyped
<1>2. pc \in File
  BY SavingFile DEF KilledSaving
<1>0. CASE UNCHANGED disk
  BY <1>0, <1>1, ExitTyped DEF CollectionTyped
<1>3. CASE disk' = [disk EXCEPT ![pc] = Torn]
  BY <1>1, <1>2, <1>3, TornType, ExitTyped
<1>4. ASSUME NEW n \in 0..Len(Content), disk' = [disk EXCEPT ![pc] = Written(SubSeq(Content, 1, n))]
      PROVE  CollectionTyped'
  <2> PICK rows : rows = Content
    OBVIOUS
  <2>1. rows \in Seq(Row)
    BY ContentType
  <2>2. SubSeq(rows, 1, n) \in Seq(Row)
    BY <2>1
  <2> QED
    BY <1>1, <1>2, <1>4, <2>2, WrittenType, ExitTyped
<1> QED
  BY <1>0, <1>3, <1>4 DEF KilledSaving

\* The records of a source are new, and none of the kept was dropped.
LEMMA FreshRows ==
    ASSUME NEW rows \in Seq(Row),
           \A i \in 1..Len(rows) : rows[i].patch = NoCommit /\ rows[i].reason = "none"
    PROVE  rows \in Seq(FreshRow)
<1>1. \A i \in 1..Len(rows) : rows[i] \in FreshRow
  BY DEF FreshRow
<1> QED
  BY <1>1

LEMMA FreshAreRows == ASSUME NEW rows \in Seq(FreshRow) PROVE rows \in Seq(Row)
<1>1. \A i \in 1..Len(rows) : rows[i] \in FreshRow
  OBVIOUS
<1>2. FreshRow \subseteq Row
  BY DEF FreshRow
<1>3. \A i \in 1..Len(rows) : rows[i] \in Row
  BY <1>1, <1>2
<1> QED
  BY <1>3

LEMMA FromOsvRows == ASSUME NEW answers \in Seq(Advisory) PROVE FromOsv(answers) \in Seq(FreshRow)
<1> DEFINE New(a) == (a.cwe78 \/ a.signal) /\ a.cve \notin ExistingCves
           is == {i \in 1..Len(answers) : New(answers[i])}
<1>1. is \in SUBSET (1..Len(answers)) /\ FromOsv(answers) = FirstOfEach(Kept(answers, is))
  BY DEF FromOsv
<1> HIDE DEF is
<1> PICK wanted : wanted = Kept(answers, is)
  OBVIOUS
<1>2. wanted \in Seq(Advisory)
  BY <1>1, KeptSources
<1> PICK rows : rows = FirstOfEach(wanted)
  OBVIOUS
<1>3. rows \in Seq(Row) /\ \A i \in 1..Len(rows) : rows[i].patch = NoCommit /\ rows[i].reason = "none"
  BY <1>2, FirstOfEachRows
<1> QED
  BY <1>1, <1>3, FreshRows

LEMMA FromNvdRows == FromNvd \in Seq(FreshRow)
<1> DEFINE New(a) == a.signal /\ a.cve \notin ExistingCves
           is == {i \in 1..Len(NvdCandidates) : New(NvdCandidates[i])}
<1> PICK taken : taken = Kept(NvdCandidates, is)
  OBVIOUS
<1>1. /\ is \in SUBSET (1..Len(NvdCandidates)) /\ NvdCandidates \in Seq(Advisory)
      /\ FromNvd = [n \in 1..Len(taken) |-> [NewRecord(taken[n]) EXCEPT !.severity = NoSeverity]]
  BY SupplementAssumption DEF FromNvd
<1> HIDE DEF is
<1>2. taken \in Seq(Advisory)
  BY <1>1, KeptSources
<1>3. ASSUME NEW n \in 1..Len(taken) PROVE [NewRecord(taken[n]) EXCEPT !.severity = NoSeverity] \in FreshRow
  <2>1. taken[n] \in Advisory
    BY <1>2
  <2> PICK r : r = NewRecord(taken[n])
    OBVIOUS
  <2>2. r \in Row /\ r.patch = NoCommit /\ ~r.diff /\ r.reason = "none"
    BY <2>1, NewRecordRow
  <2>3. [r EXCEPT !.severity = NoSeverity] \in Row
    BY <2>2 DEF Row, Record, Honest
  <2>4. [r EXCEPT !.severity = NoSeverity].patch = NoCommit /\ [r EXCEPT !.severity = NoSeverity].reason = "none"
    BY <2>2 DEF Row, Record
  <2>5. [r EXCEPT !.severity = NoSeverity] \in FreshRow
    BY <2>3, <2>4 DEF FreshRow
  <2> QED
    BY <2>5
<1> QED
  BY <1>1, <1>2, <1>3

LEMMA SalvagedRows == ASSUME CollectionTyped PROVE Salvaged \in Seq(FreshRow)
<1> PICK rows : rows = Rows("rejected")
  OBVIOUS
<1> DEFINE Salvageable(r) == /\ r.cve \notin ExistingCves /\ r.repo # NoRepo
                             /\ r.reason \in {"no_commit_resolved", "no_patch_commit"}
           is == {i \in 1..Len(rows) : Salvageable(rows[i])}
<1> PICK again : again = Kept(rows, is)
  OBVIOUS
<1>1. Salvaged = [n \in 1..Len(again) |-> [again[n] EXCEPT !.reason = "none", !.patch = NoCommit]]
  BY DEF Salvaged
<1>2. rows \in Seq(Row) /\ is \in SUBSET (1..Len(rows))
  <2>1. "rejected" \in File
    BY DEF File
  <2> QED
    BY <2>1, RowsType
<1>3. \A n \in is : rows[n].reason \in {"no_commit_resolved", "no_patch_commit"}
  OBVIOUS
<1> HIDE DEF is
<1>4. again \in Seq(Row) /\ \A i \in 1..Len(again) : \E n \in is : again[i] = rows[n]
  BY <1>2, KeptSources
<1>5. ASSUME NEW n \in 1..Len(again) PROVE [again[n] EXCEPT !.reason = "none", !.patch = NoCommit] \in FreshRow
  <2> PICK r : r = again[n]
    OBVIOUS
  <2>1. r \in Row /\ r.reason \in {"no_commit_resolved", "no_patch_commit"}
    BY <1>3, <1>4
  <2>2. r \in Record /\ ~r.diff
    BY <2>1 DEF Row, Honest
  <2>3. [r EXCEPT !.reason = "none", !.patch = NoCommit] \in Record
    BY <2>2 DEF Record
  <2> PICK q : q = [r EXCEPT !.reason = "none", !.patch = NoCommit]
    OBVIOUS
  <2>4. q.patch = NoCommit /\ ~q.diff /\ q.reason = "none"
    BY <2>2 DEF Record
  <2> QED
    BY <2>3, <2>4 DEF FreshRow, Row, Honest
<1> DEFINE fresh(n) == [again[n] EXCEPT !.reason = "none", !.patch = NoCommit]
<1>6. Salvaged = [n \in 1..Len(again) |-> fresh(n)] /\ \A n \in 1..Len(again) : fresh(n) \in FreshRow
  BY <1>1, <1>5
<1> HIDE DEF fresh
<1> QED
  BY <1>4, <1>6

LEMMA StartSupplementTyped == ASSUME CollectionTyped, StartSupplement PROVE CollectionTyped'
<1>1. disk' \in [File -> DiskFile] /\ diffs' \in [Cve -> Commit \cup {NoCommit}]
  BY DEF CollectionTyped, StartSupplement
<1>2. PICK lost \in SUBSET (1..Len(Osv)) :
        Begin("supplement", FromOsv(Kept(Osv, (1..Len(Osv)) \ lost)) \o FromNvd \o Salvaged)
  BY DEF StartSupplement
<1>3. Kept(Osv, (1..Len(Osv)) \ lost) \in Seq(Advisory)
  BY SupplementAssumption, KeptSources
<1> PICK rows : rows = FromOsv(Kept(Osv, (1..Len(Osv)) \ lost)) \o FromNvd \o Salvaged
  OBVIOUS
<1>4. rows \in Seq(FreshRow)
  <2>1. FromOsv(Kept(Osv, (1..Len(Osv)) \ lost)) \in Seq(FreshRow)
    BY <1>3, FromOsvRows
  <2> QED
    BY <2>1, FromNvdRows, SalvagedRows
<1>5. rows \in Seq(Row) /\ "supplement" \in File
  <2>1. rows \in Seq(Row)
    BY <1>4, FreshAreRows
  <2> QED
    BY <2>1 DEF File
<1> QED
  BY <1>1, <1>2, <1>4, <1>5, BeginTyped

\* What is in hand of the supplement: a record gets its commit and its diff, or is passed over.
LEMMA EnrichRecordTyped == ASSUME CollectionTyped, EnrichRecord PROVE CollectionTyped'
<1>1. /\ pc = "supplement" /\ saving = FALSE /\ UNCHANGED <<disk, pc, saving, records, dropped>>
      /\ at' = at + 1 /\ at \in 1..Len(records) /\ records \in Seq(FreshRow)
  BY AtRow DEF EnrichRecord, Working, CollectionTyped
<1> PICK q : q = records[at]
  OBVIOUS
<1>2. q \in FreshRow /\ q \in Row /\ q.patch = NoCommit /\ q.reason = "none"
  BY <1>1 DEF FreshRow
<1>3. kept \in Seq(Row) /\ diffs \in [Cve -> Commit \cup {NoCommit}]
  BY DEF CollectionTyped
<1>4. ASSUME NEW res \in Resolutions(q), res.commit # NoCommit, NEW parent \in BOOLEAN, NEW r,
             r = WithCommit(q, res.commit, parent), NEW new \in {WithDiff(r), ScoredLate(WithDiff(r))},
             kept' = Append(kept, new), diffs' = [diffs EXCEPT ![r.cve] = r.patch]
      PROVE  kept' \in Seq(Row) /\ diffs' \in [Cve -> Commit \cup {NoCommit}]
  <2>1. res.commit \in Commit
    BY <1>2, <1>4, ResolutionType
  <2>2. Committed(r, q, res.commit)
    <3>1. r = WithCommit(q, res.commit, q)
      BY <1>4 DEF WithCommit
    <3> QED
      BY <1>2, <2>1, <3>1, WithCommitRow
  <2>3. r \in Row /\ r.patch \in Commit /\ r.reason = "none" /\ r.cve \in Cve
    BY <1>2, <2>1, <2>2 DEF Committed, Row, Record
  <2>4. WithDiff(r) \in Row
    BY <2>3, WithDiffRow
  <2>5. ScoredLate(WithDiff(r)) \in Row
    BY <2>4, ScoredRow
  <2>6. new \in Row
    BY <1>4, <2>4, <2>5
  <2>7. Append(kept, new) \in Seq(Row)
    BY <1>3, <2>6
  <2> QED
    BY <1>3, <1>4, <2>3, <2>7
<1>5. kept' \in Seq(Row) /\ diffs' \in [Cve -> Commit \cup {NoCommit}]
  <2>1. PICK res \in Resolutions(q) : \E parent \in BOOLEAN, lost \in 0..1 :
          LET r == WithCommit(q, res.commit, parent)
              diff == IF res.commit = NoCommit \/ r.repo = NoRepo THEN <<>> ELSE Diff[res.commit]
          IN  \/ UNCHANGED <<kept, diffs>>
              \/ /\ diff # <<>>
                 /\ kept' = Append(kept, IF lost = 1 THEN WithDiff(r) ELSE ScoredLate(WithDiff(r)))
                 /\ diffs' = [diffs EXCEPT ![r.cve] = r.patch]
    BY DEF EnrichRecord
  <2>2. PICK parent \in BOOLEAN : \E lost \in 0..1 :
          LET r == WithCommit(q, res.commit, parent)
              diff == IF res.commit = NoCommit \/ r.repo = NoRepo THEN <<>> ELSE Diff[res.commit]
          IN  \/ UNCHANGED <<kept, diffs>>
              \/ /\ diff # <<>>
                 /\ kept' = Append(kept, IF lost = 1 THEN WithDiff(r) ELSE ScoredLate(WithDiff(r)))
                 /\ diffs' = [diffs EXCEPT ![r.cve] = r.patch]
    BY <2>1
  <2> PICK r : r = WithCommit(q, res.commit, parent)
    OBVIOUS
  <2>3. \/ UNCHANGED <<kept, diffs>>
        \/ /\ res.commit # NoCommit
           /\ \E new \in {WithDiff(r), ScoredLate(WithDiff(r))} : kept' = Append(kept, new)
           /\ diffs' = [diffs EXCEPT ![r.cve] = r.patch]
    BY <2>2
  <2> QED
    BY <1>3, <1>4, <2>3
<1> QED
  <2>1. at + 1 \in Nat \ {0}
    BY DEF CollectionTyped
  <2> QED
    BY <1>1, <1>5, <2>1 DEF CollectionTyped

LEMMA NewToDatasetRows ==
    ASSUME NEW rows \in Seq(Row)
    PROVE  LET p == NewToDataset(rows) IN
           /\ p \in Seq(Row) /\ Unique(p)
           /\ \A i \in 1..Len(p) : p[i].cve \notin ExistingCves
<1> DEFINE Passes(r) == r.cve \notin ExistingCves /\ r.patch # NoCommit /\ r.vulnerable
           First(i) == \A j \in 1..(i - 1) : Passes(rows[j]) => rows[j].cve # rows[i].cve
           is == {i \in 1..Len(rows) : Passes(rows[i]) /\ First(i)}
<1> PICK p : p = NewToDataset(rows)
  OBVIOUS
<1>1. p = Kept(rows, is) /\ is \in SUBSET (1..Len(rows)) /\ Len(rows) \in Nat
  BY DEF NewToDataset
<1>2. \A m, n \in is : rows[m].cve = rows[n].cve => m = n
  <2> SUFFICES ASSUME NEW m \in is, NEW n \in is, m < n PROVE rows[m].cve # rows[n].cve
    <3>1. \A m, n \in is : m \in Nat /\ n \in Nat /\ (m < n \/ n < m \/ m = n)
      BY <1>1
    <3> QED
      BY <3>1
  <2>1. m \in 1..(n - 1)
    BY <1>1
  <2> QED
    BY <2>1
<1>3. \A n \in is : rows[n].cve \notin ExistingCves
  OBVIOUS
<1> HIDE DEF is
<1>4. p \in Seq(Row) /\ \A i \in 1..Len(p) : \E n \in is : p[i] = rows[n]
  <2>0. is \in SUBSET (1..Len(rows))
    BY <1>1
  <2> PICK q : q = Kept(rows, is)
    OBVIOUS
  <2>1. q \in Seq(Row) /\ \A i \in 1..Len(q) : \E n \in is : q[i] = rows[n]
    BY <2>0, KeptSources
  <2> QED
    BY <1>1, <2>1
<1>5. Unique(p)
  <2>1. \A m \in is : m \in 1..Len(rows)
    BY <1>1
  <2>2. Unique(Kept(rows, is))
    BY <1>1, <1>2, KeptUnique
  <2> QED
    BY <1>1, <2>2
<1>6. \A i \in 1..Len(p) : p[i].cve \notin ExistingCves
  BY <1>3, <1>4
<1> QED
  BY <1>4, <1>5, <1>6

LEMMA DedupSupplementTyped == ASSUME CollectionTyped, DedupSupplement PROVE CollectionTyped'
<1>1. disk' \in [File -> DiskFile] /\ diffs' \in [Cve -> Commit \cup {NoCommit}]
  BY DEF CollectionTyped, DedupSupplement
<1>2. CASE Exit
  BY <1>1, <1>2, ExitTyped
<1>3. CASE Save /\ records' = NewToDataset(kept) /\ UNCHANGED <<at, kept, dropped>>
  <2>1. NewToDataset(kept) \in Seq(Row)
    BY NewToDatasetRows DEF CollectionTyped
  <2>2. pc' = pc /\ saving' = TRUE
    BY <1>3 DEF Save
  <2> QED
    BY <1>1, <1>3, <2>1, <2>2 DEF CollectionTyped
<1> QED
  BY <1>2, <1>3 DEF DedupSupplement

LEMMA SaveSupplementTyped == ASSUME CollectionTyped, SaveSupplement PROVE CollectionTyped'
<1>1. disk' \in [File -> DiskFile] /\ diffs' \in [Cve -> Commit \cup {NoCommit}]
  <2>1. "supplement" \in File /\ records \in Seq(Row)
    BY DEF File, CollectionTyped
  <2>2. [disk EXCEPT !["supplement"] = Written(records)] \in [File -> DiskFile]
    BY <2>1, WrittenType
  <2> QED
    BY <2>2 DEF SaveSupplement, CollectionTyped
<1>2. CASE Exit
  BY <1>1, <1>2, ExitTyped
<1>3. CASE pc' = "merge" /\ UNCHANGED <<saving, memory>>
  BY <1>1, <1>3 DEF CollectionTyped, memory
<1> QED
  BY <1>2, <1>3 DEF SaveSupplement

LEMMA MergedRows ==
    ASSUME CollectionTyped
    PROVE  /\ Merged \in Seq(Row)
           /\ Unique(Rows("metadata")) /\ Unique(records) => Unique(Merged)
<1> PICK p : p = Rows("metadata")
  OBVIOUS
<1> DEFINE is == {i \in 1..Len(records) : records[i].cve \notin ExistingCves}
<1> PICK q : q = Kept(records, is)
  OBVIOUS
<1> PICK rows : rows = Merged
  OBVIOUS
<1>1. rows = p \o q /\ is \in SUBSET (1..Len(records)) /\ records \in Seq(Row)
  BY DEF Merged, CollectionTyped
<1>2. \A n \in is : records[n].cve \notin CvesOf(p)
  BY DEF ExistingCves
<1> HIDE DEF is
<1>3. p \in Seq(Row)
  <2>1. "metadata" \in File
    BY DEF File
  <2> QED
    BY <2>1, RowsType
<1>4. q \in Seq(Row) /\ \A i \in 1..Len(q) : \E n \in is : q[i] = records[n]
  BY <1>1, KeptSources
<1>5. rows \in Seq(Row) /\ Len(rows) = Len(p) + Len(q) /\ Len(p) \in Nat /\ Len(q) \in Nat
  BY <1>1, <1>3, <1>4
<1>6. ASSUME Unique(p), Unique(records) PROVE Unique(rows)
  <2>1. Unique(q)
    <3>1. \A m, n \in is : records[m].cve = records[n].cve => m = n
      BY <1>1, <1>6 DEF Unique
    <3> QED
      BY <1>1, <3>1, KeptUnique
  <2>2. \A i \in 1..Len(p), j \in 1..Len(q) : p[i].cve # q[j].cve
    BY <1>2, <1>4 DEF CvesOf
  <2>3. \A i \in 1..Len(rows) : \/ i \in 1..Len(p) /\ rows[i] = p[i]
                                \/ i - Len(p) \in 1..Len(q) /\ rows[i] = q[i - Len(p)]
    BY <1>1, <1>3, <1>4, <1>5
  <2>4. ASSUME NEW i \in 1..Len(rows), NEW j \in 1..Len(rows), rows[i].cve = rows[j].cve PROVE i = j
    <3>0. i \in Nat /\ j \in Nat
      BY <1>5
    <3>1. CASE i \in 1..Len(p) /\ rows[i] = p[i] /\ j \in 1..Len(p) /\ rows[j] = p[j]
      BY <1>6, <2>4, <3>1 DEF Unique
    <3>2. CASE /\ i - Len(p) \in 1..Len(q) /\ rows[i] = q[i - Len(p)]
               /\ j - Len(p) \in 1..Len(q) /\ rows[j] = q[j - Len(p)]
      <4>1. i - Len(p) = j - Len(p)
        BY <2>1, <2>4, <3>2 DEF Unique
      <4> QED
        BY <1>5, <3>0, <4>1
    <3>3. ~(/\ i \in 1..Len(p) /\ rows[i] = p[i]
            /\ j - Len(p) \in 1..Len(q) /\ rows[j] = q[j - Len(p)])
      BY <2>2, <2>4
    <3>4. ~(/\ i - Len(p) \in 1..Len(q) /\ rows[i] = q[i - Len(p)]
            /\ j \in 1..Len(p) /\ rows[j] = p[j])
      BY <2>2, <2>4
    <3> QED
      BY <2>3, <3>1, <3>2, <3>3, <3>4
  <2> QED
    BY <2>4 DEF Unique
<1> QED
  BY <1>5, <1>6

LEMMA MergeTyped == ASSUME CollectionTyped, MergeIntoDataset PROVE CollectionTyped'
<1>1. "metadata" \in File
  BY DEF File
<1>2. [disk EXCEPT !["metadata"] = Written(Merged)] \in [File -> DiskFile]
  BY <1>1, MergedRows, WrittenType
<1> QED
  BY <1>2, ExitTyped DEF MergeIntoDataset, CollectionTyped

LEMMA KilledMergingTyped == ASSUME CollectionTyped, KilledMerging PROVE CollectionTyped'
<1>1. (IF pc = "merge" THEN "metadata" ELSE pc) \in File
  BY DEF File, KilledMerging
<1>2. disk' \in [File -> DiskFile]
  BY <1>1, TornType DEF KilledMerging, CollectionTyped
<1> QED
  BY <1>2, ExitTyped DEF KilledMerging, CollectionTyped

LEMMA StepTyped == ASSUME CollectionTyped, [Next]_vars PROVE CollectionTyped'
<1>1. CASE CollectionNext
  BY <1>1, StartCollectionTyped, KilledWorkingTyped, ResumeTyped, CollectGhsaTyped, EnrichNvdTyped,
     ResolveCommitTyped, ExtractSinkTyped, LoopDoneTyped, FilterRecordTyped, SampleTyped, SaveRowsTyped,
     KilledSavingTyped DEF CollectionNext
<1>2. CASE SupplementNext
  BY <1>2, StartSupplementTyped, EnrichRecordTyped, DedupSupplementTyped, SaveSupplementTyped, MergeTyped,
     KilledMergingTyped DEF SupplementNext
<1>3. CASE UNCHANGED <<disk, diffs, pc, saving, memory>>
  BY <1>3 DEF CollectionTyped, memory
<1> QED
  BY <1>1, <1>2, <1>3 DEF Next, Sweeping, vars, collectionVars

\* Every record in memory and in a file is one that the programs can use: typed, with no
\* patch commit without the vulnerable one, and with a location only if its own patch has
\* it, and so are the rows of a checkpoint that was cut short (collect_cwe78_dataset.py,
\* supplement_huntr_osv.py).
THEOREM FilesTyped == Spec => []CollectionTyped
<1> QED
  BY InitTyped, StepTyped, PTL DEF Spec

\* The vulnerable location of a record comes from its own patch commit: it is the first
\* Python file that the diff touches, which need not be the one that mattered, with the
\* lines removed there, numbered as before the patch; where the file only gains lines, it
\* is the single line that the count has reached when the section ends, headers of the next
\* one included.  So for every diff in the format (_parse_diff_for_vuln_lines,
\* phase4_extract_sinks_and_loc, resolve_and_enrich).
THEOREM LocationsComeFromPatches == Spec => []LocationFromPatch
<1>1. ASSUME NEW rows \in Seq(Row), NEW i \in 1..Len(rows), rows[i].diff
      PROVE  rows[i].patch # NoCommit /\ Locates(rows[i].where, rows[i].patch)
  <2>1. rows[i] \in Row
    OBVIOUS
  <2> QED
    BY <1>1, <2>1 DEF Row, Honest
<1>2. CollectionTyped => LocationFromPatch
  <2> SUFFICES ASSUME CollectionTyped, NEW rows \in {records, kept, Rows("metadata")}
               PROVE  \A i \in 1..Len(rows) :
                        rows[i].diff => rows[i].patch # NoCommit /\ Locates(rows[i].where, rows[i].patch)
    BY DEF LocationFromPatch
  <2>1. "metadata" \in File
    BY DEF File
  <2>2. rows \in Seq(Row)
    BY <2>1, RowsType DEF CollectionTyped
  <2> QED
    BY <1>1, <2>2
<1> QED
  BY <1>2, FilesTyped, PTL

\* validate() looks for diffs only, and yet what it passes has both commits, whichever
\* commands wrote the dataset (validate_dataset.py).
THEOREM ValidatedStaysUsable == Spec => []ValidatedIsUsable
<1>1. CollectionTyped => ValidatedIsUsable
  <2> SUFFICES ASSUME CollectionTyped, Validates(Rows("metadata")), NEW i \in 1..Len(Rows("metadata"))
               PROVE  Rows("metadata")[i].patch # NoCommit /\ Rows("metadata")[i].vulnerable
    BY DEF ValidatedIsUsable
  <2>1. "metadata" \in File
    BY DEF File
  <2> PICK rows : rows = Rows("metadata")
    OBVIOUS
  <2>2. rows \in Seq(Row)
    BY <2>1, RowsType
  <2>3. rows[i] \in Row /\ rows[i].diff
    BY <2>2 DEF Validates
  <2> QED
    BY <2>3 DEF Row, Honest
<1> QED
  BY <1>1, FilesTyped, PTL

-----------------------------------------------------------------------------
(* One record per CVE. *)

\* The files with one record per CVE; the rejected may repeat CVEs, and no program
\* reads what the supplement writes.
Solo == {"ghsa", "nvd", "commits", "sinks", "accepted", "metadata"}

PhaseFiles == {"ghsa", "nvd", "commits", "sinks", "rejected", "accepted", "metadata", "merge"}

SingleFiles(d) == \A f \in Solo : Unique(d[f].rows)

EntriesSingle ==
    /\ SingleFiles(disk)
    /\ pc \in PhaseFiles \/ (pc = "supplement" /\ saving) => Unique(records)
    /\ pc \in {"rejected", "accepted"} => Unique(kept)

LEMMA NoneUnique == Unique(<<>>)
BY DEF Unique

LEMMA ExitSingle == ASSUME Exit, SingleFiles(disk') PROVE EntriesSingle'
BY DEF Exit, EntriesSingle, PhaseFiles

LEMMA BeginSingle ==
    ASSUME NEW file, NEW rows, Begin(file, rows), SingleFiles(disk'),
           file \in PhaseFiles => Unique(rows), file # "supplement" \/ ~saving'
    PROVE  EntriesSingle'
<1>1. pc' = file /\ saving' = FALSE /\ records' = rows /\ kept' = <<>>
  BY DEF Begin
<1> QED
  BY <1>1, NoneUnique DEF EntriesSingle

LEMMA WrittenSingle ==
    ASSUME CollectionTyped, SingleFiles(disk), NEW f \in File, NEW rows, f \in Solo => Unique(rows)
    PROVE  SingleFiles([disk EXCEPT ![f] = Written(rows)])
<1> PICK d : d = [disk EXCEPT ![f] = Written(rows)]
  OBVIOUS
<1>1. ASSUME NEW g \in Solo PROVE Unique(d[g].rows)
  <2>1. g \in File
    BY DEF Solo, File
  <2>2. d[g] = IF g = f THEN Written(rows) ELSE disk[g]
    BY <2>1 DEF CollectionTyped
  <2>3. Written(rows).rows = rows
    BY DEF Written
  <2> QED
    BY <2>2, <2>3 DEF SingleFiles
<1> QED
  BY <1>1 DEF SingleFiles

LEMMA TornSingle ==
    ASSUME CollectionTyped, SingleFiles(disk), NEW f \in File
    PROVE  SingleFiles([disk EXCEPT ![f] = Torn])
<1> PICK d : d = [disk EXCEPT ![f] = Torn]
  OBVIOUS
<1>1. ASSUME NEW g \in Solo PROVE Unique(d[g].rows)
  <2>1. g \in File
    BY DEF Solo, File
  <2>2. d[g] = IF g = f THEN Torn ELSE disk[g]
    BY <2>1 DEF CollectionTyped
  <2>3. Torn.rows = <<>>
    BY DEF Torn
  <2> QED
    BY <2>2, <2>3, NoneUnique DEF SingleFiles
<1> QED
  BY <1>1 DEF SingleFiles

LEMMA InitSingle == Init => EntriesSingle
<1> SUFFICES ASSUME CollectionInit PROVE EntriesSingle
  BY DEF Init
<1>1. pc = "idle"
  BY DEF CollectionInit
<1>2. Unique(Shipped)
  BY ShippedAssumption DEF Unique
<1>3. \A f \in File : disk[f].rows \in {<<>>, Shipped}
  BY DEF CollectionInit, Absent, Written
<1>4. SingleFiles(disk)
  <2>1. Solo \subseteq File
    BY DEF Solo, File
  <2> QED
    BY <1>2, <1>3, <2>1, NoneUnique DEF SingleFiles
<1> QED
  BY <1>1, <1>4 DEF EntriesSingle, PhaseFiles

\* A step of a phase that keeps the files and the places of the CVEs.
LEMMA WorkSingle ==
    ASSUME EntriesSingle, UNCHANGED <<disk, pc, kept>>, pc # "supplement",
           Unique(records) => Unique(records')
    PROVE  EntriesSingle'
BY DEF EntriesSingle

LEMMA StartCollectionSingle ==
    ASSUME CollectionTyped, EntriesSingle, StartCollection PROVE EntriesSingle'
<1>1. SingleFiles(disk')
  BY DEF EntriesSingle, StartCollection
<1>2. PICK phase \in 0..6 :
        IF phase <= 1 THEN Begin("ghsa", <<>>)
        ELSE Existing # {} /\ Readable(LatestCheckpoint) /\ Begin(Phases[phase], Rows(LatestCheckpoint))
  BY DEF StartCollection
<1>3. CASE phase <= 1
  BY <1>1, <1>2, <1>3, NoneUnique, BeginSingle
<1>4. CASE ~(phase <= 1)
  <2>1. Existing # {} /\ Begin(Phases[phase], Rows(LatestCheckpoint))
    BY <1>2, <1>4
  <2>2. LatestCheckpoint \in Solo
    BY <2>1, LatestCheckpointIs DEF Solo
  <2>3. Unique(Rows(LatestCheckpoint))
    BY <2>2 DEF EntriesSingle, SingleFiles, Rows
  <2>4. saving' = FALSE
    BY <2>1 DEF Begin
  <2> QED
    BY <1>1, <2>1, <2>3, <2>4, BeginSingle
<1> QED
  BY <1>3, <1>4

LEMMA ResumeSingle == ASSUME CollectionTyped, EntriesSingle, Resume PROVE EntriesSingle'
<1>1. SingleFiles(disk')
  BY DEF EntriesSingle, Resume
<1>2. CASE Exit
  BY <1>1, <1>2, ExitSingle
<1>3. CASE Begin(CASE pc = "ghsa" -> "nvd" [] pc = "nvd" -> "commits" [] pc = "commits" -> "sinks", Rows(pc))
  <2>1. pc \in {"ghsa", "nvd", "commits"}
    BY DEF Resume
  <2>2. PICK next \in {"nvd", "commits", "sinks"} : Begin(next, Rows(pc))
    BY <1>3, <2>1
  <2>3. Unique(Rows(pc))
    BY <2>1 DEF EntriesSingle, SingleFiles, Rows, Solo
  <2> QED
    BY <1>1, <2>2, <2>3, BeginSingle
<1> QED
  BY <1>2, <1>3 DEF Resume

LEMMA ReplacedCves ==
    ASSUME CollectionTyped, at \in 1..Len(records), NEW r \in Row, records' = [records EXCEPT ![at] = r],
           r.cve = records[at].cve
    PROVE  SameCves(records', records)
<1>1. /\ Len(records') = Len(records) /\ records'[at] = r
      /\ \A j \in 1..Len(records) : j # at => records'[j] = records[j]
  BY ReplacedAt DEF CollectionTyped
<1> QED
  BY <1>1 DEF SameCves

LEMMA PhaseSingle ==
    ASSUME CollectionTyped, EntriesSingle,
           CollectGhsa \/ EnrichNvd \/ ResolveCommit \/ ExtractSink \/ LoopDone \/ Sample
    PROVE  EntriesSingle'
<1>1. CASE CollectGhsa
  <2>1. Unique(records')
    BY <1>1, SelectedRows DEF CollectGhsa
  <2>2. UNCHANGED <<disk, pc, kept>> /\ pc # "supplement"
    BY <1>1 DEF CollectGhsa, Working, Save
  <2> QED
    BY <2>1, <2>2, WorkSingle
<1>2. CASE EnrichNvd
  <2>1. SameCves(records', records)
    BY <1>2, ScoredRows
  <2>2. UNCHANGED <<disk, pc, kept>> /\ pc # "supplement"
    BY <1>2 DEF EnrichNvd, Working, Save
  <2> QED
    BY <2>1, <2>2, SameCvesUnique, WorkSingle
<1>3. CASE ResolveCommit
  <2>1. SameCves(records', records)
    BY <1>3, ResolvedRow, AtRow, ReplacedCves DEF ResolveCommit
  <2>2. UNCHANGED <<disk, pc, kept>> /\ pc # "supplement"
    BY <1>3 DEF ResolveCommit, Working
  <2> QED
    BY <2>1, <2>2, SameCvesUnique, WorkSingle
<1>4. CASE ExtractSink
  <2>1. PICK r : ExtractStep(r)
    BY <1>4, ExtractedRow
  <2>3. SameCves(records', records)
    BY <1>4, <2>1, AtRow, ReplacedCves DEF ExtractSink, ExtractStep
  <2>2. UNCHANGED <<disk, pc, kept>> /\ pc # "supplement"
    BY <1>4 DEF ExtractSink, Working
  <2> QED
    BY <2>2, <2>3, SameCvesUnique, WorkSingle
<1>5. CASE LoopDone
  BY <1>5, WorkSingle DEF LoopDone, Save
<1>6. CASE Sample
  <2>1. Unique(records) => Unique(records')
    BY <1>6, SampleShape DEF SampledFrom
  <2>2. UNCHANGED <<disk, pc, kept>> /\ pc # "supplement"
    BY <1>6 DEF Sample, Working, Save
  <2> QED
    BY <2>1, <2>2, WorkSingle
<1> QED
  BY <1>1, <1>2, <1>3, <1>4, <1>5, <1>6

LEMMA AppendedUnique ==
    ASSUME NEW rows \in Seq(Row), Unique(rows), NEW r \in Row, r.cve \notin CvesOf(rows),
           NEW new, new = Append(rows, r)
    PROVE  Unique(new)
<1>1. Len(new) = Len(rows) + 1 /\ Len(rows) \in Nat /\ new[Len(rows) + 1] = r
      /\ \A j \in 1..Len(rows) : new[j] = rows[j]
  BY AppendedAt
<1>2. \A j \in 1..Len(rows) : rows[j].cve # r.cve
  BY DEF CvesOf
<1>3. \A j \in 1..Len(new) : j \in 1..Len(rows) \/ j = Len(rows) + 1
  BY <1>1
<1>4. ASSUME NEW i \in 1..Len(new), NEW j \in 1..Len(new), new[i].cve = new[j].cve PROVE i = j
  <2>1. CASE i \in 1..Len(rows) /\ j \in 1..Len(rows)
    BY <1>1, <1>4, <2>1 DEF Unique
  <2>2. CASE i \in 1..Len(rows) /\ j = Len(rows) + 1
    BY <1>1, <1>2, <1>4, <2>2
  <2>3. CASE i = Len(rows) + 1 /\ j \in 1..Len(rows)
    BY <1>1, <1>2, <1>4, <2>3
  <2> QED
    BY <1>3, <2>1, <2>2, <2>3
<1> QED
  BY <1>4 DEF Unique

LEMMA FilterSingle == ASSUME CollectionTyped, EntriesSingle, FilterRecord PROVE EntriesSingle'
<1> PICK r : r = records[at]
  OBVIOUS
<1>1. r \in Row /\ kept \in Seq(Row)
  BY AtRow DEF FilterRecord, CollectionTyped
<1>2. pc = "rejected" /\ UNCHANGED <<disk, pc, saving, records>>
  BY DEF FilterRecord, Working
<1>3. Unique(kept')
  <2>1. (Reason(r) = "none" /\ kept' = Append(kept, r)) \/ UNCHANGED kept
    BY DEF FilterRecord
  <2>2. Unique(kept)
    BY <1>2 DEF EntriesSingle
  <2>3. Reason(r) = "none" => r.cve \notin CvesOf(kept)
    BY <1>1, ReasonType
  <2> QED
    BY <1>1, <2>1, <2>2, <2>3, AppendedUnique
<1> QED
  BY <1>2, <1>3 DEF EntriesSingle

LEMMA ContentUnique ==
    ASSUME CollectionTyped, EntriesSingle, Saving
    PROVE  pc \in File /\ (pc \in Solo => Unique(Content))
BY DEF Saving, EntriesSingle, Solo, Content, File, PhaseFiles

LEMMA SaveRowsSingle == ASSUME CollectionTyped, EntriesSingle, SaveRows PROVE EntriesSingle'
<1>1. SingleFiles(disk')
  <2>1. SingleFiles([disk EXCEPT ![pc] = Written(Content)])
    BY ContentUnique, WrittenSingle DEF SaveRows, EntriesSingle
  <2> QED
    BY <2>1 DEF SaveRows
<1>2. CASE Exit
  BY <1>1, <1>2, ExitSingle
<1>3. CASE pc = "rejected" /\ pc' = "accepted" /\ UNCHANGED <<saving, memory>>
  BY <1>1, <1>3 DEF EntriesSingle, memory, PhaseFiles
<1>4. ASSUME pc \in {"ghsa", "nvd", "commits", "sinks"}, NEW file \in {"nvd", "commits", "sinks", "rejected"},
             Begin(file, records)
      PROVE  EntriesSingle'
  <2>1. Unique(records)
    BY <1>4 DEF EntriesSingle, PhaseFiles
  <2> QED
    BY <1>1, <1>4, <2>1, BeginSingle
<1>5. ASSUME pc = "accepted", Begin("metadata", kept) PROVE EntriesSingle'
  <2>1. Unique(kept)
    BY <1>5 DEF EntriesSingle
  <2> QED
    BY <1>1, <1>5, <2>1, BeginSingle
<1> QED
  BY <1>2, <1>3, <1>4, <1>5 DEF SaveRows, GoOn

LEMMA KilledSavingSingle == ASSUME CollectionTyped, EntriesSingle, KilledSaving PROVE EntriesSingle'
<1>1. SingleFiles(disk) /\ pc \in File /\ (pc \in Solo => Unique(Content)) /\ Exit
  BY ContentUnique DEF EntriesSingle, KilledSaving
<1>2. CASE UNCHANGED disk
  BY <1>1, <1>2, ExitSingle
<1>3. CASE disk' = [disk EXCEPT ![pc] = Torn]
  BY <1>1, <1>3, TornSingle, ExitSingle
<1>4. ASSUME NEW n \in 0..Len(Content), disk' = [disk EXCEPT ![pc] = Written(SubSeq(Content, 1, n))]
      PROVE  EntriesSingle'
  <2> PICK rows : rows = Content
    OBVIOUS
  <2> PICK part : part = SubSeq(rows, 1, n)
    OBVIOUS
  <2>1. rows \in Seq(Row)
    BY ContentType
  <2>2. Len(part) = n /\ \A i \in 1..n : part[i] = rows[i] /\ i \in 1..Len(rows)
    BY <2>1
  <2>3. pc \in Solo => Unique(part)
    BY <1>1, <2>2 DEF Unique
  <2>4. SingleFiles([disk EXCEPT ![pc] = Written(part)])
    BY <1>1, <2>3, WrittenSingle
  <2> QED
    BY <1>1, <1>4, <2>4, ExitSingle
<1> QED
  BY <1>2, <1>3, <1>4 DEF KilledSaving

LEMMA SupplementSingle == ASSUME CollectionTyped, EntriesSingle, SupplementNext PROVE EntriesSingle'
<1>0. SingleFiles(disk) /\ "metadata" \in File /\ "supplement" \in File
  BY DEF EntriesSingle, File
<1>1. CASE StartSupplement
  <2>1. pc' = "supplement" /\ saving' = FALSE /\ disk' = disk
    BY <1>1 DEF StartSupplement, Begin
  <2> QED
    BY <1>0, <2>1 DEF EntriesSingle, PhaseFiles
<1>2. CASE EnrichRecord
  BY <1>0, <1>2 DEF EnrichRecord, Working, EntriesSingle, PhaseFiles
<1>3. CASE DedupSupplement
  <2>1. CASE Exit
    BY <1>0, <1>3, <2>1, ExitSingle DEF DedupSupplement
  <2>2. CASE Save /\ records' = NewToDataset(kept)
    <3>1. Unique(records')
      BY <2>2, NewToDatasetRows DEF CollectionTyped
    <3>2. pc' = "supplement" /\ disk' = disk
      BY <1>3, <2>2 DEF DedupSupplement, Working, Save
    <3> QED
      BY <1>0, <3>1, <3>2 DEF EntriesSingle
  <2> QED
    BY <1>3, <2>1, <2>2 DEF DedupSupplement
<1>4. CASE SaveSupplement
  <2>1. SingleFiles(disk')
    <3>1. "supplement" \notin Solo
      BY DEF Solo
    <3>2. SingleFiles([disk EXCEPT !["supplement"] = Written(records)])
      BY <1>0, <3>1, WrittenSingle
    <3> QED
      BY <1>4, <3>2 DEF SaveSupplement
  <2>2. CASE Exit
    BY <2>1, <2>2, ExitSingle
  <2>3. CASE pc' = "merge" /\ UNCHANGED <<saving, memory>>
    BY <1>4, <2>1, <2>3 DEF EntriesSingle, SaveSupplement, memory
  <2> QED
    BY <1>4, <2>2, <2>3 DEF SaveSupplement
<1>5. CASE MergeIntoDataset
  <2>1. Unique(Rows("metadata")) /\ Unique(records)
    BY <1>0, <1>5 DEF EntriesSingle, MergeIntoDataset, SingleFiles, Solo, Rows, PhaseFiles
  <2>2. Unique(Merged)
    BY <2>1, MergedRows
  <2>3. SingleFiles([disk EXCEPT !["metadata"] = Written(Merged)])
    BY <1>0, <2>2, WrittenSingle
  <2> QED
    BY <1>5, <2>3, ExitSingle DEF MergeIntoDataset
<1>6. CASE KilledMerging
  <2>1. (IF pc = "merge" THEN "metadata" ELSE pc) \in File
    BY <1>6 DEF File, KilledMerging
  <2>2. SingleFiles(disk')
    BY <1>0, <1>6, <2>1, TornSingle DEF KilledMerging
  <2> QED
    BY <1>6, <2>2, ExitSingle DEF KilledMerging
<1> QED
  BY <1>1, <1>2, <1>3, <1>4, <1>5, <1>6 DEF SupplementNext

LEMMA StepSingle == ASSUME CollectionTyped, EntriesSingle, [Next]_vars PROVE EntriesSingle'
<1>1. CASE CollectionNext
  <2>1. CASE KilledWorking
    BY <2>1, ExitSingle DEF KilledWorking, EntriesSingle
  <2> QED
    BY <1>1, <2>1, StartCollectionSingle, ResumeSingle, PhaseSingle, FilterSingle, SaveRowsSingle,
       KilledSavingSingle DEF CollectionNext
<1>2. CASE SupplementNext
  BY <1>2, SupplementSingle
<1>3. CASE UNCHANGED <<disk, diffs, pc, saving, memory>>
  BY <1>3 DEF EntriesSingle, memory
<1> QED
  BY <1>1, <1>2, <1>3 DEF Next, Sweeping, vars, collectionVars

\* metadata.json has one record per CVE after any history of collections, supplements,
\* single phases and kills (phase5_filter_and_dedup, dedup_and_merge, merge_into_dataset).
THEOREM EntriesStaySingle == Spec => []OneEntryPerCve
<1>1. EntriesSingle => OneEntryPerCve
  BY DEF EntriesSingle, SingleFiles, Solo, Unique, OneEntryPerCve, Rows
<1> QED
  BY <1>1, InitSingle, StepSingle, FilesTyped, PTL DEF Spec

-----------------------------------------------------------------------------
(* A collection from the beginning. *)

SelectedCves == {Advisories[i].cve : i \in {j \in 1..Len(Advisories) : Selected(Advisories[j])}}

\* A collection from the beginning.
Full == cmd.phase = 0 /\ ~cmd.resume

\* The cves of the first n of rows.
CvesUpTo(rows, n) == {rows[i].cve : i \in 1..n}

\* The work of a phase over all records has reached at, and only its end is written.
InLoop == at <= Len(records) + 1 /\ (saving => at = Len(records) + 1)

\* What each of the phases has made of the advisories.
Collected == \A i \in 1..Len(records) : Raw(records[i])

Resolving == \A i \in 1..Len(records) : IF i < at THEN Resolved(records[i]) ELSE Raw(records[i])

Extracting == \A i \in 1..Len(records) :
                IF i < at THEN ExtractedWith(diffs, records[i]) ELSE Resolved(records[i])

Filtering ==
    /\ \A i \in 1..Len(records) : ExtractedWith(diffs, records[i])
    /\ CvesOf(kept) \cup CvesOf(dropped) = CvesUpTo(records, at - 1)
    /\ CvesOf(kept) \cap CvesOf(dropped) = {}
    /\ \A i \in 1..Len(kept) : Located(kept[i])
    /\ \A i \in 1..Len(dropped) : Truthful(dropped[i])

Accounted ==
    Full =>
        /\ (pc = "ghsa" /\ saving) \/ pc \in {"nvd", "commits", "sinks", "rejected", "accepted"}
                => CvesOf(records) = SelectedCves
        /\ (pc = "ghsa" /\ saving) \/ pc = "nvd" => Collected
        /\ pc \in {"commits", "sinks", "rejected", "accepted"} => InLoop
        /\ pc = "commits" => Resolving
        /\ pc = "sinks" => Extracting
        /\ pc \in {"rejected", "accepted"} => Filtering
        /\ pc = "accepted" => saving

LEMMA InitAccounted == Init => Accounted
BY DEF Init, CollectionInit, Accounted

\* The programs that are no collection from the beginning.
LEMMA NotAccounted ==
    ASSUME pc' \in {"idle", "supplement", "merge", "metadata"} \/ (pc' = "ghsa" /\ ~saving') \/ ~Full'
    PROVE  Accounted'
BY DEF Accounted

LEMMA StartCollectionAccounted == ASSUME StartCollection PROVE Accounted'
<1>1. PICK phase \in 0..6 : \E resume \in BOOLEAN :
        /\ cmd' = [phase |-> phase, resume |-> resume, dry |-> FALSE]
        /\ phase <= 1 => Begin("ghsa", <<>>)
  BY DEF StartCollection
<1>2. CASE phase <= 1
  <2>1. pc' = "ghsa" /\ saving' = FALSE
    BY <1>1, <1>2 DEF Begin
  <2> QED
    BY <2>1, NotAccounted
<1>3. CASE ~(phase <= 1)
  <2>1. cmd'.phase # 0
    BY <1>1, <1>3
  <2> QED
    BY <2>1, NotAccounted DEF Full
<1> QED
  BY <1>2, <1>3

LEMMA ResumeAccounted == ASSUME Resume PROVE Accounted'
<1>1. CASE Exit
  BY <1>1, NotAccounted DEF Exit
<1>2. CASE cmd' = cmd /\ cmd.resume
  BY <1>2, NotAccounted DEF Full
<1> QED
  BY <1>1, <1>2 DEF Resume

LEMMA CollectGhsaAccounted == ASSUME CollectGhsa PROVE Accounted'
<1>1. pc' = "ghsa" /\ saving'
  BY DEF CollectGhsa, Working, Save
<1>2. /\ CvesOf(records') = SelectedCves
      /\ \A i \in 1..Len(records') : records'[i].patch = NoCommit /\ ~records'[i].diff /\ records'[i].reason = "none"
  BY SelectedRows DEF CollectGhsa, SelectedCves
<1>3. CvesOf(records)' = SelectedCves /\ Collected'
  BY <1>2 DEF Collected, Raw, CvesOf
<1> QED
  BY <1>1, <1>3 DEF Accounted

LEMMA EnrichNvdAccounted ==
    ASSUME CollectionTyped, Accounted, EnrichNvd PROVE Accounted'
<1>1. pc = "nvd" /\ UNCHANGED <<pc, cmd>>
  BY DEF EnrichNvd, Working, Save
<1>2. SameCves(records', records) /\ \A i \in 1..Len(records) : Raw(records[i]) => Raw(records'[i])
  BY ScoredRows
<1>3. CvesOf(records') = CvesOf(records) /\ Len(records') = Len(records)
  BY <1>2, SameCvesUnique DEF SameCves
<1>4. Full => CvesOf(records)' = SelectedCves /\ Collected'
  <2>1. ASSUME Full PROVE CvesOf(records) = SelectedCves /\ Collected
    BY <1>1, <2>1 DEF Accounted
  <2>2. ASSUME Collected PROVE Collected'
    BY <1>2, <1>3, <2>2 DEF Collected
  <2> QED
    BY <1>3, <2>1, <2>2
<1>5. Full' = Full
  BY <1>1 DEF Full
<1> QED
  BY <1>1, <1>4, <1>5 DEF Accounted

LEMMA ResolveCommitAccounted ==
    ASSUME CollectionTyped, Accounted, ResolveCommit PROVE Accounted'
<1>1. pc = "commits" /\ saving = FALSE /\ UNCHANGED <<pc, cmd, saving>> /\ at' = at + 1
  BY DEF ResolveCommit, Working
<1>2. at \in 1..Len(records) /\ Len(records) \in Nat
  BY AtRow DEF ResolveCommit, CollectionTyped
<1>3. PICK r \in Row : /\ records' = [records EXCEPT ![at] = r] /\ r.cve = records[at].cve
                       /\ Raw(records[at]) => Resolved(r)
  BY ResolvedRow
<1>4. SameCves(records', records)
  BY <1>2, <1>3, ReplacedCves
<1>5. CvesOf(records') = CvesOf(records) /\ Len(records') = Len(records)
  BY <1>4, SameCvesUnique DEF SameCves
<1>6. records'[at] = r /\ \A j \in 1..Len(records) : j # at => records'[j] = records[j]
  BY <1>2, <1>3, ReplacedAt DEF CollectionTyped
<1>7. ASSUME Full PROVE CvesOf(records)' = SelectedCves /\ InLoop' /\ Resolving'
  <2>1. CvesOf(records) = SelectedCves /\ Resolving
    BY <1>1, <1>7 DEF Accounted
  <2>2. InLoop'
    BY <1>1, <1>2, <1>5 DEF InLoop
  <2>3. ASSUME NEW i \in 1..Len(records) PROVE IF i < at + 1 THEN Resolved(records'[i]) ELSE Raw(records'[i])
    <3>1. i < at => Resolved(records[i])
      BY <2>1 DEF Resolving
    <3>2. ~(i < at) => Raw(records[i])
      BY <2>1 DEF Resolving
    <3>3. i = at => Resolved(records'[i])
      BY <1>2, <1>3, <1>6, <3>2
    <3>4. i < at + 1 => i < at \/ i = at
      BY <1>2
    <3>5. i < at => i # at
      BY <1>2
    <3>6. ~(i < at + 1) => ~(i < at) /\ i # at
      BY <1>2
    <3>7. i < at + 1 => Resolved(records'[i])
      BY <1>6, <3>1, <3>3, <3>4, <3>5
    <3>8. ~(i < at + 1) => Raw(records'[i])
      BY <1>6, <3>2, <3>6
    <3> QED
      BY <3>7, <3>8
  <2>4. Resolving'
    BY <1>1, <1>5, <2>3 DEF Resolving
  <2> QED
    BY <1>5, <2>1, <2>2, <2>4
<1>8. Full' = Full
  BY <1>1 DEF Full
<1> QED
  BY <1>1, <1>7, <1>8 DEF Accounted

LEMMA ExtractSinkAccounted ==
    ASSUME CollectionTyped, EntriesSingle, Accounted, ExtractSink PROVE Accounted'
<1>1. pc = "sinks" /\ saving = FALSE /\ UNCHANGED <<pc, cmd, saving>> /\ at' = at + 1
  BY DEF ExtractSink, Working
<1>2. at \in 1..Len(records) /\ Len(records) \in Nat /\ \A i \in 1..Len(records) : records[i].cve \in Cve
  <2>1. at \in 1..Len(records) /\ records \in Seq(Row)
    BY AtRow DEF ExtractSink, CollectionTyped
  <2> QED
    BY <2>1 DEF Row, Record
<1>3. PICK r : ExtractStep(r)
  BY ExtractedRow
<1>4. SameCves(records', records)
  BY <1>2, <1>3, ReplacedCves DEF ExtractStep
<1>5. CvesOf(records') = CvesOf(records) /\ Len(records') = Len(records)
  BY <1>4, SameCvesUnique DEF SameCves
<1>6. records'[at] = r /\ \A j \in 1..Len(records) : j # at => records'[j] = records[j]
  BY <1>2, <1>3, ReplacedAt DEF CollectionTyped, ExtractStep
<1>7. ASSUME Full PROVE CvesOf(records)' = SelectedCves /\ InLoop' /\ Extracting'
  <2>1. CvesOf(records) = SelectedCves /\ Extracting
    BY <1>1, <1>7 DEF Accounted
  <2>2. InLoop'
    BY <1>1, <1>2, <1>5 DEF InLoop
  <2>3. ASSUME NEW i \in 1..Len(records)
        PROVE  IF i < at + 1 THEN ExtractedWith(diffs', records'[i]) ELSE Resolved(records'[i])
    <3>1. i < at => ExtractedWith(diffs, records[i])
      BY <2>1 DEF Extracting
    <3>2. ~(i < at) => Resolved(records[i])
      BY <2>1 DEF Extracting
    <3>3. i = at => ExtractedWith(diffs', records'[i])
      BY <1>2, <1>3, <1>6, <3>2 DEF ExtractStep
    <3>4. i < at + 1 => i < at \/ i = at
      BY <1>2
    <3>5. i < at => i # at
      BY <1>2
    <3>6. ~(i < at + 1) => ~(i < at) /\ i # at
      BY <1>2
    <3>9. i < at => ExtractedWith(diffs', records'[i])
      <4> SUFFICES ASSUME i < at PROVE ExtractedWith(diffs', records[i])
        BY <1>6, <3>5
      <4>1. records[i].cve # r.cve
        BY <1>1, <1>2, <1>3, <3>5 DEF EntriesSingle, Unique, PhaseFiles, ExtractStep
      <4>2. diffs'[records[i].cve] = diffs[records[i].cve]
        BY <1>2, <1>3, <4>1 DEF ExtractStep
      <4> QED
        BY <3>1, <4>2 DEF ExtractedWith
    <3>7. i < at + 1 => ExtractedWith(diffs', records'[i])
      BY <3>3, <3>4, <3>9
    <3>8. ~(i < at + 1) => Resolved(records'[i])
      BY <1>6, <3>2, <3>6
    <3> QED
      BY <3>7, <3>8
  <2>4. Extracting'
    BY <1>1, <1>5, <2>3 DEF Extracting
  <2> QED
    BY <1>5, <2>1, <2>2, <2>4
<1>8. Full' = Full
  BY <1>1 DEF Full
<1> QED
  BY <1>1, <1>7, <1>8 DEF Accounted

LEMMA LoopDoneAccounted == ASSUME CollectionTyped, Accounted, LoopDone PROVE Accounted'
<1>1. /\ pc \in {"commits", "sinks", "rejected"} /\ at = Len(records) + 1
      /\ UNCHANGED <<diffs, pc, cmd, records, at, kept, dropped>>
  BY DEF LoopDone, Save
<1>2. Len(records) \in Nat
  BY DEF CollectionTyped
<1>3. /\ Full' = Full /\ CvesOf(records)' = CvesOf(records) /\ InLoop'
      /\ Resolving' = Resolving /\ Extracting' = Extracting
  BY <1>1, <1>2 DEF Full, InLoop, Resolving, Extracting
<1>4. Filtering' = Filtering
  BY <1>1 DEF Filtering, Located, Truthful
<1> QED
  BY <1>1, <1>3, <1>4 DEF Accounted

LEMMA AppendedCves ==
    ASSUME NEW rows \in Seq(Row), NEW r \in Row, NEW new, new = Append(rows, r)
    PROVE  CvesOf(new) = CvesOf(rows) \cup {r.cve}
<1>1. Len(new) = Len(rows) + 1 /\ Len(rows) \in Nat /\ new[Len(rows) + 1] = r
      /\ \A j \in 1..Len(rows) : new[j] = rows[j]
  BY AppendedAt
<1>2. \A j \in 1..Len(new) : j \in 1..Len(rows) \/ j = Len(rows) + 1
  BY <1>1
<1>3. \A j \in 1..Len(rows) : j \in 1..Len(new)
  BY <1>1
<1>4. Len(rows) + 1 \in 1..Len(new)
  BY <1>1
<1> QED
  BY <1>1, <1>2, <1>3, <1>4 DEF CvesOf

\* The same with the accepted records k instead of kept.
TruthfulWith(k, r) ==
    CASE r.reason = "no_repo_url" -> r.repo = NoRepo /\ r.patch = NoCommit
      [] r.reason = "no_commit_resolved" -> r.patch = NoCommit
      [] r.reason = "diff_fetch_failed" -> r.patch # NoCommit /\ ~r.diff
      [] r.reason = "duplicate_location" ->
            r.diff /\ diffs[r.cve] = r.patch
              /\ \E i \in 1..Len(k) : k[i].cve # r.cve /\ LocationKey(k[i]) = LocationKey(r)
      [] OTHER -> FALSE

LEMMA FilterRecordAccounted ==
    ASSUME CollectionTyped, EntriesSingle, Accounted, FilterRecord PROVE Accounted'
<1>1. /\ pc = "rejected" /\ saving = FALSE /\ UNCHANGED <<pc, cmd, saving, diffs, records>>
      /\ at' = at + 1
  BY DEF FilterRecord, Working
<1>2. at \in 1..Len(records) /\ Len(records) \in Nat /\ kept \in Seq(Row) /\ dropped \in Seq(Row)
  BY AtRow DEF FilterRecord, CollectionTyped
<1> PICK r : r = records[at]
  OBVIOUS
<1> PICK q : q = [r EXCEPT !.reason = Reason(r)]
  OBVIOUS
<1>3. r \in Row /\ Reasoned(q, r, Reason(r)) /\ (Reason(r) = "none" => r.reason = "none")
  BY AtRow, ReasonType DEF FilterRecord
<1>4. q \in Row /\ q.cve = r.cve /\ q.repo = r.repo /\ q.patch = r.patch /\ q.diff = r.diff
      /\ q.where = r.where /\ q.reason = Reason(r)
  BY <1>3 DEF Reasoned
<1>5. \/ Reason(r) = "none" /\ kept' = Append(kept, r) /\ dropped' = dropped
      \/ Reason(r) # "none" /\ dropped' = Append(dropped, q) /\ kept' = kept
  BY DEF FilterRecord
<1>6. ASSUME Full
      PROVE  InLoop' /\ Filtering'
  <2>1. Filtering
    BY <1>1, <1>6 DEF Accounted
  <2>2. InLoop'
    BY <1>1, <1>2 DEF InLoop
  <2>3. \A i \in 1..Len(records') : ExtractedWith(diffs', records'[i])
    BY <1>1, <2>1 DEF Filtering
  <2>4. r.cve \notin CvesOf(kept) \cup CvesOf(dropped)
    <3>1. \A i \in 1..(at - 1) : i \in 1..Len(records) /\ i # at
      BY <1>2
    <3>2. \A i \in 1..(at - 1) : records[i].cve # r.cve
      BY <1>1, <1>2, <3>1 DEF EntriesSingle, Unique, PhaseFiles
    <3> QED
      BY <2>1, <3>2 DEF Filtering, CvesUpTo
  <2>5. CvesUpTo(records', at' - 1) = CvesUpTo(records, at - 1) \cup {r.cve}
    <3>1. at' - 1 = at /\ \A i \in 1..at : i \in 1..(at - 1) \/ i = at
      BY <1>1, <1>2
    <3>2. at \in 1..at /\ \A i \in 1..(at - 1) : i \in 1..at
      BY <1>2
    <3>3. CvesUpTo(records, at) = CvesUpTo(records, at - 1) \cup {r.cve}
      BY <3>1, <3>2 DEF CvesUpTo
    <3> QED
      BY <1>1, <3>1, <3>3
  <2>17. \/ CvesOf(kept') = CvesOf(kept) \cup {r.cve} /\ CvesOf(dropped') = CvesOf(dropped)
         \/ CvesOf(dropped') = CvesOf(dropped) \cup {r.cve} /\ CvesOf(kept') = CvesOf(kept)
    <3>1. CASE kept' = Append(kept, r) /\ dropped' = dropped
      <4>1. CvesOf(kept') = CvesOf(kept) \cup {r.cve}
        BY <1>2, <1>3, <3>1, AppendedCves
      <4>2. CvesOf(dropped') = CvesOf(dropped)
        BY <3>1
      <4> QED
        BY <4>1, <4>2
    <3>2. CASE dropped' = Append(dropped, q) /\ kept' = kept
      <4>0. q \in Row /\ dropped \in Seq(Row)
        BY <1>2, <1>4
      <4> PICK new : new = dropped'
        OBVIOUS
      <4>1. CvesOf(new) = CvesOf(dropped) \cup {q.cve}
        BY <3>2, <4>0, AppendedCves
      <4>2. CvesOf(kept') = CvesOf(kept)
        BY <3>2
      <4> QED
        BY <1>4, <4>1, <4>2
    <3> QED
      BY <1>5, <3>1, <3>2
  <2>6. CvesOf(kept') \cup CvesOf(dropped') = CvesUpTo(records', at' - 1)
    BY <2>1, <2>5, <2>17 DEF Filtering
  <2>7. CvesOf(kept') \cap CvesOf(dropped') = {}
    BY <2>1, <2>4, <2>17 DEF Filtering
  <2>8. ExtractedWith(diffs, r)
    BY <1>2, <2>1 DEF Filtering
  <2>9. r.reason = "none" => r.patch # NoCommit /\ r.vulnerable /\ r.diff /\ diffs[r.cve] = r.patch
    <3>1. r.reason = "none" => r.patch # NoCommit /\ r.diff /\ diffs[r.cve] = r.patch
      BY <2>8 DEF ExtractedWith
    <3> QED
      BY <1>3, <3>1 DEF Row, Honest
  <2>10. \A i \in 1..Len(kept') : kept'[i].diff /\ diffs[kept'[i].cve] = kept'[i].patch
    <3>1. \A i \in 1..Len(kept) : kept[i].diff /\ diffs[kept[i].cve] = kept[i].patch
      BY <2>1 DEF Filtering, Located
    <3>2. CASE Reason(r) = "none" /\ kept' = Append(kept, r)
      <4>1. /\ Len(kept') = Len(kept) + 1 /\ kept'[Len(kept) + 1] = r
            /\ \A j \in 1..Len(kept) : kept'[j] = kept[j]
        BY <1>2, <1>3, <3>2, AppendedAt
      <4>2. \A j \in 1..Len(kept') : j \in 1..Len(kept) \/ j = Len(kept) + 1
        BY <1>2, <4>1
      <4> QED
        BY <1>3, <2>9, <3>1, <3>2, <4>1, <4>2
    <3> QED
      BY <1>5, <3>1, <3>2
  <2>11. ASSUME NEW x, TruthfulWith(kept, x) PROVE TruthfulWith(kept', x)
    <3>1. CASE kept' = kept
      BY <2>11, <3>1
    <3>2. CASE kept' = Append(kept, r)
      <4>1. \A j \in 1..Len(kept) : j \in 1..Len(kept') /\ kept'[j] = kept[j]
        <5>1. Len(kept') = Len(kept) + 1 /\ \A j \in 1..Len(kept) : kept'[j] = kept[j]
          BY <1>2, <1>3, <3>2, AppendedAt
        <5> QED
          BY <1>2, <5>1
      <4> DEFINE Double(k) == \E i \in 1..Len(k) : k[i].cve # x.cve /\ LocationKey(k[i]) = LocationKey(x)
      <4>2. Double(kept) => Double(kept')
        BY <4>1
      <4>3. \A k : TruthfulWith(k, x) = CASE x.reason = "no_repo_url" -> x.repo = NoRepo /\ x.patch = NoCommit
              [] x.reason = "no_commit_resolved" -> x.patch = NoCommit
              [] x.reason = "diff_fetch_failed" -> x.patch # NoCommit /\ ~x.diff
              [] x.reason = "duplicate_location" -> x.diff /\ diffs[x.cve] = x.patch /\ Double(k)
              [] OTHER -> FALSE
        BY DEF TruthfulWith
      <4> HIDE DEF Double
      <4> QED
        BY <2>11, <4>2, <4>3
    <3> QED
      BY <1>5, <3>1, <3>2
  <2>12. Reason(r) # "none" => TruthfulWith(kept, q)
    <3>1. CASE r.reason # "none"
      <4>1. q.reason = r.reason
        BY <1>4, <3>1 DEF Reason
      <4> QED
        BY <1>4, <2>8, <3>1, <4>1 DEF ExtractedWith, TruthfulWith
    <3>2. CASE r.reason = "none" /\ Reason(r) # "none"
      <4>1. q.reason = "duplicate_location" /\ \E i \in 1..Len(kept) : LocationKey(kept[i]) = LocationKey(r)
        BY <1>4, <2>4, <2>9, <3>2 DEF Reason
      <4>2. LocationKey(q) = LocationKey(r)
        BY <1>4 DEF LocationKey
      <4>3. \A i \in 1..Len(kept) : kept[i].cve # r.cve
        BY <2>4 DEF CvesOf
      <4> QED
        BY <1>4, <2>9, <3>2, <4>1, <4>2, <4>3 DEF TruthfulWith
    <3> QED
      BY <3>1, <3>2
  <2>13. \A i \in 1..Len(dropped') : TruthfulWith(kept', dropped'[i])
    <3>1. \A i \in 1..Len(dropped) : TruthfulWith(kept, dropped[i])
      BY <2>1 DEF Filtering, Truthful, TruthfulWith, Located
    <3>2. CASE Reason(r) # "none" /\ dropped' = Append(dropped, q)
      <4>1. /\ Len(dropped') = Len(dropped) + 1 /\ dropped'[Len(dropped) + 1] = q
            /\ \A j \in 1..Len(dropped) : dropped'[j] = dropped[j]
        BY <1>2, <1>4, <3>2, AppendedAt
      <4>2. \A j \in 1..Len(dropped') : j \in 1..Len(dropped) \/ j = Len(dropped) + 1
        BY <1>2, <4>1
      <4>3. \A i \in 1..Len(dropped') : TruthfulWith(kept, dropped'[i])
        BY <2>12, <3>1, <3>2, <4>1, <4>2
      <4> QED
        BY <2>11, <4>3
    <3> QED
      BY <1>5, <2>11, <3>1, <3>2
  <2>14. \A i \in 1..Len(kept') : Located(kept[i])'
    BY <1>1, <2>10 DEF Located
  <2>15. \A i \in 1..Len(dropped') : Truthful(dropped[i])'
    BY <1>1, <2>13 DEF Truthful, TruthfulWith, Located
  <2>16. Filtering'
    BY <2>3, <2>6, <2>7, <2>14, <2>15 DEF Filtering, CvesOf, CvesUpTo
  <2> QED
    BY <2>2, <2>16
<1>7. Full' = Full /\ CvesOf(records)' = CvesOf(records)
  BY <1>1 DEF Full
<1> QED
  BY <1>1, <1>6, <1>7 DEF Accounted

\* The phases hand their records on.
LEMMA SaveRowsAccounted ==
    ASSUME CollectionTyped, Accounted, SaveRows PROVE Accounted'
<1>1. UNCHANGED diffs /\ GoOn /\ saving
  BY DEF SaveRows, Saving
<1>2. CASE Exit
  BY <1>2, NotAccounted DEF Exit
<1>3. CASE pc = "rejected" /\ pc' = "accepted" /\ UNCHANGED <<saving, memory>>
  <2>1. /\ Full' = Full /\ CvesOf(records)' = CvesOf(records) /\ InLoop' = InLoop
    BY <1>3 DEF memory, Full, InLoop
  <2>2. Filtering' = Filtering
    BY <1>1, <1>3 DEF Filtering, Located, Truthful, memory
  <2> QED
    BY <1>1, <1>3, <2>1, <2>2 DEF Accounted
<1>4. ASSUME NEW file \in {"nvd", "commits", "sinks", "rejected"}, Begin(file, records), UNCHANGED cmd, Full,
             CvesOf(records) = SelectedCves,
             file \in {"nvd", "commits"} => Collected,
             file = "sinks" => \A i \in 1..Len(records) : Resolved(records[i]),
             file = "rejected" => \A i \in 1..Len(records) : ExtractedWith(diffs, records[i])
      PROVE  Accounted'
  <2>1. /\ pc' = file /\ saving' = FALSE /\ at' = 1 /\ records' = records
        /\ kept' = <<>> /\ dropped' = <<>> /\ diffs' = diffs
    BY <1>1, <1>4 DEF Begin
  <2>2. Len(records) \in Nat /\ \A i \in 1..Len(records) : ~(i < 1)
    BY DEF CollectionTyped
  <2>3. CvesOf(records)' = SelectedCves /\ (file \in {"nvd", "commits"} => Collected')
    BY <1>4, <2>1 DEF Collected
  <2>4. InLoop'
    BY <2>1, <2>2 DEF InLoop
  <2>5. file = "commits" => Resolving'
    BY <1>4, <2>1, <2>2 DEF Resolving, Collected
  <2>6. file = "sinks" => Extracting'
    BY <1>4, <2>1, <2>2 DEF Extracting
  <2>7. file = "rejected" => Filtering'
    <3>1. CvesOf(kept)' = {} /\ CvesOf(dropped)' = {} /\ CvesUpTo(records, at - 1)' = {}
      BY <2>1 DEF CvesOf, CvesUpTo
    <3>2. Len(kept') = 0 /\ Len(dropped') = 0
      BY <2>1
    <3> QED
      BY <1>4, <2>1, <3>1, <3>2 DEF Filtering
  <2> QED
    BY <1>4, <2>1, <2>3, <2>4, <2>5, <2>6, <2>7 DEF Accounted
<1>5. CASE cmd.phase = 0 /\ UNCHANGED cmd /\ cmd.resume
  BY <1>5, NotAccounted DEF Full
<1>6. CASE pc \in {"ghsa", "nvd", "commits", "sinks"} /\ Full /\ UNCHANGED cmd
           /\ \E file : Begin(file, records) /\ <<pc, file>> \in {<<"ghsa", "nvd">>, <<"nvd", "commits">>,
                                                                 <<"commits", "sinks">>, <<"sinks", "rejected">>}
  <2>1. PICK file : Begin(file, records) /\ <<pc, file>> \in {<<"ghsa", "nvd">>, <<"nvd", "commits">>,
                                                             <<"commits", "sinks">>, <<"sinks", "rejected">>}
    BY <1>6
  <2>2. \/ pc = "ghsa" /\ file = "nvd"
        \/ pc = "nvd" /\ file = "commits"
        \/ pc = "commits" /\ file = "sinks"
        \/ pc = "sinks" /\ file = "rejected"
    BY <2>1
  <2>3. Len(records) \in Nat
    BY DEF CollectionTyped
  <2>4. CvesOf(records) = SelectedCves /\ (pc \in {"ghsa", "nvd"} => Collected)
    BY <1>1, <1>6 DEF Accounted
  <2>5. pc = "commits" => \A i \in 1..Len(records) : Resolved(records[i])
    <3>1. pc = "commits" => Resolving /\ at = Len(records) + 1
      BY <1>1, <1>6 DEF Accounted, InLoop
    <3> QED
      BY <2>3, <3>1 DEF Resolving
  <2>6. pc = "sinks" => \A i \in 1..Len(records) : ExtractedWith(diffs, records[i])
    <3>1. pc = "sinks" => Extracting /\ at = Len(records) + 1
      BY <1>1, <1>6 DEF Accounted, InLoop
    <3> QED
      BY <2>3, <3>1 DEF Extracting
  <2> QED
    BY <1>4, <1>6, <2>1, <2>2, <2>4, <2>5, <2>6
<1>7. CASE pc = "accepted" /\ Begin("metadata", kept)
  <2>1. pc' = "metadata"
    BY <1>7 DEF Begin
  <2> QED
    BY <2>1, NotAccounted
<1> QED
  BY <1>1, <1>2, <1>3, <1>5, <1>6, <1>7 DEF GoOn, Full

LEMMA StepAccounted ==
    ASSUME CollectionTyped, EntriesSingle, Accounted, [Next]_vars PROVE Accounted'
<1>1. CASE CollectionNext
  <2>1. CASE KilledWorking \/ KilledSaving
    BY <2>1, NotAccounted DEF KilledWorking, KilledSaving, Exit
  <2>2. CASE Sample
    BY <2>2, NotAccounted DEF Sample, Working, Save
  <2> QED
    BY <1>1, <2>1, <2>2, StartCollectionAccounted, ResumeAccounted, CollectGhsaAccounted, EnrichNvdAccounted,
       ResolveCommitAccounted, ExtractSinkAccounted, LoopDoneAccounted, FilterRecordAccounted,
       SaveRowsAccounted DEF CollectionNext
<1>2. CASE SupplementNext
  <2>1. pc' \in {"idle", "supplement", "merge"}
    BY <1>2 DEF SupplementNext, StartSupplement, EnrichRecord, DedupSupplement, SaveSupplement,
       MergeIntoDataset, KilledMerging, Exit, Begin, Working, Save
  <2> QED
    BY <2>1, NotAccounted
<1>3. CASE UNCHANGED <<disk, diffs, pc, saving, memory>>
  <2>1. /\ Full' = Full /\ CvesOf(records)' = CvesOf(records) /\ InLoop' = InLoop
        /\ Collected' = Collected /\ Resolving' = Resolving /\ Extracting' = Extracting
    BY <1>3 DEF memory, Full, InLoop, Collected, Resolving, Extracting
  <2>2. Filtering' = Filtering
    BY <1>3 DEF Filtering, Located, Truthful, memory
  <2> QED
    BY <1>3, <2>1, <2>2 DEF Accounted
<1> QED
  BY <1>1, <1>2, <1>3 DEF Next, Sweeping, vars, collectionVars

\* A collection from the beginning ends with every selected CVE accepted, with its diff on
\* disk, or rejected for a reason that is true, whatever queries failed on the way and
\* whatever is on disk already (collect_cwe78_dataset.py, phases 1 to 5).
THEOREM EveryAdvisoryAccounted == Spec => []AdvisoriesAccounted
<1>1. CollectionTyped /\ Accounted => AdvisoriesAccounted
  <2> SUFFICES ASSUME CollectionTyped, Accounted, pc = "accepted", cmd.phase = 0, ~cmd.resume
               PROVE  /\ SelectedCves = CvesOf(kept) \cup CvesOf(dropped)
                      /\ CvesOf(kept) \cap CvesOf(dropped) = {}
                      /\ \A i \in 1..Len(kept) : Located(kept[i])
                      /\ \A i \in 1..Len(dropped) : Truthful(dropped[i])
    BY DEF AdvisoriesAccounted, SelectedCves
  <2>1. Filtering /\ CvesOf(records) = SelectedCves /\ at = Len(records) + 1
    BY DEF Accounted, Full, InLoop
  <2>2. at - 1 = Len(records)
    BY <2>1 DEF CollectionTyped
  <2>3. CvesUpTo(records, at - 1) = CvesOf(records)
    BY <2>2 DEF CvesUpTo, CvesOf
  <2> QED
    BY <2>1, <2>3 DEF Filtering
<1> QED
  BY <1>1, InitAccounted, StepAccounted, InitSingle, StepSingle, FilesTyped, PTL DEF Spec

-----------------------------------------------------------------------------
(* The sample and the checkpoint it is drawn from. *)

\* Phase 6 works on the latest checkpoint.
FromLatest ==
    pc = "metadata" =>
        /\ Existing # {}
        /\ IF saving THEN Stratified(records, Rows(LatestCheckpoint)) ELSE records = Rows(LatestCheckpoint)

LEMMA AcceptedIsLatest ==
    ASSUME NEW E \in SUBSET (1..Len(Checkpoints)), 1 \in E
    PROVE  Checkpoints[CHOOSE i \in E : \A j \in E : i <= j] = "accepted"
<1>1. E \in SUBSET Nat
  BY DEF Checkpoints
<1> PICK first : first = CHOOSE i \in E : \A j \in E : i <= j
  OBVIOUS
<1>2. \E i \in E : \A j \in E : i <= j
  BY <1>1, LeastElement
<1>3. first \in E /\ first <= 1 /\ first \in 1..Len(Checkpoints)
  BY <1>2
<1>4. first = 1
  BY <1>3 DEF Checkpoints
<1>5. Checkpoints[1] = "accepted"
  BY DEF Checkpoints
<1> QED
  BY <1>4, <1>5

LEMMA StepFromLatest ==
    ASSUME CollectionTyped, FromLatest, [Next]_vars PROVE FromLatest'
<1>1. CASE pc' # "metadata"
  BY <1>1 DEF FromLatest
<1>2. CASE pc' = "metadata" /\ StartCollection
  <2>1. PICK phase \in 0..6 :
          IF phase <= 1 THEN Begin("ghsa", <<>>)
          ELSE Existing # {} /\ Readable(LatestCheckpoint) /\ Begin(Phases[phase], Rows(LatestCheckpoint))
    BY <1>2 DEF StartCollection
  <2>2. Existing # {} /\ records' = Rows(LatestCheckpoint) /\ saving' = FALSE
    BY <1>2, <2>1 DEF Begin
  <2>3. UNCHANGED disk
    BY <1>2 DEF StartCollection
  <2>4. Existing' = Existing /\ LatestCheckpoint' = LatestCheckpoint
    BY <2>3 DEF Existing, LatestCheckpoint
  <2>5. Rows(LatestCheckpoint)' = Rows(LatestCheckpoint)
    BY <2>3, <2>4 DEF Rows
  <2> QED
    BY <2>2, <2>4, <2>5 DEF FromLatest
<1>3. CASE pc' = "metadata" /\ Sample
  <2>1. pc = "metadata" /\ saving = FALSE /\ UNCHANGED disk /\ saving' = TRUE
    BY <1>3 DEF Sample, Working, Save
  <2>2. Stratified(records', records)
    BY <1>3, SampleShape DEF SampledFrom
  <2>3. Existing # {} /\ records = Rows(LatestCheckpoint)
    BY <2>1 DEF FromLatest
  <2>4. Existing' = Existing /\ LatestCheckpoint' = LatestCheckpoint
    BY <2>1 DEF Existing, LatestCheckpoint
  <2>5. Rows(LatestCheckpoint)' = Rows(LatestCheckpoint)
    BY <2>1, <2>4 DEF Rows
  <2>6. Stratified(records, Rows(LatestCheckpoint))'
    <3> PICK pool : pool = records
      OBVIOUS
    <3>1. Rows(LatestCheckpoint)' = pool
      BY <2>3, <2>5
    <3>2. Stratified(records, pool)'
      BY <2>2 DEF Stratified, CvesOf, InBin, Reserved
    <3> QED
      BY <3>1, <3>2 DEF Stratified
  <2> QED
    BY <2>1, <2>3, <2>4, <2>6 DEF FromLatest
<1>4. CASE pc' = "metadata" /\ SaveRows
  <2>1. pc = "accepted" /\ Begin("metadata", kept)
    BY <1>4 DEF SaveRows, GoOn, Exit, Begin
  <2>2. saving' = FALSE /\ records' = kept /\ disk' = [disk EXCEPT !["accepted"] = Written(kept)]
    BY <1>4, <2>1 DEF SaveRows, Begin, Content
  <2>3. disk'["accepted"] = Written(kept)
    BY <2>2 DEF CollectionTyped, File
  <2>4. 1 \in Existing' /\ Existing' \in SUBSET (1..Len(Checkpoints))
    BY <2>3 DEF Existing, Checkpoints, Written
  <2>5. LatestCheckpoint' = "accepted"
    BY <2>4, AcceptedIsLatest DEF LatestCheckpoint
  <2>6. Rows(LatestCheckpoint)' = kept
    BY <2>3, <2>5 DEF Rows, Written
  <2> QED
    BY <2>2, <2>4, <2>6 DEF FromLatest
<1>5. CASE pc' = "metadata" /\ UNCHANGED <<disk, pc, saving, records>>
  <2>1. Existing' = Existing /\ LatestCheckpoint' = LatestCheckpoint
    BY <1>5 DEF Existing, LatestCheckpoint
  <2>2. Rows(LatestCheckpoint)' = Rows(LatestCheckpoint)
    BY <1>5, <2>1 DEF Rows
  <2>3. Stratified(records, Rows(LatestCheckpoint))' = Stratified(records, Rows(LatestCheckpoint))
    BY <1>5, <2>2 DEF Stratified, CvesOf, InBin, Reserved
  <2> QED
    BY <1>5, <2>1, <2>2, <2>3 DEF FromLatest
<1>6. ASSUME pc' = "metadata", CollectionNext PROVE StartCollection \/ Sample \/ SaveRows
  BY <1>6 DEF CollectionNext, KilledWorking, KilledSaving, Exit, Resume, Begin, CollectGhsa, EnrichNvd,
     ResolveCommit, ExtractSink, LoopDone, FilterRecord, Working, Save
<1>7. ASSUME SupplementNext PROVE pc' # "metadata"
  BY <1>7 DEF SupplementNext, StartSupplement, EnrichRecord, DedupSupplement, SaveSupplement,
     MergeIntoDataset, KilledMerging, Exit, Begin, Working, Save
<1>8. \/ CollectionNext \/ SupplementNext \/ UNCHANGED <<disk, pc, saving, records>>
  BY DEF Next, Sweeping, vars, collectionVars, memory
<1> QED
  BY <1>1, <1>2, <1>3, <1>4, <1>5, <1>6, <1>7, <1>8

\* The sample of phase 6 has the size asked for and its share of every bin, whatever the
\* checkpoint, the bins, the shuffle and the needs (collect_cwe78_dataset.py,
\* phase6_stratified_sample).
THEOREM SamplesStayStratified == Spec => []SampleIsStratified
<1>1. Init => FromLatest
  BY DEF Init, CollectionInit, FromLatest
<1>2. FromLatest => SampleIsStratified
  BY DEF FromLatest, Stratified, SampleIsStratified
<1> QED
  BY <1>1, <1>2, StepFromLatest, FilesTyped, PTL DEF Spec
=============================================================================

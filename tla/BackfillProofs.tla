--------------------------- MODULE BackfillProofs ---------------------------
(***************************************************************************)
(* Proofs about Backfill, for every set of statements, pairs, plans and    *)
(* starts: what is marked embedded has its vector, corrections are backed  *)
(* up before they are wiped and come back after, dismissals are kept, and  *)
(* no statement is lost.                                                   *)
(***************************************************************************)
EXTENDS Backfill, FiniteSetTheorems, WellFoundedInduction, TLAPS

USE BackfillAssumption

----------------------------------------------------------------------------
(* Tables                                                                  *)

\* A row, whatever its category: that it is one of the user's takes an invariant
\* of its own (CategoryInv).
IsRow(r) ==
    \E c : r \in [converted : BOOLEAN, text : Text, category : {c}, manual : BOOLEAN, embedded : BOOLEAN]

IsTable(f) == f = [h \in Hash |-> f[h]] /\ \A h \in Hash : f[h] = NoRow \/ IsRow(f[h])

Steps == {"idle", "planned", "confirming", "wiped", "recreated", "starting", "reingesting"}

Tables ==
    /\ IsTable(statements)
    /\ pairs \in [Duplicate -> PairStatus]
    /\ known \in [Hash -> Hash \cup {NoHash}]

Saved ==
    /\ IsTable(backup.statements)
    /\ backup.pairs \in [Duplicate -> PairStatus]
    /\ backup.known \in [Hash -> Hash \cup {NoHash}]

Others ==
    /\ vectors \in [exists : BOOLEAN, points : SUBSET (Hash \X BOOLEAN)]
    /\ tool \in [step : Steps, wipe : SUBSET Hash, skips : SUBSET (Hash \X Hash)]
    /\ late \in [corrected : SUBSET Hash, dismissed : SUBSET Duplicate]

Types == Tables /\ Saved /\ Others

\* A row is not the absence of one.
LEMMA RowIsThere == \A r : IsRow(r) => r # NoRow
  <1>1. SUFFICES ASSUME NEW c, NEW r \in [converted : BOOLEAN, text : Text, category : {c}, manual : BOOLEAN, embedded : BOOLEAN]
                 PROVE  r # NoRow
    BY DEF IsRow
  <1>2. DOMAIN r = {"converted", "text", "category", "manual", "embedded"}
    OBVIOUS
  <1>3. DOMAIN NoRow = {"absent"}
    BY DEF NoRow
  <1>. QED  BY <1>2, <1>3

\* The fields of a row after each kind of update.
LEMMA RowEmbedded ==
  ASSUME NEW r, IsRow(r), NEW b \in BOOLEAN
  PROVE  /\ IsRow([r EXCEPT !.embedded = b])
         /\ [r EXCEPT !.embedded = b].embedded = b
         /\ [r EXCEPT !.embedded = b].converted = r.converted
         /\ [r EXCEPT !.embedded = b].manual = r.manual
  BY DEF IsRow

LEMMA RowCorrected ==
  ASSUME NEW r, IsRow(r), NEW c
  PROVE  /\ IsRow([r EXCEPT !.category = c, !.manual = TRUE])
         /\ [r EXCEPT !.category = c, !.manual = TRUE].embedded = r.embedded
         /\ [r EXCEPT !.category = c, !.manual = TRUE].converted = r.converted
  <1>1. PICK d : r \in [converted : BOOLEAN, text : Text, category : {d}, manual : BOOLEAN, embedded : BOOLEAN]
    BY DEF IsRow
  <1>2. [r EXCEPT !.category = c, !.manual = TRUE] \in [converted : BOOLEAN, text : Text, category : {c}, manual : BOOLEAN, embedded : BOOLEAN]
    BY <1>1
  <1>. QED  BY <1>1, <1>2 DEF IsRow

\* Corrections put back on a row change its category, if anything.
LEMMA AppliedToOne ==
  ASSUME NEW r, NEW cs
  PROVE  \/ Applied(<<r>>, cs)[1] = r
         \/ \E x : Applied(<<r>>, cs)[1] = [r EXCEPT !.category = x, !.manual = TRUE]
  <1>1. 1 \in DOMAIN <<r>> /\ <<r>>[1] = r
    OBVIOUS
  <1>2. \/ Applied(<<r>>, cs)[1] = <<r>>[1]
        \/ \E x : Applied(<<r>>, cs)[1] = Place(<<r>>[1], x)
    BY <1>1 DEF Applied
  <1>. QED  BY <1>1, <1>2 DEF Place

LEMMA PutBack ==
  ASSUME NEW r, IsRow(r), NEW cs
  PROVE  /\ IsRow(Applied(<<r>>, cs)[1])
         /\ Applied(<<r>>, cs)[1].embedded = r.embedded
         /\ Applied(<<r>>, cs)[1].converted = r.converted
  <1>. DEFINE q == Applied(<<r>>, cs)[1]
  <1>1. q = r \/ \E x : q = [r EXCEPT !.category = x, !.manual = TRUE]
    BY AppliedToOne
  <1>. SUFFICES IsRow(q) /\ q.embedded = r.embedded /\ q.converted = r.converted
    OBVIOUS
  <1>. HIDE DEF q
  <1>2. CASE q = r
    BY <1>2
  <1>3. ASSUME NEW x, q = [r EXCEPT !.category = x, !.manual = TRUE]
        PROVE  IsRow(q) /\ q.embedded = r.embedded /\ q.converted = r.converted
    BY <1>3, RowCorrected
  <1>. QED  BY <1>1, <1>2, <1>3

\* What an entry of a table is, and a table with one entry changed.
LEMMA EntryOfTable ==
  ASSUME NEW f, IsTable(f), NEW h \in Hash, f[h] # NoRow
  PROVE  IsRow(f[h])
  BY DEF IsTable

LEMMA TableOf ==
  ASSUME NEW f, DOMAIN f = Hash, f = [h \in Hash |-> f[h]],
         \A h \in Hash : f[h] = NoRow \/ IsRow(f[h])
  PROVE  IsTable(f)
  BY DEF IsTable

----------------------------------------------------------------------------
(* What the actions do to the table of statements.                         *)

\* Rows that stay: none appears or goes, and what was read stays.
SameRows ==
    \A h \in Hash :
        /\ statements[h] = NoRow => statements'[h] = NoRow
        /\ statements[h] # NoRow =>
              IsRow(statements'[h]) /\ statements'[h].converted = statements[h].converted

LEMMA EmbedBatchRows ==
  ASSUME Types, EmbedBatch
  PROVE  SameRows /\ IsTable(statements')
  <1>1. IsTable(statements) /\ DOMAIN statements' = Hash
    BY DEF Types, Tables, EmbedBatch
  <1>2. statements' = [h \in Hash |-> statements'[h]]
    BY DEF EmbedBatch
  <1>3. \A h \in Hash : statements'[h] = IF h \in Held THEN [statements[h] EXCEPT !.embedded = TRUE] ELSE NoRow
    BY DEF EmbedBatch
  <1>4. SameRows
    <2>. SUFFICES ASSUME NEW h \in Hash, statements[h] # NoRow
                  PROVE  IsRow(statements'[h]) /\ statements'[h].converted = statements[h].converted
      BY <1>3 DEF SameRows, Held
    <2>1. IsRow(statements[h]) /\ h \in Held
      BY <1>1, EntryOfTable DEF Held
    <2>2. statements'[h] = [statements[h] EXCEPT !.embedded = TRUE]
      BY <1>3, <2>1
    <2>. QED  BY <2>1, <2>2, RowEmbedded
  <1>5. \A h \in Hash : statements'[h] = NoRow \/ IsRow(statements'[h])
    BY <1>4 DEF SameRows
  <1>. QED  BY <1>1, <1>2, <1>4, <1>5, TableOf

LEMMA ResetEmbeddingsRows ==
  ASSUME Types, ResetEmbeddings
  PROVE  /\ SameRows /\ IsTable(statements')
         /\ \A h \in Held : statements'[h].embedded = FALSE
  <1>1. IsTable(statements) /\ DOMAIN statements' = Hash
    BY DEF Types, Tables, ResetEmbeddings
  <1>2. statements' = [h \in Hash |-> statements'[h]]
    BY DEF ResetEmbeddings
  <1>3. \A h \in Hash : statements'[h] = IF h \in Held THEN [statements[h] EXCEPT !.embedded = FALSE] ELSE statements[h]
    BY DEF ResetEmbeddings, ToReembed
  <1>4. ASSUME NEW h \in Hash, statements[h] # NoRow
        PROVE  IsRow(statements'[h]) /\ statements'[h].converted = statements[h].converted /\ statements'[h].embedded = FALSE
    <2>1. IsRow(statements[h]) /\ h \in Held
      BY <1>1, <1>4, EntryOfTable DEF Held
    <2>2. statements'[h] = [statements[h] EXCEPT !.embedded = FALSE]
      BY <1>3, <2>1
    <2>. QED  BY <2>1, <2>2, RowEmbedded
  <1>5. SameRows
    BY <1>3, <1>4 DEF SameRows, Held
  <1>6. \A h \in Hash : statements'[h] = NoRow \/ IsRow(statements'[h])
    BY <1>5 DEF SameRows
  <1>. QED  BY <1>1, <1>2, <1>4, <1>5, <1>6, TableOf DEF Held

LEMMA FinishRows ==
  ASSUME Types, Finish
  PROVE  /\ SameRows /\ IsTable(statements')
         /\ \A h \in Held : statements'[h].embedded = statements[h].embedded
  <1>1. IsTable(statements) /\ DOMAIN statements' = Hash
    BY DEF Types, Tables, Finish
  <1>2. statements' = [h \in Hash |-> statements'[h]]
    BY DEF Finish
  <1>3. \A h \in Hash : statements'[h] = IF h \in Held THEN Applied(<<statements[h]>>, CorrectionsFor(h))[1] ELSE NoRow
    BY DEF Finish
  <1>4. ASSUME NEW h \in Hash, statements[h] # NoRow
        PROVE  IsRow(statements'[h]) /\ statements'[h].converted = statements[h].converted /\ statements'[h].embedded = statements[h].embedded
    <2>1. IsRow(statements[h]) /\ h \in Held
      BY <1>1, <1>4, EntryOfTable DEF Held
    <2>2. statements'[h] = Applied(<<statements[h]>>, CorrectionsFor(h))[1]
      BY <1>3, <2>1
    <2>. QED  BY <2>1, <2>2, PutBack
  <1>5. SameRows
    BY <1>3, <1>4 DEF SameRows, Held
  <1>6. \A h \in Hash : statements'[h] = NoRow \/ IsRow(statements'[h])
    BY <1>5 DEF SameRows
  <1>. QED  BY <1>1, <1>2, <1>4, <1>5, <1>6, TableOf DEF Held

LEMMA CorrectCategoryRows ==
  ASSUME Types, NEW h \in Hash, CorrectCategory(h)
  PROVE  /\ SameRows /\ IsTable(statements')
         /\ \A k \in Held : statements'[k].embedded = statements[k].embedded
         /\ \A k \in Hash \ {h} : statements'[k] = statements[k]
  <1>1. IsTable(statements) /\ h \in Held /\ statements[h] # NoRow
    BY DEF Types, Tables, CorrectCategory, Held
  <1>2. IsRow(statements[h])
    BY <1>1, EntryOfTable
  <1>. DEFINE r == [statements[h] EXCEPT !.category = Edited, !.manual = TRUE]
  <1>3. IsRow(r) /\ r.embedded = statements[h].embedded /\ r.converted = statements[h].converted
    BY <1>2, RowCorrected
  <1>4. statements' = [statements EXCEPT ![h] = r]
    BY <1>1 DEF CorrectCategory, IsTable
  <1>. HIDE DEF r
  <1>5. IsTable(statements') /\ statements'[h] = r /\ \A k \in Hash \ {h} : statements'[k] = statements[k]
    <2>1. statements' = [k \in Hash |-> IF k = h THEN r ELSE statements[k]]
      BY <1>1, <1>4 DEF IsTable
    <2>. QED  BY <1>1, <1>3, <2>1 DEF IsTable
  <1>6. ASSUME NEW k \in Hash, statements[k] # NoRow
        PROVE  IsRow(statements'[k]) /\ statements'[k].converted = statements[k].converted /\ statements'[k].embedded = statements[k].embedded
    BY <1>1, <1>3, <1>5, <1>6, EntryOfTable
  <1>7. SameRows
    BY <1>1, <1>5, <1>6 DEF SameRows
  <1>. QED  BY <1>5, <1>6, <1>7 DEF Held

\* A file that is ingested: one more row, its transaction still to embed.
IngestsFile(h) == IngestFile(h) \/ IngestUnchecked(h)

LEMMA IngestFileRows ==
  ASSUME Types, NEW h \in Hash, IngestsFile(h)
  PROVE  /\ IsTable(statements')
         /\ IsRow(statements'[h]) /\ statements'[h].embedded = FALSE
         /\ \A k \in Hash \ {h} : statements'[k] = statements[k]
  <1>1. IsTable(statements)
    BY DEF Types, Tables
  <1>2. PICK t \in Text :
          statements' = [statements EXCEPT ![h] =
              [converted |-> TRUE, text |-> t, category |-> Automatic, manual |-> FALSE, embedded |-> FALSE]]
    BY DEF IngestsFile, IngestFile, IngestUnchecked, Ingested
  <1>. DEFINE r == [converted |-> TRUE, text |-> t, category |-> Automatic, manual |-> FALSE, embedded |-> FALSE]
  <1>3. IsRow(r) /\ r.embedded = FALSE
    <2>1. r \in [converted : BOOLEAN, text : Text, category : {Automatic}, manual : BOOLEAN, embedded : BOOLEAN]
      OBVIOUS
    <2>. QED  BY <2>1 DEF IsRow
  <1>4. statements' = [statements EXCEPT ![h] = r]
    BY <1>2
  <1>. HIDE DEF r
  <1>5. statements' = [k \in Hash |-> IF k = h THEN r ELSE statements[k]]
    BY <1>1, <1>4 DEF IsTable
  <1>. QED  BY <1>1, <1>3, <1>5 DEF IsTable

LEMMA WipeRows ==
  ASSUME Types, Wipe
  PROVE  /\ IsTable(statements')
         /\ \A h \in tool.wipe : statements'[h] = NoRow
         /\ \A h \in Hash \ tool.wipe : statements'[h] = statements[h]
  <1>1. IsTable(statements) /\ tool.wipe \subseteq Hash
    BY DEF Types, Tables, Others
  <1>2. statements' = [h \in Hash |-> IF h \in tool.wipe THEN NoRow ELSE statements[h]]
    BY DEF Wipe
  <1>. QED  BY <1>1, <1>2 DEF IsTable

LEMMA RestoreRows ==
  ASSUME Types, Restore
  PROVE  /\ IsTable(statements')
         /\ \A h \in Hash : backup.statements[h] = NoRow => statements'[h] = NoRow
         /\ \A h \in Hash : backup.statements[h] # NoRow =>
               IsRow(statements'[h]) /\ statements'[h].embedded = FALSE
  <1>1. IsTable(backup.statements) /\ DOMAIN statements' = Hash
    BY DEF Types, Saved, Restore
  <1>2. statements' = [h \in Hash |-> statements'[h]]
    BY DEF Restore
  <1>3. \A h \in Hash : statements'[h] = IF backup.statements[h] = NoRow THEN NoRow ELSE [backup.statements[h] EXCEPT !.embedded = FALSE]
    BY DEF Restore
  <1>4. ASSUME NEW h \in Hash, backup.statements[h] # NoRow
        PROVE  IsRow(statements'[h]) /\ statements'[h].embedded = FALSE
    <2>. DEFINE f == backup.statements
    <2>1. IsRow(f[h])
      BY <1>1, <1>4, EntryOfTable
    <2>2. statements'[h] = [f[h] EXCEPT !.embedded = FALSE]
      BY <1>3, <1>4
    <2>. HIDE DEF f
    <2>. QED  BY <2>1, <2>2, RowEmbedded
  <1>5. \A h \in Hash : statements'[h] = NoRow \/ IsRow(statements'[h])
    BY <1>3, <1>4
  <1>. QED  BY <1>1, <1>2, <1>3, <1>4, <1>5, TableOf

LEMMA RanksAreNumbers == \A h \in Hash : Rank[h] \in Nat
  <1>1. Cardinality(Hash) \in Nat
    BY FS_CardinalityType
  <1>. QED  BY <1>1

----------------------------------------------------------------------------
(* The plan of the dry run                                                 *)

\* Of the two copies of a finding one is kept and the other skipped, and the
\* one kept is the better: corrected by hand, or else ingested first.
Better(k, h) ==
    \/ statements[k].manual /\ ~statements[h].manual
    \/ statements[k].manual = statements[h].manual /\ Rank[k] < Rank[h]

LEMMA KeptAndSkipped ==
  ASSUME Types, NEW p \in Findings
  PROVE  /\ Kept(p) \in Held /\ Skipped(p) \in Held
         /\ p = {Skipped(p), Kept(p)} /\ Skipped(p) # Kept(p)
         /\ Better(Kept(p), Skipped(p))
  <1>1. PICK a, b \in Hash : a # b /\ p = {a, b} /\ a \in Held /\ b \in Held
    BY DEF Findings
  <1>2. /\ statements[a].manual \in BOOLEAN /\ statements[b].manual \in BOOLEAN
    <2>1. IsRow(statements[a]) /\ IsRow(statements[b])
      BY <1>1, EntryOfTable DEF Types, Tables, Held
    <2>. QED  BY <2>1 DEF IsRow
  <1>3. Rank[a] \in Nat /\ Rank[b] \in Nat /\ Rank[a] # Rank[b]
    BY <1>1, RanksAreNumbers
  <1>. DEFINE Best(k) == \A h \in p :
                  \/ statements[k].manual /\ ~statements[h].manual
                  \/ statements[k].manual = statements[h].manual /\ Rank[k] <= Rank[h]
  <1>4. Best(a) \/ Best(b)
    BY <1>1, <1>2, <1>3
  <1>5. Kept(p) \in p /\ Best(Kept(p))
    BY <1>1, <1>4 DEF Kept
  <1>6. Skipped(p) \in p /\ Skipped(p) # Kept(p)
    BY <1>1, <1>5 DEF Skipped
  <1>7. p = {Skipped(p), Kept(p)} /\ Rank[Skipped(p)] # Rank[Kept(p)]
    BY <1>1, <1>3, <1>5, <1>6
  <1>8. Rank[Skipped(p)] \in Nat /\ Rank[Kept(p)] \in Nat
    BY <1>1, <1>5, <1>6, RanksAreNumbers
  <1>9. Better(Kept(p), Skipped(p))
    BY <1>5, <1>6, <1>7, <1>8 DEF Better
  <1>. QED  BY <1>1, <1>5, <1>6, <1>7, <1>9

\* What the plan skips, and for what.
LEMMA PlannedSkips ==
  ASSUME Types, NEW s \in SkipPlan
  PROVE  /\ s \in Hash \X Hash
         /\ s[1] \in WipeSet /\ s[2] \in Held /\ s[1] # s[2]
         /\ {s[1], s[2]} \in Duplicate /\ pairs[{s[1], s[2]}] # "dismissed"
         /\ Better(s[2], s[1])
  <1>1. PICK p \in Findings : Plannable(p) /\ s = <<Skipped(p), Kept(p)>>
    BY DEF SkipPlan
  <1>2. /\ Kept(p) \in Held /\ Skipped(p) \in Held
        /\ p = {Skipped(p), Kept(p)} /\ Skipped(p) # Kept(p)
        /\ Better(Kept(p), Skipped(p))
    BY KeptAndSkipped
  <1>3. p \in Duplicate /\ pairs[p] # "dismissed" /\ Skipped(p) \in WipeSet
    BY <1>1 DEF Plannable
  <1>4. s[1] = Skipped(p) /\ s[2] = Kept(p)
    BY <1>1
  <1>. QED  BY <1>1, <1>2, <1>3, <1>4 DEF Held

----------------------------------------------------------------------------
(* Types                                                                   *)

LEMMA TypesInit == Init => Types
  <1>. SUFFICES ASSUME Init PROVE Types
    OBVIOUS
  <1>1. PICK s \in Start : Begin(s)
    BY DEF Init
  <1>2. ASSUME NEW h \in Hash  PROVE IsRow(statements[h])
    <2>1. statements[h] = [converted |-> h \in s.converted, text |-> Stored, manual |-> h \in s.corrected,
                         category |-> IF h \in s.corrected THEN Rank[h] ELSE Automatic, embedded |-> TRUE]
      BY <1>1 DEF Begin
    <2>2. statements[h] \in [converted : BOOLEAN, text : Text, category : {IF h \in s.corrected THEN Rank[h] ELSE Automatic},
                             manual : BOOLEAN, embedded : BOOLEAN]
      BY <2>1
    <2>. QED  BY <2>2 DEF IsRow
  <1>3. DOMAIN statements = Hash /\ statements = [h \in Hash |-> statements[h]]
    BY <1>1 DEF Begin
  <1>4. IsTable(statements)
    BY <1>2, <1>3, TableOf
  <1>5. pairs \in [Duplicate -> PairStatus] /\ known \in [Hash -> Hash \cup {NoHash}]
    BY <1>1 DEF Begin, PairStatus
  <1>6. Saved
    BY <1>4, <1>5 DEF Saved, Init, NoBackup
  <1>7. vectors \in [exists : BOOLEAN, points : SUBSET (Hash \X BOOLEAN)]
    <2>. DEFINE conv(h) == h \in s.converted
                points == {<<h, conv(h)>> : h \in Hash}
    <2>1. \A h \in Hash : conv(h) \in BOOLEAN
      OBVIOUS
    <2>2. points \subseteq Hash \X BOOLEAN
      <3>. HIDE DEF conv
      <3>. QED  BY <2>1
    <2>3. vectors = [exists |-> TRUE, points |-> points]
      BY <1>1 DEF Begin
    <2>. HIDE DEF points
    <2>. QED  BY <2>2, <2>3
  <1>8. Others
    BY <1>7 DEF Others, Init, Resting, Steps, NotLate
  <1>. QED  BY <1>4, <1>5, <1>6, <1>8 DEF Types, Tables

\* Which actions change which tables.
LEMMA StatementsStay ==
  ASSUME Next \/ UNCHANGED vars,
         ~EmbedBatch, ~ResetEmbeddings, ~Finish, ~Wipe, ~Restore,
         \A h \in Hash : ~CorrectCategory(h) /\ ~IngestsFile(h)
  PROVE  statements' = statements
  BY DEF IngestsFile, Next, Service, File, Run, User, vars, StartService, StopService, ClaimRun, RunJobs, SkipFile,
         SkipProbableDuplicate, FailFile, CompleteRun, DryRun, DryRunOfNothing, BackUp, Refuse,
         RecreateCollection, RecreationFails, StartReingest, StartRefused, Crash, DismissPair, TriggerRun

LEMMA KnownStays ==
  ASSUME Next \/ UNCHANGED vars, ~Wipe, ~Restore,
         \A h \in Hash : ~SkipProbableDuplicate(h)
  PROVE  known' = known
  BY DEF Next, Service, File, Run, User, vars, StartService, StopService, ClaimRun, RunJobs, EmbedBatch, SkipFile,
         IngestFile, IngestUnchecked, FailFile, CompleteRun, DryRun, DryRunOfNothing, BackUp, Refuse,
         RecreateCollection, RecreationFails, ResetEmbeddings, StartReingest, StartRefused, Crash, Finish,
         CorrectCategory, DismissPair, TriggerRun

LEMMA PairsStay ==
  ASSUME Next \/ UNCHANGED vars, ~Wipe, ~Restore,
         \A p \in Duplicate : ~DismissPair(p)
  PROVE  pairs' = pairs
  BY DEF Next, Service, File, Run, User, vars, StartService, StopService, ClaimRun, RunJobs, EmbedBatch, SkipFile,
         SkipProbableDuplicate, IngestFile, IngestUnchecked, FailFile, CompleteRun, DryRun, DryRunOfNothing, BackUp, Refuse,
         RecreateCollection, RecreationFails, ResetEmbeddings, StartReingest, StartRefused, Crash, Finish,
         CorrectCategory, TriggerRun

LEMMA BackupStays ==
  ASSUME Next \/ UNCHANGED vars, ~BackUp
  PROVE  backup' = backup
  BY DEF Next, Service, File, Run, User, vars, StartService, StopService, ClaimRun, RunJobs, EmbedBatch, SkipFile,
         SkipProbableDuplicate, IngestFile, IngestUnchecked, FailFile, CompleteRun, DryRun, DryRunOfNothing, Refuse, Wipe,
         RecreateCollection, RecreationFails, ResetEmbeddings, StartReingest, StartRefused, Crash, Finish, Restore,
         CorrectCategory, DismissPair, TriggerRun

LEMMA DriveStays ==
  ASSUME Next \/ UNCHANGED vars
  PROVE  drive' = drive
  BY DEF Next, Service, File, Run, User, vars, StartService, StopService, ClaimRun, RunJobs, EmbedBatch, SkipFile,
         SkipProbableDuplicate, IngestFile, IngestUnchecked, FailFile, CompleteRun, DryRun, DryRunOfNothing, BackUp,
         Refuse, Wipe,
         RecreateCollection, RecreationFails, ResetEmbeddings, StartReingest, StartRefused, Crash, Finish, Restore,
         CorrectCategory, DismissPair, TriggerRun

LEMMA VectorsStay ==
  ASSUME Next \/ UNCHANGED vars,
         ~StartService, ~EmbedBatch, ~RecreateCollection, ~RecreationFails, ~Restore
  PROVE  vectors' = vectors
  BY DEF Next, Service, File, Run, User, vars, StopService, ClaimRun, RunJobs, SkipFile,
         SkipProbableDuplicate, IngestFile, IngestUnchecked, FailFile, CompleteRun, DryRun, DryRunOfNothing, BackUp,
         Refuse, Wipe,
         ResetEmbeddings, StartReingest, StartRefused, Crash, Finish, CorrectCategory, DismissPair, TriggerRun

LEMMA LateStays ==
  ASSUME Next \/ UNCHANGED vars, ~DryRun, ~BackUp,
         \A h \in Hash : ~CorrectCategory(h), \A p \in Duplicate : ~DismissPair(p)
  PROVE  late' = late
  BY DEF Next, Service, File, Run, User, vars, StartService, StopService, ClaimRun, RunJobs, EmbedBatch, SkipFile,
         SkipProbableDuplicate, IngestFile, IngestUnchecked, FailFile, CompleteRun, DryRunOfNothing, Refuse, Wipe,
         RecreateCollection, RecreationFails, ResetEmbeddings, StartReingest, StartRefused, Crash, Finish, Restore,
         TriggerRun

\* The step of the tool: from which to which.
LEMMA ToolStays ==
  ASSUME Next \/ UNCHANGED vars, ~Run, ~CompleteRun
  PROVE  tool' = tool
  BY DEF Next, Service, File, User, vars, StartService, StopService, ClaimRun, RunJobs, EmbedBatch, SkipFile,
         SkipProbableDuplicate, IngestFile, IngestUnchecked, FailFile, Finish, Restore, CorrectCategory, DismissPair, TriggerRun

LEMMA TypesNext ==
  ASSUME Types, Next \/ UNCHANGED vars
  PROVE  Types'
  <1>1. IsTable(statements')
    <2>1. CASE EmbedBatch \/ ResetEmbeddings \/ Finish \/ Wipe \/ Restore
      BY <2>1, EmbedBatchRows, ResetEmbeddingsRows, FinishRows, WipeRows, RestoreRows
    <2>2. ASSUME NEW h \in Hash, CorrectCategory(h) \/ IngestsFile(h)
          PROVE  IsTable(statements')
      BY <2>2, CorrectCategoryRows, IngestFileRows
    <2>3. CASE statements' = statements
      BY <2>3 DEF Types, Tables
    <2>. QED  BY <2>1, <2>2, <2>3, StatementsStay
  <1>2. pairs' \in [Duplicate -> PairStatus]
    <2>1. CASE Wipe
      BY <2>1 DEF Wipe, Types, Tables, PairStatus
    <2>2. CASE Restore
      BY <2>2 DEF Restore, Types, Saved
    <2>3. ASSUME NEW p \in Duplicate, DismissPair(p)
          PROVE  pairs' \in [Duplicate -> PairStatus]
      BY <2>3 DEF DismissPair, Types, Tables, PairStatus
    <2>4. CASE pairs' = pairs
      BY <2>4 DEF Types, Tables
    <2>. QED  BY <2>1, <2>2, <2>3, <2>4, PairsStay
  <1>3. known' \in [Hash -> Hash \cup {NoHash}]
    <2>1. CASE Wipe
      <3>1. \A h \in Registered : KeptFor(h) \in Hash
        <4>1. ASSUME NEW h \in Registered PROVE KeptFor(h) \in Hash
          <5>1. \E s \in tool.skips : s[1] = h
            BY DEF Registered
          <5>2. (CHOOSE s \in tool.skips : s[1] = h) \in tool.skips
            BY <5>1
          <5>. QED  BY <5>2 DEF KeptFor, Types, Others
        <4>. QED  BY <4>1
      <3>2. known' = [h \in Hash |-> IF h \in Registered /\ known[h] = NoHash THEN KeptFor(h) ELSE known[h]]
        BY <2>1 DEF Wipe
      <3>. QED  BY <3>1, <3>2 DEF Types, Tables
    <2>2. CASE Restore
      BY <2>2 DEF Restore, Types, Saved
    <2>3. ASSUME NEW h \in Hash, SkipProbableDuplicate(h)
          PROVE  known' \in [Hash -> Hash \cup {NoHash}]
      BY <2>3 DEF SkipProbableDuplicate, Matches, Held, Types, Tables
    <2>4. CASE known' = known
      BY <2>4 DEF Types, Tables
    <2>. QED  BY <2>1, <2>2, <2>3, <2>4, KnownStays
  <1>4. Saved'
    <2>1. CASE BackUp
      <3>1. /\ backup'.statements = statements /\ backup'.pairs = pairs /\ backup'.known = known
        BY <2>1 DEF BackUp
      <3>. QED  BY <3>1 DEF Types, Tables, Saved
    <2>2. CASE backup' = backup
      BY <2>2 DEF Types, Saved
    <2>. QED  BY <2>1, <2>2, BackupStays
  <1>5. vectors' \in [exists : BOOLEAN, points : SUBSET (Hash \X BOOLEAN)]
    <2>1. CASE StartService
      BY <2>1 DEF StartService, Types, Others
    <2>2. CASE EmbedBatch
      <3>. DEFINE more == {<<h, statements[h].converted>> : h \in Held}
      <3>1. \A h \in Held : statements[h].converted \in BOOLEAN
        BY EntryOfTable DEF Types, Tables, Held, IsRow
      <3>2. more \subseteq Hash \X BOOLEAN
        BY <3>1 DEF Held
      <3>3. vectors' = [vectors EXCEPT !.points = vectors.points \cup more]
        BY <2>2 DEF EmbedBatch
      <3>. HIDE DEF more
      <3>. QED  BY <3>2, <3>3 DEF Types, Others
    <2>3. CASE RecreateCollection \/ RecreationFails \/ Restore
      <3>1. vectors' \in {EmptyCollection, vectors, [exists |-> FALSE, points |-> {}]}
        BY <2>3 DEF RecreateCollection, RecreationFails, Restore
      <3>2. \A b \in BOOLEAN : [exists |-> b, points |-> {}] \in [exists : BOOLEAN, points : SUBSET (Hash \X BOOLEAN)]
        OBVIOUS
      <3>3. vectors \in [exists : BOOLEAN, points : SUBSET (Hash \X BOOLEAN)]
        BY DEF Types, Others
      <3>4. EmptyCollection \in [exists : BOOLEAN, points : SUBSET (Hash \X BOOLEAN)]
        BY <3>2 DEF EmptyCollection
      <3>5. [exists |-> FALSE, points |-> {}] \in [exists : BOOLEAN, points : SUBSET (Hash \X BOOLEAN)]
        BY <3>2
      <3>. QED  BY <3>1, <3>3, <3>4, <3>5
    <2>4. CASE vectors' = vectors
      BY <2>4 DEF Types, Others
    <2>. QED  BY <2>1, <2>2, <2>3, <2>4, VectorsStay
  <1>6. late' \in [corrected : SUBSET Hash, dismissed : SUBSET Duplicate]
    <2>1. CASE DryRun \/ BackUp
      BY <2>1 DEF DryRun, BackUp, NotLate, Types, Others
    <2>2. ASSUME NEW h \in Hash, CorrectCategory(h)
          PROVE  late' \in [corrected : SUBSET Hash, dismissed : SUBSET Duplicate]
      BY <2>2 DEF CorrectCategory, Types, Others
    <2>3. ASSUME NEW p \in Duplicate, DismissPair(p)
          PROVE  late' \in [corrected : SUBSET Hash, dismissed : SUBSET Duplicate]
      BY <2>3 DEF DismissPair, Types, Others
    <2>4. CASE late' = late
      BY <2>4 DEF Types, Others
    <2>. QED  BY <2>1, <2>2, <2>3, <2>4, LateStays
  <1>7. tool' \in [step : Steps, wipe : SUBSET Hash, skips : SUBSET (Hash \X Hash)]
    <2>1. CASE DryRun
      <3>1. WipeSet \subseteq Hash /\ SkipPlan \subseteq Hash \X Hash
        BY PlannedSkips DEF WipeSet, Held
      <3>2. tool' = [step |-> "planned", wipe |-> WipeSet, skips |-> SkipPlan]
        BY <2>1 DEF DryRun
      <3>. QED  BY <3>1, <3>2 DEF Steps
    <2>2. CASE CompleteRun
      BY <2>2 DEF CompleteRun, Resting, Types, Others, Steps
    <2>3. CASE DryRunOfNothing \/ BackUp \/ Refuse \/ Wipe \/ RecreateCollection
      BY <2>3 DEF DryRunOfNothing, BackUp, Refuse, Wipe, RecreateCollection, Resting, Types, Others, Steps
    <2>4. CASE RecreationFails \/ ResetEmbeddings \/ StartReingest \/ StartRefused \/ Crash
      BY <2>4 DEF RecreationFails, ResetEmbeddings, StartReingest, StartRefused, Crash, Resting, Types, Others, Steps
    <2>5. CASE tool' = tool
      BY <2>5 DEF Types, Others
    <2>. QED  BY <2>1, <2>2, <2>3, <2>4, <2>5, ToolStays DEF Run
  <1>8. Tables'
    BY <1>1, <1>2, <1>3 DEF Tables
  <1>9. Others'
    BY <1>5, <1>6, <1>7 DEF Others
  <1>. QED  BY <1>4, <1>8, <1>9 DEF Types

----------------------------------------------------------------------------
(* Embedded is embedded                                                    *)

InWipe == {"wiped", "recreated"}

\* A step out of the part between wipe and reset goes through the reset, or
\* leaves a mark.
LEMMA CutIsMarked ==
  ASSUME Types, Next \/ UNCHANGED vars, ~ResetEmbeddings, tool'.step \notin InWipe, ~cut'
  PROVE  /\ tool.step \notin InWipe /\ ~cut
         /\ ~RecreateCollection /\ ~RecreationFails
  <1>1. ~RecreateCollection
    <2>. SUFFICES ASSUME RecreateCollection PROVE tool'.step = "recreated"
      BY DEF InWipe
    <2>1. tool' = [tool EXCEPT !.step = "recreated"]
      BY DEF RecreateCollection
    <2>. QED  BY <2>1 DEF Types, Others
  <1>2. ~RecreationFails
    BY DEF RecreationFails
  <1>3. CASE DryRun \/ DryRunOfNothing \/ BackUp \/ Refuse
    BY <1>1, <1>2, <1>3 DEF DryRun, DryRunOfNothing, BackUp, Refuse, InWipe
  <1>4. CASE Wipe \/ CompleteRun
    <2>1. cut' = cut /\ (tool.step \in {"confirming", "reingesting"} \/ tool' = tool)
      BY <1>4 DEF Wipe, ReadyToWipe, CompleteRun
    <2>. QED  BY <1>1, <1>2, <2>1 DEF InWipe
  <1>5. CASE StartReingest \/ StartRefused
    BY <1>1, <1>2, <1>5 DEF StartReingest, StartRefused, InWipe
  <1>6. CASE Crash
    BY <1>1, <1>2, <1>6 DEF Crash, InWipe
  <1>7. CASE ~Run /\ ~CompleteRun
    <2>1. tool' = tool
      BY <1>7, ToolStays
    <2>2. cut' = cut
      BY <1>7 DEF Next, Service, File, User, vars, StartService, StopService, ClaimRun, RunJobs, EmbedBatch, SkipFile,
         SkipProbableDuplicate, IngestFile, IngestUnchecked, FailFile, Finish, Restore, CorrectCategory, DismissPair, TriggerRun
    <2>. QED  BY <1>1, <1>2, <2>1, <2>2
  <1>. QED  BY <1>1, <1>2, <1>3, <1>4, <1>5, <1>6, <1>7 DEF Run

LEMMA EmbeddedInit == Init => EmbeddedHasVector
  <1>. SUFFICES ASSUME Init, NEW h \in Held
                PROVE  vectors.exists /\ <<h, statements[h].converted>> \in vectors.points
    BY DEF EmbeddedHasVector
  <1>1. PICK s \in Start : Begin(s)
    BY DEF Init
  <1>2. statements[h].converted = (h \in s.converted)
    BY <1>1 DEF Begin, Held
  <1>3. vectors.exists = TRUE
    BY <1>1 DEF Begin
  <1>4. vectors.points = {<<k, k \in s.converted>> : k \in Hash}
    BY <1>1 DEF Begin
  <1>. QED  BY <1>2, <1>3, <1>4 DEF Held

LEMMA EmbeddedNext ==
  ASSUME Types, EmbeddedHasVector, Next \/ UNCHANGED vars
  PROVE  EmbeddedHasVector'
  <1>. SUFFICES ASSUME tool'.step \notin InWipe, ~cut',
                       NEW h \in Hash, statements'[h] # NoRow, statements'[h].embedded
                PROVE  vectors'.exists /\ <<h, statements'[h].converted>> \in vectors'.points
    BY DEF EmbeddedHasVector, Held, InWipe
  <1>1. IsTable(statements) /\ vectors \in [exists : BOOLEAN, points : SUBSET (Hash \X BOOLEAN)]
    BY DEF Types, Tables, Others
  <1>2. CASE ResetEmbeddings
    <2>1. statements[h] # NoRow
      BY <1>2, ResetEmbeddingsRows DEF SameRows
    <2>. QED  BY <1>2, <2>1, ResetEmbeddingsRows DEF Held
  <1>3. CASE EmbedBatch
    <2>1. statements[h] # NoRow /\ statements'[h].converted = statements[h].converted
      BY <1>3, EmbedBatchRows DEF SameRows
    <2>. DEFINE more == {<<k, statements[k].converted>> : k \in Held}
    <2>2. vectors' = [vectors EXCEPT !.points = vectors.points \cup more] /\ vectors.exists
      BY <1>3 DEF EmbedBatch
    <2>3. <<h, statements[h].converted>> \in more
      BY <2>1 DEF Held
    <2>. HIDE DEF more
    <2>4. vectors'.exists = vectors.exists /\ vectors'.points = vectors.points \cup more
      BY <1>1, <2>2
    <2>. QED  BY <2>1, <2>2, <2>3, <2>4
  <1>4. CASE Restore
    BY <1>4, RestoreRows
  <1>5. ASSUME ~ResetEmbeddings, ~EmbedBatch, ~Restore
        PROVE  vectors'.exists /\ <<h, statements'[h].converted>> \in vectors'.points
    <2>1. tool.step \notin InWipe /\ ~cut /\ ~RecreateCollection /\ ~RecreationFails
      BY <1>5, CutIsMarked
    <2>2. \A k \in Held : statements[k].embedded =>
              vectors.exists /\ <<k, statements[k].converted>> \in vectors.points
      BY <2>1 DEF EmbeddedHasVector, InWipe
    <2>3. vectors'.points = vectors.points /\ (vectors.exists => vectors'.exists)
      <3>1. CASE StartService
        BY <1>1, <3>1 DEF StartService
      <3>2. CASE vectors' = vectors
        BY <3>2
      <3>. QED  BY <1>5, <2>1, <3>1, <3>2, VectorsStay
    <2>4. /\ statements[h] # NoRow /\ statements[h].embedded
          /\ statements'[h].converted = statements[h].converted
      <3>1. CASE Finish
        <4>1. statements[h] # NoRow /\ statements'[h].converted = statements[h].converted
          BY <3>1, FinishRows DEF SameRows
        <4>. QED  BY <3>1, <4>1, FinishRows DEF Held
      <3>2. CASE Wipe
        BY <3>2, WipeRows
      <3>3. ASSUME NEW k \in Hash, CorrectCategory(k)
            PROVE  /\ statements[h] # NoRow /\ statements[h].embedded
                   /\ statements'[h].converted = statements[h].converted
        <4>1. statements[h] # NoRow /\ statements'[h].converted = statements[h].converted
          BY <3>3, CorrectCategoryRows DEF SameRows
        <4>. QED  BY <3>3, <4>1, CorrectCategoryRows DEF Held
      <3>4. ASSUME NEW k \in Hash, IngestsFile(k)
            PROVE  statements'[h] = statements[h]
        BY <3>4, IngestFileRows
      <3>5. CASE statements' = statements
        BY <3>5
      <3>. QED  BY <1>5, <3>1, <3>2, <3>3, <3>4, <3>5, StatementsStay
    <2>. QED  BY <2>2, <2>3, <2>4 DEF Held
  <1>. QED  BY <1>2, <1>3, <1>4, <1>5

\* A transaction marked embedded has its vector, whatever the operator, the
\* worker and the user do and wherever the tool is interrupted, except after a
\* run that was cut off between the wipe and the reset of the statuses
\* (backfill/service.py:184).
THEOREM EmbeddedIsEmbedded == Spec => []EmbeddedHasVector
  <1>1. Init => Types /\ EmbeddedHasVector
    BY TypesInit, EmbeddedInit
  <1>2. Types /\ EmbeddedHasVector /\ [Next]_vars => (Types /\ EmbeddedHasVector)'
    BY TypesNext, EmbeddedNext
  <1>. QED  BY <1>1, <1>2, PTL DEF Spec

----------------------------------------------------------------------------
(* Between the plan and the wipe                                           *)

Planning == {"planned", "confirming"}

\* The operator stops the worker before he runs the tool, and starts it after.
WorkerIsStopped == tool.step # "idle" => ~service

\* What is planned to be skipped is a copy of something held, and no pair the
\* user had dismissed by then.
SkipsAreCopies ==
    tool.step \in Planning =>
        /\ tool.wipe \subseteq drive
        /\ \A s \in tool.skips :
              /\ s[1] \in tool.wipe /\ s[2] \in Held /\ s[1] # s[2]
              /\ {s[1], s[2]} \in Duplicate
              /\ pairs[{s[1], s[2]}] = "dismissed" => {s[1], s[2]} \in late.dismissed

\* The backup holds what is to be wiped, but for what the user corrected since.
BackupHoldsWipe ==
    tool.step = "confirming" =>
        /\ backup.taken /\ backup.wipe = tool.wipe
        /\ \A h \in tool.wipe : backup.statements[h] = statements[h] \/ h \in late.corrected

LEMMA StoppedInit == Init => WorkerIsStopped /\ SkipsAreCopies /\ BackupHoldsWipe
  BY DEF Init, Resting, WorkerIsStopped, SkipsAreCopies, BackupHoldsWipe, Planning

LEMMA StoppedNext ==
  ASSUME Types, WorkerIsStopped, Next \/ UNCHANGED vars
  PROVE  WorkerIsStopped'
  <1>1. CASE StartService
    BY <1>1 DEF StartService, WorkerIsStopped
  <1>2. CASE DryRun \/ DryRunOfNothing
    BY <1>2 DEF DryRun, DryRunOfNothing, WorkerIsStopped
  <1>3. CASE BackUp \/ Refuse \/ Wipe \/ RecreateCollection \/ RecreationFails
    BY <1>3 DEF BackUp, Refuse, Wipe, ReadyToWipe, RecreateCollection, RecreationFails, WorkerIsStopped, Resting
  <1>4. CASE ResetEmbeddings \/ StartReingest \/ StartRefused \/ Crash
    BY <1>4 DEF ResetEmbeddings, StartReingest, StartRefused, Crash, WorkerIsStopped, Resting
  <1>5. CASE CompleteRun
    BY <1>5 DEF CompleteRun, WorkerIsStopped, Resting
  <1>6. CASE StopService
    BY <1>6 DEF StopService, WorkerIsStopped
  <1>7. CASE ~StartService /\ ~StopService /\ ~Run /\ ~CompleteRun
    <2>1. tool' = tool
      BY <1>7, ToolStays
    <2>2. service' = service
      BY <1>7 DEF Next, Service, File, User, vars, ClaimRun, RunJobs, EmbedBatch, SkipFile,
         SkipProbableDuplicate, IngestFile, IngestUnchecked, FailFile, Finish, Restore, CorrectCategory, DismissPair, TriggerRun
    <2>. QED  BY <2>1, <2>2 DEF WorkerIsStopped
  <1>. QED  BY <1>1, <1>2, <1>3, <1>4, <1>5, <1>6, <1>7 DEF Run

\* While the plan waits for its confirmation nothing appears and nothing goes:
\* the user may correct categories and dismiss pairs.
LEMMA WhilePlanned ==
  ASSUME Types, WorkerIsStopped, Next \/ UNCHANGED vars, tool.step \in Planning, tool'.step \in Planning
  PROVE  /\ known' = known
         /\ \A h \in Hash : statements'[h] = NoRow <=> statements[h] = NoRow
         /\ \A h \in Hash : statements'[h] = statements[h] \/ h \in late'.corrected
         /\ \A p \in Duplicate : pairs'[p] = "dismissed" => pairs[p] = "dismissed" \/ p \in late'.dismissed
         /\ late.dismissed \subseteq late'.dismissed
         /\ tool'.wipe = tool.wipe /\ tool'.skips = tool.skips
         /\ BackUp \/ (tool' = tool /\ backup' = backup /\ late.corrected \subseteq late'.corrected)
  <1>1. late \in [corrected : SUBSET Hash, dismissed : SUBSET Duplicate]
    BY DEF Types, Others
  <1>2. /\ ~service /\ ~EmbedBatch /\ ~Finish /\ ~Restore /\ ~ResetEmbeddings /\ ~CompleteRun
        /\ \A h \in Hash : ~IngestsFile(h) /\ ~SkipProbableDuplicate(h)
    BY DEF WorkerIsStopped, Planning, EmbedBatch, Finish, Restore, ResetEmbeddings, CompleteRun,
           IngestsFile, IngestFile, IngestUnchecked, SkipProbableDuplicate, Reads
  <1>3. ~Wipe /\ ~Refuse /\ ~DryRun /\ ~DryRunOfNothing /\ ~Crash
    <2>1. ASSUME Wipe PROVE tool'.step = "wiped"
      BY <2>1 DEF Wipe, Types, Others
    <2>. QED  BY <2>1 DEF Refuse, DryRun, DryRunOfNothing, Crash, Resting, Planning
  <1>4. BackUp \/ tool' = tool
    BY <1>2, <1>3, ToolStays DEF Run, RecreateCollection, RecreationFails, StartReingest, StartRefused, Planning
  <1>5. known' = known
    BY <1>2, <1>3, KnownStays
  <1>6. CASE BackUp
    <2>1. statements' = statements /\ pairs' = pairs /\ late'.dismissed = late.dismissed
      BY <1>1, <1>6 DEF BackUp
    <2>2. tool'.wipe = tool.wipe /\ tool'.skips = tool.skips
      BY <1>6 DEF BackUp, Types, Others
    <2>. QED  BY <1>5, <1>6, <2>1, <2>2
  <1>7. CASE ~BackUp
    <2>1. tool' = tool /\ backup' = backup
      BY <1>4, <1>7, BackupStays
    <2>2. ASSUME NEW h \in Hash, CorrectCategory(h)
          PROVE  /\ \A k \in Hash : statements'[k] = NoRow <=> statements[k] = NoRow
                 /\ \A k \in Hash : statements'[k] = statements[k] \/ k \in late'.corrected
                 /\ pairs' = pairs /\ late'.dismissed = late.dismissed
                 /\ late.corrected \subseteq late'.corrected
      <3>1. pairs' = pairs /\ late' = [late EXCEPT !.corrected = late.corrected \cup {h}]
        BY <2>2 DEF CorrectCategory
      <3>2. late'.corrected = late.corrected \cup {h} /\ late'.dismissed = late.dismissed
        BY <1>1, <3>1
      <3>3. \A k \in Hash : statements'[k] = NoRow <=> statements[k] = NoRow
        BY <2>2, CorrectCategoryRows, RowIsThere DEF SameRows
      <3>. QED  BY <2>2, <3>1, <3>2, <3>3, CorrectCategoryRows
    <2>3. ASSUME NEW p \in Duplicate, DismissPair(p)
          PROVE  /\ statements' = statements
                 /\ \A q \in Duplicate : pairs'[q] = "dismissed" => pairs[q] = "dismissed" \/ q \in late'.dismissed
                 /\ late.dismissed \subseteq late'.dismissed /\ late'.corrected = late.corrected
      <3>1. /\ statements' = statements /\ pairs' = [pairs EXCEPT ![p] = "dismissed"]
            /\ late' = [late EXCEPT !.dismissed = late.dismissed \cup {p}]
        BY <2>3 DEF DismissPair
      <3>2. late'.dismissed = late.dismissed \cup {p} /\ late'.corrected = late.corrected
        BY <1>1, <3>1
      <3>. QED  BY <3>1, <3>2 DEF Types, Tables
    <2>4. CASE \A h \in Hash : ~CorrectCategory(h)
      <3>1. statements' = statements
        BY <1>2, <1>3, <2>4, StatementsStay
      <3>2. CASE \A p \in Duplicate : ~DismissPair(p)
        <4>1. late' = late /\ pairs' = pairs
          BY <1>3, <1>7, <2>4, <3>2, LateStays, PairsStay, <1>2
        <4>. QED  BY <1>5, <2>1, <3>1, <4>1
      <3>. QED  BY <1>5, <2>1, <2>3, <3>2
    <2>. QED  BY <1>5, <2>1, <2>2, <2>4
  <1>. QED  BY <1>6, <1>7

\* A plan begins with a dry run.
LEMMA DryRunPlans ==
  ASSUME Types, Next \/ UNCHANGED vars, tool'.step \in Planning, tool.step \notin Planning
  PROVE  DryRun
  <1>1. tool' # tool
    OBVIOUS
  <1>2. ~CompleteRun
    BY DEF CompleteRun, Resting, Planning
  <1>3. ~DryRunOfNothing /\ ~BackUp /\ ~Refuse /\ ~Wipe /\ ~RecreateCollection
    BY DEF DryRunOfNothing, BackUp, Refuse, Wipe, ReadyToWipe, RecreateCollection, Resting, Planning, Types, Others
  <1>4. ~RecreationFails /\ ~ResetEmbeddings /\ ~StartReingest /\ ~StartRefused /\ ~Crash
    BY DEF RecreationFails, ResetEmbeddings, StartReingest, StartRefused, Crash, Resting, Planning, Types, Others
  <1>. QED  BY <1>1, <1>2, <1>3, <1>4, ToolStays DEF Run

LEMMA PlanNext ==
  ASSUME Types, WorkerIsStopped, SkipsAreCopies, BackupHoldsWipe, Next \/ UNCHANGED vars
  PROVE  SkipsAreCopies' /\ BackupHoldsWipe'
  <1>1. CASE tool'.step \notin Planning
    BY <1>1 DEF SkipsAreCopies, BackupHoldsWipe, Planning
  <1>2. CASE tool'.step \in Planning /\ tool.step \notin Planning
    <2>1. DryRun
      BY <1>2, DryRunPlans
    <2>2. /\ tool'.step = "planned" /\ tool'.wipe = WipeSet /\ tool'.skips = SkipPlan
          /\ statements' = statements /\ pairs' = pairs /\ drive' = drive
      BY <2>1 DEF DryRun
    <2>3. WipeSet \subseteq drive
      BY DEF WipeSet
    <2>4. \A s \in SkipPlan :
              /\ s[1] \in WipeSet /\ s[2] \in Held /\ s[1] # s[2]
              /\ {s[1], s[2]} \in Duplicate /\ pairs[{s[1], s[2]}] # "dismissed"
      BY PlannedSkips
    <2>5. Held' = Held
      BY <2>2 DEF Held
    <2>. HIDE DEF Planning
    <2>6. SkipsAreCopies'
      BY <2>2, <2>3, <2>4, <2>5 DEF SkipsAreCopies
    <2>. QED  BY <2>2, <2>6 DEF BackupHoldsWipe
  <1>3. CASE tool'.step \in Planning /\ tool.step \in Planning
    <2>1. /\ \A h \in Hash : statements'[h] = NoRow <=> statements[h] = NoRow
          /\ \A h \in Hash : statements'[h] = statements[h] \/ h \in late'.corrected
          /\ \A p \in Duplicate : pairs'[p] = "dismissed" => pairs[p] = "dismissed" \/ p \in late'.dismissed
          /\ late.dismissed \subseteq late'.dismissed
          /\ tool'.wipe = tool.wipe /\ tool'.skips = tool.skips
          /\ BackUp \/ (tool' = tool /\ backup' = backup /\ late.corrected \subseteq late'.corrected)
      BY <1>3, WhilePlanned
    <2>2. Held' = Held
      BY <2>1 DEF Held
    <2>3. drive' = drive /\ tool.wipe \subseteq Hash
      BY DriveStays DEF Types, Others
    <2>4. SkipsAreCopies'
      <3>1. \A s \in tool.skips :
              /\ s[1] \in tool.wipe /\ s[2] \in Held /\ s[1] # s[2]
              /\ {s[1], s[2]} \in Duplicate
              /\ pairs[{s[1], s[2]}] = "dismissed" => {s[1], s[2]} \in late.dismissed
        BY <1>3 DEF SkipsAreCopies
      <3>2. tool.wipe \subseteq drive
        BY <1>3 DEF SkipsAreCopies
      <3>3. \A s \in tool.skips : pairs'[{s[1], s[2]}] = "dismissed" => {s[1], s[2]} \in late'.dismissed
        BY <2>1, <3>1
      <3>. QED  BY <2>1, <2>2, <2>3, <3>1, <3>2, <3>3 DEF SkipsAreCopies
    <2>5. BackupHoldsWipe'
      <3>1. CASE BackUp
        <4>1. backup'.taken /\ backup'.wipe = tool.wipe /\ backup'.statements = statements /\ statements' = statements
          BY <3>1 DEF BackUp
        <4>. QED  BY <2>1, <4>1 DEF BackupHoldsWipe
      <3>2. CASE tool' = tool /\ backup' = backup /\ late.corrected \subseteq late'.corrected
        BY <2>1, <2>3, <3>2 DEF BackupHoldsWipe
      <3>. QED  BY <2>1, <3>1, <3>2
    <2>. QED  BY <2>4, <2>5
  <1>. QED  BY <1>1, <1>2, <1>3

\* Only the wipe takes statements away while the tool runs.
LEMMA OnlyWipeTakes ==
  ASSUME Types, Next \/ UNCHANGED vars, tool.step # "idle",
         NEW h \in Held, statements'[h] = NoRow
  PROVE  Wipe /\ h \in tool.wipe
  <1>1. h \in Hash /\ statements[h] # NoRow
    BY DEF Held
  <1>2. ~EmbedBatch /\ ~ResetEmbeddings /\ ~Finish /\ ~Restore
    <2>1. ~Finish /\ ~Restore
      BY DEF Finish, Restore
    <2>. QED  BY <1>1, <2>1, EmbedBatchRows, ResetEmbeddingsRows, RowIsThere DEF SameRows
  <1>3. \A k \in Hash : ~CorrectCategory(k) /\ ~IngestsFile(k)
    <2>1. ASSUME NEW k \in Hash, CorrectCategory(k) PROVE FALSE
      BY <1>1, <2>1, CorrectCategoryRows, RowIsThere DEF SameRows
    <2>2. ASSUME NEW k \in Hash, IngestsFile(k) PROVE FALSE
      BY <1>1, <2>2, IngestFileRows, RowIsThere
    <2>. QED  BY <2>1, <2>2
  <1>4. Wipe
    BY <1>1, <1>2, <1>3, StatementsStay
  <1>. QED  BY <1>1, <1>4, WipeRows

LEMMA CorrectionsBackedUpStep ==
  ASSUME Types, BackupHoldsWipe, Next \/ UNCHANGED vars, NEW h \in Hash,
         tool.step # "idle", h \in Held, statements'[h] = NoRow, statements[h].manual
  PROVE  \/ backup.taken /\ h \in backup.wipe /\ backup.statements[h] = statements[h]
         \/ h \in late.corrected
  <1>1. Wipe /\ h \in tool.wipe
    BY OnlyWipeTakes
  <1>. QED  BY <1>1 DEF Wipe, ReadyToWipe, BackupHoldsWipe

LEMMA DismissalsHonouredStep ==
  ASSUME Types, SkipsAreCopies, Next \/ UNCHANGED vars, NEW p \in Duplicate,
         pairs[p] = "dismissed", tool.step # "idle", p \notin late.dismissed
  PROVE  /\ pairs'[p] = "dismissed"
         /\ \A h \in p : known'[h] \in p => known[h] = known'[h]
  <1>0. ~Restore
    BY DEF Restore
  <1>1. pairs'[p] = "dismissed"
    <2>1. CASE Wipe
      BY <2>1 DEF Wipe
    <2>2. ASSUME NEW q \in Duplicate, DismissPair(q) PROVE pairs'[p] = "dismissed"
      BY <2>2 DEF DismissPair, Types, Tables
    <2>3. CASE pairs' = pairs
      BY <2>3
    <2>. QED  BY <1>0, <2>1, <2>2, <2>3, PairsStay
  <1>2. ASSUME NEW h \in p, known'[h] \in p, known[h] # known'[h]
        PROVE  FALSE
    <2>1. PICK a, b \in Hash : a # b /\ p = {a, b}
      OBVIOUS
    <2>2. CASE Wipe
      <3>1. h \in Registered /\ known'[h] = KeptFor(h)
        BY <1>2, <2>1, <2>2 DEF Wipe
      <3>2. PICK s \in tool.skips : s[1] = h /\ KeptFor(h) = s[2]
        <4>1. \E s \in tool.skips : s[1] = h
          BY <3>1 DEF Registered
        <4>. QED  BY <4>1 DEF KeptFor
      <3>3. /\ s[1] # s[2]
            /\ pairs[{s[1], s[2]}] = "dismissed" => {s[1], s[2]} \in late.dismissed
        BY <2>2, <3>2 DEF Wipe, ReadyToWipe, SkipsAreCopies, Planning
      <3>4. p = {s[1], s[2]}
        BY <1>2, <2>1, <3>1, <3>2, <3>3
      <3>. QED  BY <3>3, <3>4
    <2>3. ASSUME NEW k \in Hash, SkipProbableDuplicate(k) PROVE FALSE
      <3>1. PICK m \in Matches(k) : known' = [known EXCEPT ![k] = m]
        BY <2>3 DEF SkipProbableDuplicate
      <3>2. h = k /\ known'[h] = m
        BY <1>2, <2>1, <3>1 DEF Types, Tables
      <3>3. m # k /\ pairs[{k, m}] # "dismissed"
        BY <2>3, <3>1 DEF Matches, SkipProbableDuplicate
      <3>4. p = {k, m}
        BY <1>2, <2>1, <3>2, <3>3
      <3>. QED  BY <3>3, <3>4
    <2>4. CASE known' = known
      BY <1>2, <2>4
    <2>. QED  BY <1>0, <2>2, <2>3, <2>4, KnownStays
  <1>. QED  BY <1>1, <1>2

PlanInv == Types /\ WorkerIsStopped /\ SkipsAreCopies /\ BackupHoldsWipe

LEMMA PlanInvInit == Init => PlanInv
  BY TypesInit, StoppedInit DEF PlanInv

LEMMA PlanInvNext == PlanInv /\ [Next]_vars => PlanInv'
  BY TypesNext, StoppedNext, PlanNext DEF PlanInv

\* The tool wipes no correction that its backup does not hold, however the
\* user's corrections fall between the dry run, the snapshot, the confirmation
\* and the wipe (backfill/service.py:248).
THEOREM CorrectionsAreBackedUp == Spec => CorrectionsBackedUp
  <1>1. PlanInv /\ [Next]_vars =>
          [\A h \in Hash :
            (tool.step # "idle" /\ h \in Held /\ statements'[h] = NoRow /\ statements[h].manual) =>
                \/ backup.taken /\ h \in backup.wipe /\ backup.statements[h] = statements[h]
                \/ h \in late.corrected]_vars
    BY CorrectionsBackedUpStep DEF PlanInv
  <1>. QED  BY <1>1, PlanInvInit, PlanInvNext, PTL DEF Spec, CorrectionsBackedUp

\* A pair dismissed before the dry run is neither skipped by the plan nor by
\* the reingest, and stays dismissed (backfill/duplicates.py:52).
THEOREM DismissalsAreHonoured == Spec => DismissalsHonoured
  <1>1. PlanInv /\ [Next]_vars =>
          [\A p \in Duplicate :
            (pairs[p] = "dismissed" /\ tool.step # "idle" /\ p \notin late.dismissed) =>
                /\ pairs'[p] = "dismissed"
                /\ \A h \in p : known'[h] \in p => known[h] = known'[h]]_vars
    BY DismissalsHonouredStep DEF PlanInv
  <1>. QED  BY <1>1, PlanInvInit, PlanInvNext, PTL DEF Spec, DismissalsHonoured

\* A set of numbers has a least one.
LEMMA LeastNumber ==
  ASSUME NEW T \in SUBSET Nat, T # {}
  PROVE  \E x \in T : \A y \in T : x <= y
  <1>1. IsWellFoundedOn(OpToRel(<, Nat), Nat)
    BY NatLessThanWellFounded
  <1>2. PICK x \in T : \A y \in T : ~ (<<y, x>> \in OpToRel(<, Nat))
    BY <1>1, WFMin
  <1>3. \A y \in T : ~ (y < x)
    BY <1>2 DEF OpToRel
  <1>. QED  BY <1>3

----------------------------------------------------------------------------
(* No statement is lost                                                    *)

\* A plan's order: those corrected by hand when it was made, then the ranks.
Before(M, k, h) ==
    \/ k \in M /\ h \notin M
    \/ (k \in M <=> h \in M) /\ Rank[k] < Rank[h]

LEMMA BestOfAny ==
  ASSUME NEW A \in SUBSET Hash, A # {}, NEW M
  PROVE  \E a \in A : \A k \in A : ~Before(M, k, a)
  <1>1. ASSUME NEW B \in SUBSET Hash, B # {}
        PROVE  \E a \in B : \A k \in B : Rank[a] <= Rank[k]
    <2>. DEFINE T == {Rank[b] : b \in B}
    <2>1. T \in SUBSET Nat /\ T # {}
      BY <1>1, RanksAreNumbers
    <2>2. PICK x \in T : \A y \in T : x <= y
      <3>. HIDE DEF T
      <3>. QED  BY <2>1, LeastNumber
    <2>. QED  BY <2>2
  <1>2. CASE A \cap M # {}
    <2>1. PICK a \in A \cap M : \A k \in A \cap M : Rank[a] <= Rank[k]
      BY <1>1, <1>2
    <2>2. \A k \in A : ~Before(M, k, a)
      BY <2>1, RanksAreNumbers DEF Before
    <2>. QED  BY <2>1, <2>2
  <1>3. CASE A \cap M = {}
    <2>1. PICK a \in A : \A k \in A : Rank[a] <= Rank[k]
      BY <1>1
    <2>2. \A k \in A : ~Before(M, k, a)
      BY <1>3, <2>1, RanksAreNumbers DEF Before
    <2>. QED  BY <2>1, <2>2
  <1>. QED  BY <1>2, <1>3

\* Every skip of a plan is for a better copy, in the order of the plan: a
\* correction made since does not turn the plan into a circle.
SkipsImprove ==
    tool.step \in Planning => \E M \in SUBSET Hash : \A s \in tool.skips : Before(M, s[2], s[1])

\* What is there, directly or through what it is a copy of.
Grounded(there, refers) ==
    \A lost \in (SUBSET Hash) \ {{}} :
        \E h \in lost : \/ h \in there
                        \/ refers[h] = NoHash /\ h \in drive
                        \/ refers[h] # NoHash /\ refers[h] \notin lost

SavedHeld == {h \in Hash : backup.statements[h] # NoRow}

\* Nothing held is remembered as a copy, now or in the backup.
HeldIsNoCopy ==
    /\ \A h \in Held : known[h] = NoHash
    /\ \A h \in SavedHeld : backup.known[h] = NoHash

SavedNotLost == Grounded(SavedHeld, backup.known)

LossInv == PlanInv /\ SkipsImprove /\ HeldIsNoCopy /\ SavedNotLost /\ NoStatementLost

LEMMA LossInit == Init => SkipsImprove /\ HeldIsNoCopy /\ SavedNotLost /\ NoStatementLost
  <1>. SUFFICES ASSUME Init PROVE SkipsImprove /\ HeldIsNoCopy /\ SavedNotLost /\ NoStatementLost
    OBVIOUS
  <1>1. PICK s \in Start : Begin(s)
    BY DEF Init
  <1>2. known = [h \in Hash |-> NoHash]
    BY <1>1 DEF Begin
  <1>3. backup.statements = statements /\ backup.known = known
    BY DEF Init, NoBackup
  <1>4. \A h \in Hash : statements[h] # NoRow
    <2>1. ASSUME NEW h \in Hash PROVE statements[h] # NoRow
      <3>1. statements[h].embedded = TRUE /\ DOMAIN statements[h] = {"converted", "text", "manual", "category", "embedded"}
        BY <1>1 DEF Begin
      <3>2. DOMAIN NoRow = {"absent"}
        BY DEF NoRow
      <3>. QED  BY <3>1, <3>2
    <2>. QED  BY <2>1
  <1>5. SkipsImprove
    BY DEF Init, Resting, SkipsImprove, Planning
  <1>. QED  BY <1>2, <1>3, <1>4, <1>5 DEF HeldIsNoCopy, SavedNotLost, Grounded, NoStatementLost, SavedHeld, Held

\* The steps that leave alone what is held but for the few that do not.
LEMMA HeldStays ==
  ASSUME Types, Next \/ UNCHANGED vars, ~Wipe, ~Restore, \A h \in Hash : ~IngestsFile(h)
  PROVE  Held' = Held
  <1>1. CASE EmbedBatch \/ ResetEmbeddings \/ Finish
    <2>1. SameRows
      BY <1>1, EmbedBatchRows, ResetEmbeddingsRows, FinishRows
    <2>. QED  BY <2>1, RowIsThere DEF SameRows, Held
  <1>2. ASSUME NEW h \in Hash, CorrectCategory(h) PROVE Held' = Held
    <2>1. SameRows
      BY <1>2, CorrectCategoryRows
    <2>. QED  BY <2>1, RowIsThere DEF SameRows, Held
  <1>3. CASE statements' = statements
    BY <1>3 DEF Held
  <1>. QED  BY <1>1, <1>2, <1>3, StatementsStay

LEMMA HeldAfterWipe ==
  ASSUME Types, Wipe
  PROVE  Held' = Held \ tool.wipe
  BY WipeRows DEF Held

LEMMA HeldAfterRestore ==
  ASSUME Types, Restore
  PROVE  Held' = SavedHeld
  BY RestoreRows, RowIsThere DEF Held, SavedHeld

LEMMA HeldAfterIngest ==
  ASSUME Types, NEW h \in Hash, IngestsFile(h)
  PROVE  Held' = Held \cup {h} /\ known[h] = NoHash /\ known' = known
  <1>1. IsRow(statements'[h]) /\ \A k \in Hash \ {h} : statements'[k] = statements[k]
    BY IngestFileRows
  <1>2. known[h] = NoHash /\ known' = known
    BY DEF IngestsFile, IngestFile, IngestUnchecked, Ingested
  <1>. QED  BY <1>1, <1>2, RowIsThere DEF Held

\* What the wipe registers is planned, held and wiped; its kept copy is held.
LEMMA Registers ==
  ASSUME Types, SkipsAreCopies, Wipe, NEW h \in Registered
  PROVE  /\ h \in tool.wipe /\ KeptFor(h) \in Held
         /\ \E s \in tool.skips : s[1] = h /\ s[2] = KeptFor(h)
  <1>1. PICK s \in tool.skips : s[1] = h /\ KeptFor(h) = s[2]
    <2>1. \E s \in tool.skips : s[1] = h
      BY DEF Registered
    <2>. QED  BY <2>1 DEF KeptFor
  <1>. QED  BY <1>1 DEF Wipe, ReadyToWipe, SkipsAreCopies, Planning

LEMMA NoCopyNext ==
  ASSUME LossInv, Next \/ UNCHANGED vars
  PROVE  HeldIsNoCopy'
  <1>. USE DEF LossInv, PlanInv
  <1>1. known \in [Hash -> Hash \cup {NoHash}]
    BY DEF Types, Tables
  <1>2. \A h \in Held' : known'[h] = NoHash
    <2>1. CASE Wipe
      <3>1. ASSUME NEW h \in Held' PROVE known'[h] = NoHash
        <4>1. h \in Held /\ h \notin tool.wipe
          BY <2>1, HeldAfterWipe
        <4>2. h \notin Registered
          BY <2>1, <4>1, Registers
        <4>. QED  BY <2>1, <4>1, <4>2 DEF Wipe, HeldIsNoCopy, Held
      <3>. QED  BY <3>1
    <2>2. CASE Restore
      BY <2>2, HeldAfterRestore DEF HeldIsNoCopy, Restore
    <2>3. ASSUME NEW h \in Hash, IngestsFile(h) PROVE \A k \in Held' : known'[k] = NoHash
      BY <2>3, HeldAfterIngest DEF HeldIsNoCopy
    <2>4. ASSUME NEW h \in Hash, SkipProbableDuplicate(h) PROVE \A k \in Held' : known'[k] = NoHash
      <3>1. h \notin Held /\ Held' = Held
        BY <2>4 DEF SkipProbableDuplicate, Held
      <3>2. \A k \in Hash \ {h} : known'[k] = known[k]
        BY <1>1, <2>4 DEF SkipProbableDuplicate
      <3>. QED  BY <3>1, <3>2 DEF HeldIsNoCopy, Held
    <2>5. CASE ~Wipe /\ ~Restore /\ \A h \in Hash : ~IngestsFile(h) /\ ~SkipProbableDuplicate(h)
      <3>1. Held' = Held /\ known' = known
        BY <2>5, HeldStays, KnownStays
      <3>. QED  BY <3>1 DEF HeldIsNoCopy
    <2>. QED  BY <2>1, <2>2, <2>3, <2>4, <2>5
  <1>3. \A h \in SavedHeld' : backup'.known[h] = NoHash
    <2>1. CASE BackUp
      <3>1. backup'.statements = statements /\ backup'.known = known
        BY <2>1 DEF BackUp
      <3>. QED  BY <3>1 DEF HeldIsNoCopy, SavedHeld, Held
    <2>2. CASE backup' = backup
      BY <2>2 DEF HeldIsNoCopy, SavedHeld
    <2>. QED  BY <2>1, <2>2, BackupStays
  <1>. QED  BY <1>2, <1>3 DEF HeldIsNoCopy

LEMMA ImproveNext ==
  ASSUME LossInv, Next \/ UNCHANGED vars
  PROVE  SkipsImprove'
  <1>. USE DEF LossInv, PlanInv
  <1>1. CASE tool'.step \notin Planning
    BY <1>1 DEF SkipsImprove
  <1>2. CASE tool'.step \in Planning /\ tool.step \notin Planning
    <2>1. DryRun
      <3>1. tool' # tool
        BY <1>2
      <3>2. CASE CompleteRun
        BY <1>2, <3>2 DEF CompleteRun, Resting, Planning
      <3>3. CASE DryRunOfNothing \/ BackUp \/ Refuse \/ Wipe \/ RecreateCollection
        BY <1>2, <3>3 DEF DryRunOfNothing, BackUp, Refuse, Wipe, ReadyToWipe, RecreateCollection, Resting, Planning, Types, Others
      <3>4. CASE RecreationFails \/ ResetEmbeddings \/ StartReingest \/ StartRefused \/ Crash
        BY <1>2, <3>4 DEF RecreationFails, ResetEmbeddings, StartReingest, StartRefused, Crash, Resting, Planning, Types, Others
      <3>. QED  BY <3>1, <3>2, <3>3, <3>4, ToolStays DEF Run
    <2>2. tool'.skips = SkipPlan
      BY <2>1 DEF DryRun
    <2>. DEFINE M == {h \in Hash : statements[h].manual}
    <2>3. ASSUME NEW s \in SkipPlan PROVE Before(M, s[2], s[1])
      <3>1. s[1] \in Held /\ s[2] \in Held /\ Better(s[2], s[1])
        BY PlannedSkips DEF WipeSet
      <3>2. IsRow(statements[s[1]]) /\ IsRow(statements[s[2]])
        BY <3>1, EntryOfTable DEF Types, Tables, Held
      <3>3. statements[s[1]].manual \in BOOLEAN /\ statements[s[2]].manual \in BOOLEAN
        BY <3>2 DEF IsRow
      <3>. QED  BY <3>1, <3>3 DEF Before, Better, Held
    <2>. HIDE DEF M
    <2>4. M \in SUBSET Hash
      BY DEF M
    <2>. QED  BY <2>2, <2>3, <2>4 DEF SkipsImprove
  <1>3. CASE tool'.step \in Planning /\ tool.step \in Planning
    <2>1. tool'.skips = tool.skips
      BY <1>3, WhilePlanned
    <2>. QED  BY <1>3, <2>1 DEF SkipsImprove
  <1>. QED  BY <1>1, <1>2, <1>3

\* The wipe: what goes is a PDF to be read, or a copy of something better.
LEMMA WipeLosesNothing ==
  ASSUME LossInv, Wipe,
         NEW lost \in SUBSET Hash, lost # {},
         \A h \in lost : /\ h \notin Held'
                         /\ ~(known'[h] = NoHash /\ h \in drive)
                         /\ ~(known'[h] # NoHash /\ known'[h] \notin lost)
  PROVE  FALSE
  <1>. USE DEF LossInv, PlanInv
  <1>1. /\ tool.step = "confirming" /\ tool.wipe \subseteq Held /\ tool.wipe \subseteq drive
        /\ \A h \in Hash : known'[h] = IF h \in Registered /\ known[h] = NoHash THEN KeptFor(h) ELSE known[h]
    BY DEF Wipe, ReadyToWipe, SkipsAreCopies, Planning
  <1>2. Held' = Held \ tool.wipe
    BY HeldAfterWipe
  <1>3. \A h \in Registered : h \in tool.wipe /\ KeptFor(h) \in Held
    BY Registers
  <1>4. \A h \in lost \cap Held : h \in Registered /\ KeptFor(h) \in lost \cap Held
    <2>1. ASSUME NEW h \in lost \cap Held PROVE h \in Registered /\ KeptFor(h) \in lost \cap Held
      <3>1. h \in tool.wipe /\ h \in drive /\ known[h] = NoHash
        BY <1>1, <1>2, <2>1 DEF HeldIsNoCopy
      <3>2. h \in Registered
        BY <1>1, <2>1, <3>1
      <3>3. known'[h] = KeptFor(h) /\ KeptFor(h) \in Held
        BY <1>1, <1>3, <2>1, <3>1, <3>2
      <3>4. known'[h] # NoHash
        BY <3>3 DEF Held
      <3>. QED  BY <2>1, <3>2, <3>3, <3>4
    <2>. QED  BY <2>1
  <1>5. CASE lost \cap Held = {}
    <2>1. \A h \in lost : h \notin Held /\ known'[h] = known[h]
      BY <1>1, <1>3, <1>5
    <2>2. PICK h \in lost : \/ h \in Held
                            \/ known[h] = NoHash /\ h \in drive
                            \/ known[h] # NoHash /\ known[h] \notin lost
      BY DEF NoStatementLost
    <2>. QED  BY <2>1, <2>2
  <1>6. CASE lost \cap Held # {}
    <2>1. PICK M \in SUBSET Hash : \A s \in tool.skips : Before(M, s[2], s[1])
      BY <1>1 DEF SkipsImprove, Planning
    <2>2. PICK a \in lost \cap Held : \A k \in lost \cap Held : ~Before(M, k, a)
      BY <1>6, BestOfAny
    <2>3. a \in Registered /\ KeptFor(a) \in lost \cap Held
      BY <1>4
    <2>4. PICK s \in tool.skips : s[1] = a /\ s[2] = KeptFor(a)
      BY <2>3, Registers
    <2>. QED  BY <2>1, <2>2, <2>3, <2>4
  <1>. QED  BY <1>5, <1>6

LEMMA NotLostNext ==
  ASSUME LossInv, Next \/ UNCHANGED vars
  PROVE  NoStatementLost' /\ SavedNotLost'
  <1>. USE DEF LossInv, PlanInv
  <1>1. drive' = drive /\ known \in [Hash -> Hash \cup {NoHash}]
    BY DriveStays DEF Types, Tables
  <1>2. SavedNotLost'
    <2>1. CASE BackUp
      <3>1. backup'.statements = statements /\ backup'.known = known
        BY <2>1 DEF BackUp
      <3>2. SavedHeld' = Held
        BY <3>1 DEF SavedHeld, Held
      <3>3. Grounded(Held, known)
        BY DEF NoStatementLost, Grounded
      <3>. QED  BY <1>1, <3>1, <3>2, <3>3 DEF SavedNotLost, Grounded
    <2>2. CASE backup' = backup
      BY <1>1, <2>2 DEF SavedNotLost, Grounded, SavedHeld
    <2>. QED  BY <2>1, <2>2, BackupStays
  <1>3. ASSUME NEW lost \in SUBSET Hash, lost # {},
               \A h \in lost : /\ h \notin Held'
                               /\ ~(known'[h] = NoHash /\ h \in drive)
                               /\ ~(known'[h] # NoHash /\ known'[h] \notin lost)
        PROVE  FALSE
    <2>1. PICK b \in lost : \/ b \in Held
                            \/ known[b] = NoHash /\ b \in drive
                            \/ known[b] # NoHash /\ known[b] \notin lost
      BY <1>3 DEF NoStatementLost
    <2>2. CASE Wipe
      BY <1>3, <2>2, WipeLosesNothing
    <2>3. CASE Restore
      <3>1. Held' = SavedHeld /\ known' = backup.known
        BY <2>3, HeldAfterRestore DEF Restore
      <3>. QED  BY <1>3, <3>1 DEF SavedNotLost, Grounded
    <2>4. ASSUME NEW h \in Hash, IngestsFile(h) PROVE FALSE
      BY <1>3, <2>1, <2>4, HeldAfterIngest
    <2>5. ASSUME NEW h \in Hash, SkipProbableDuplicate(h) PROVE FALSE
      <3>1. PICK k \in Held : known' = [known EXCEPT ![h] = k]
        BY <2>5 DEF SkipProbableDuplicate, Matches
      <3>2. Held' = Held
        BY <2>5 DEF SkipProbableDuplicate, Held
      <3>3. known'[h] = k /\ k # NoHash /\ \A g \in Hash \ {h} : known'[g] = known[g]
        BY <1>1, <3>1 DEF Held
      <3>4. h \notin lost
        BY <1>3, <3>2, <3>3
      <3>. QED  BY <1>3, <2>1, <3>2, <3>3, <3>4
    <2>6. CASE ~Wipe /\ ~Restore /\ \A h \in Hash : ~IngestsFile(h) /\ ~SkipProbableDuplicate(h)
      <3>1. Held' = Held /\ known' = known
        BY <2>6, HeldStays, KnownStays
      <3>. QED  BY <1>3, <2>1, <3>1
    <2>. QED  BY <2>2, <2>3, <2>4, <2>5, <2>6
  <1>4. NoStatementLost'
    BY <1>1, <1>3 DEF NoStatementLost
  <1>. QED  BY <1>2, <1>4

\* No statement is lost, whatever is skipped for whatever, wiped, restored and
\* interrupted: each is held, or a PDF to be read, or a copy of one that is
\* (backfill/service.py:62, backfill/duplicates.py:37).
THEOREM NothingIsWipedForGood == Spec => []NoStatementLost
  <1>1. Init => LossInv
    BY PlanInvInit, LossInit DEF LossInv
  <1>2. LossInv /\ [Next]_vars => LossInv'
    BY PlanInvNext, ImproveNext, NoCopyNext, NotLostNext DEF LossInv
  <1>3. LossInv => NoStatementLost
    BY DEF LossInv
  <1>. QED  BY <1>1, <1>2, <1>3, PTL DEF Spec

----------------------------------------------------------------------------
(* Own corrections return                                                  *)

HIDE BackfillAssumption

\* A finite set as a sequence: each element at some place.
LEMMA AllAreListed ==
  ASSUME NEW S, IsFiniteSet(S)
  PROVE  /\ IsFiniteSet(DOMAIN SetToSeq(S)) /\ DOMAIN SetToSeq(S) \subseteq Nat
         /\ \A i \in DOMAIN SetToSeq(S) : SetToSeq(S)[i] \in S
         /\ \A i, j \in DOMAIN SetToSeq(S) : SetToSeq(S)[i] = SetToSeq(S)[j] => i = j
         /\ \A x \in S : \E i \in DOMAIN SetToSeq(S) : SetToSeq(S)[i] = x
  <1>. DEFINE n == Cardinality(S)
              f == SetToSeq(S)
  <1>1. n \in Nat /\ ExistsBijection(1 .. n, S)
    BY FS_CardinalityType
  <1>2. \E g \in [1 .. n -> S] : IsInjective(g)
    BY <1>1 DEF ExistsBijection, Bijection, Injection
  <1>3. f \in [1 .. n -> S] /\ IsInjective(f)
    BY <1>2 DEF SetToSeq
  <1>. HIDE DEF f
  <1>4. IsFiniteSet(1 .. n) /\ Cardinality(1 .. n) = n
    BY <1>1, FS_Interval
  <1>5. f \in Surjection(1 .. n, S)
    BY <1>3, <1>4, FS_Injection DEF Injection
  <1>6. DOMAIN f = 1 .. n
    BY <1>3
  <1>7. /\ \A i \in DOMAIN f : f[i] \in S
        /\ \A i, j \in DOMAIN f : f[i] = f[j] => i = j
        /\ \A x \in S : \E i \in DOMAIN f : f[i] = x
    BY <1>3, <1>5, <1>6 DEF IsInjective, Surjection
  <1>. QED  BY <1>4, <1>6, <1>7 DEF f

\* The one correction that is not carried has the first turn on its text, and
\* the one row takes it.
LEMMA OwnIsPlaced ==
  ASSUME NEW cs, IsFiniteSet(DOMAIN cs), DOMAIN cs \subseteq Nat, NEW c0 \in DOMAIN cs,
         cs[c0].carried = FALSE, cs[c0].category \in Nat,
         \A c \in DOMAIN cs \ {c0} : cs[c].carried = TRUE,
         NEW r, r.text = cs[c0].text
  PROVE  Applied(<<r>>, cs)[1] = Place(r, cs[c0])
  <1>. DEFINE rows == <<r>>
              C == OfText(cs, r.text)
  <1>1. DOMAIN rows = {1} /\ rows[1] = r
    OBVIOUS
  <1>. HIDE DEF rows
  <1>2. c0 \in C /\ IsFiniteSet(C) /\ C \subseteq DOMAIN cs /\ \A c \in C : cs[c].text = r.text
    <2>1. C \in SUBSET (DOMAIN cs)
      BY DEF OfText
    <2>. QED  BY <2>1, FS_Subset DEF OfText
  <1>3. Position(rows, 1) = 1
    <2>1. {j \in OfText(rows, rows[1].text) : j < 1} = {}
      BY <1>1 DEF OfText
    <2>2. Cardinality({j \in OfText(rows, rows[1].text) : j < 1}) = 0
      BY <2>1, FS_EmptySet
    <2>. QED  BY <2>2 DEF Position
  <1>4. ~Precedes(cs, c0, c0) /\ \A c \in C \ {c0} : Precedes(cs, c0, c) /\ ~Precedes(cs, c, c0)
    <2>1. ~SortsBefore(cs[c0], cs[c0])
      BY DEF SortsBefore
    <2>2. c0 \in Nat /\ ~(c0 < c0)
      OBVIOUS
    <2>3. ASSUME NEW c \in C \ {c0}
          PROVE  SortsBefore(cs[c0], cs[c]) /\ ~SortsBefore(cs[c], cs[c0])
      <3>1. cs[c].carried = TRUE /\ c \in DOMAIN cs
        BY <1>2
      <3>. QED  BY <3>1, Zenon DEF SortsBefore
    <2>. QED  BY <2>1, <2>2, <2>3 DEF Precedes
  <1>5. Turn(cs, c0) = 1
    <2>1. {j \in C : Precedes(cs, j, c0)} = {}
      BY <1>4
    <2>2. Turn(cs, c0) = 1 + Cardinality({j \in C : Precedes(cs, j, c0)})
      BY <1>2 DEF Turn
    <2>. QED  BY <2>1, <2>2, FS_EmptySet
  <1>6. ASSUME NEW c \in C \ {c0} PROVE Turn(cs, c) # 1
    <2>. DEFINE B == {j \in C : Precedes(cs, j, c)}
    <2>1. c0 \in B /\ B \in SUBSET C
      BY <1>2, <1>4
    <2>2. IsFiniteSet(B) /\ Cardinality(B) \in Nat
      BY <1>2, <2>1, FS_Subset, FS_CardinalityType
    <2>3. Cardinality(B) # 0
      BY <2>1, <2>2, FS_EmptySet
    <2>4. Turn(cs, c) = 1 + Cardinality(B)
      BY <1>2, <1>6 DEF Turn
    <2>. HIDE DEF B
    <2>. QED  BY <2>2, <2>3, <2>4
  <1>7. Cardinality(C) \in Nat /\ Cardinality(C) # 0
    BY <1>2, FS_CardinalityType, FS_EmptySet
  <1>8. LeftRows(rows, cs) = {}
    BY <1>1, <1>3, <1>7 DEF LeftRows
  <1>9. PlacedOn(rows, cs, 1) = {c0}
    <2>1. Fallback(rows, cs, 1) = {}
      BY <1>8 DEF Fallback
    <2>2. {c \in C : Turn(cs, c) = Position(rows, 1)} = {c0}
      BY <1>2, <1>3, <1>5, <1>6
    <2>. QED  BY <1>1, <2>1, <2>2 DEF PlacedOn
  <1>10. Applied(rows, cs)[1] = Place(r, cs[c0])
    BY <1>1, <1>9 DEF Applied
  <1>. QED  BY <1>10 DEF rows

\* The corrections finish has for a statement.
CorrectionOf(k, h) ==
    [text |-> backup.statements[h].text, category |-> backup.statements[h].category, carried |-> h # k]
Behind(k) == {h \in Captured : h = k \/ KeptTarget(h) = k}

LEMMA CorrectionsAre ==
  ASSUME backup.wipe \subseteq Hash, NEW k \in Hash
  PROVE  /\ CorrectionsFor(k) = SetToSeq({CorrectionOf(k, h) : h \in Behind(k)})
         /\ IsFiniteSet({CorrectionOf(k, h) : h \in Behind(k)})
  <1>0. IsFiniteSet(Hash)
    BY BackfillAssumption, Zenon
  <1>. DEFINE own == {h \in Captured : h = k}
              carried == {h \in Captured : h # k /\ KeptTarget(h) = k}
              S == {CorrectionOf(k, h) : h \in Behind(k)}
              f == [h \in Behind(k) |-> CorrectionOf(k, h)]
  <1>1. own \cup carried = Behind(k) /\ \A h \in Behind(k) : (h \in carried) = (h # k)
    BY DEF Behind
  <1>2. S = {[text |-> backup.statements[h].text, category |-> backup.statements[h].category, carried |-> h \in carried] :
                    h \in own \cup carried}
    BY <1>1 DEF CorrectionOf
  <1>3. CorrectionsFor(k) = SetToSeq(S)
    BY <1>2 DEF CorrectionsFor
  <1>4. Behind(k) \in SUBSET Hash
    BY DEF Captured, Behind
  <1>5. f \in Surjection(Behind(k), S)
    BY DEF Surjection
  <1>6. IsFiniteSet(Behind(k))
    BY <1>0, <1>4, FS_Subset, Zenon
  <1>. HIDE DEF f
  <1>7. IsFiniteSet(S)
    BY <1>5, <1>6, FS_Surjection
  <1>. QED  BY <1>3, <1>7

\* What finish puts on a statement that has its own correction with its text.
LEMMA OwnIsPutBack ==
  ASSUME backup.wipe \subseteq Hash, NEW k \in backup.wipe,
         backup.statements[k].manual, backup.statements[k].category \in Nat,
         NEW r, IsRow(r), r.text = backup.statements[k].text
  PROVE  LET q == Applied(<<r>>, CorrectionsFor(k))[1]
         IN  q.manual /\ q.category = backup.statements[k].category
  <1>. DEFINE S == {CorrectionOf(k, h) : h \in Behind(k)}
              cs == SetToSeq(S)
              own == CorrectionOf(k, k)
  <1>1. CorrectionsFor(k) = cs /\ IsFiniteSet(S)
    BY CorrectionsAre
  <1>2. k \in Behind(k)
    BY DEF Behind, Captured
  <1>3. own \in S /\ own.text = r.text /\ own.category = backup.statements[k].category /\ own.carried = FALSE
    BY <1>2 DEF CorrectionOf
  <1>4. \A s \in S : s # own => s.carried = TRUE
    <2>1. ASSUME NEW h \in Behind(k), CorrectionOf(k, h) # own PROVE CorrectionOf(k, h).carried = TRUE
      <3>1. h # k
        BY <2>1
      <3>. QED  BY <3>1 DEF CorrectionOf
    <2>. QED  BY <2>1
  <1>. HIDE DEF S, own
  <1>5. /\ IsFiniteSet(DOMAIN cs) /\ DOMAIN cs \subseteq Nat
        /\ \A i \in DOMAIN cs : cs[i] \in S
        /\ \A i, j \in DOMAIN cs : cs[i] = cs[j] => i = j
        /\ \A x \in S : \E i \in DOMAIN cs : cs[i] = x
    BY <1>1, AllAreListed
  <1>. HIDE DEF cs
  <1>6. PICK c0 \in DOMAIN cs : cs[c0] = own
    BY <1>3, <1>5
  <1>7. \A c \in DOMAIN cs \ {c0} : cs[c].carried = TRUE
    BY <1>4, <1>5, <1>6
  <1>8. Applied(<<r>>, cs)[1] = Place(r, own)
    <2>1. /\ IsFiniteSet(DOMAIN cs) /\ DOMAIN cs \subseteq Nat /\ c0 \in DOMAIN cs
          /\ cs[c0].carried = FALSE /\ cs[c0].category \in Nat /\ r.text = cs[c0].text
      BY <1>3, <1>5, <1>6
    <2>2. Applied(<<r>>, cs)[1] = Place(r, cs[c0])
      BY <1>7, <2>1, OwnIsPlaced, Zenon
    <2>. QED  BY <1>6, <2>2
  <1>9. Place(r, own).manual /\ Place(r, own).category = own.category
    BY DEF Place, IsRow
  <1>. QED  BY <1>1, <1>3, <1>8, <1>9
\* Categories are those of the user and the automatic one, in the tables and
\* in the backup, and the backup holds every statement it says was wiped.
Categorized(f) == \A h \in Hash : f[h] # NoRow => f[h].category \in Category

WipeIsHeld == tool.step \in Planning => tool.wipe \subseteq Held

CategoryInv ==
    /\ Categorized(statements) /\ Categorized(backup.statements)
    /\ backup.wipe \subseteq SavedHeld
    /\ WipeIsHeld

LEMMA Categories == Automatic \in Category /\ Edited \in Category /\ \A h \in Hash : Rank[h] \in Category
  <1>1. Cardinality(Hash) \in Nat
    BY BackfillAssumption, FS_CardinalityType, Zenon
  <1>2. \A h \in Hash : Rank[h] \in 1 .. Cardinality(Hash)
    BY BackfillAssumption
  <1>. QED  BY <1>1, <1>2 DEF Automatic, Edited, Category

LEMMA CategoryInit == Init => CategoryInv
  <1>. SUFFICES ASSUME Init PROVE CategoryInv
    OBVIOUS
  <1>1. PICK s \in Start : Begin(s)
    BY DEF Init
  <1>2. ASSUME NEW h \in Hash PROVE statements[h].category \in Category
    <2>1. statements[h].category = IF h \in s.corrected THEN Rank[h] ELSE Automatic
      BY <1>1 DEF Begin
    <2>. QED  BY <2>1, Categories
  <1>3. backup.statements = statements /\ backup.wipe = {} /\ tool.step = "idle"
    BY DEF Init, NoBackup, Resting
  <1>. QED  BY <1>2, <1>3 DEF CategoryInv, Categorized, WipeIsHeld, Planning

\* A row is given the category of a correction, if it is given one.
LEMMA PutBackCategory ==
  ASSUME CategoryInv, NEW k \in Hash, NEW r, IsRow(r), r.category \in Category
  PROVE  Applied(<<r>>, CorrectionsFor(k))[1].category \in Category
  <1>. DEFINE S == {CorrectionOf(k, h) : h \in Behind(k)}
              cs == SetToSeq(S)
              rows == <<r>>
              placed == PlacedOn(rows, cs, 1)
  <1>1. backup.wipe \subseteq Hash /\ backup.wipe \subseteq SavedHeld
    BY DEF CategoryInv, SavedHeld
  <1>2. CorrectionsFor(k) = cs /\ IsFiniteSet(S)
    BY <1>1, CorrectionsAre
  <1>3. \A s \in S : s.category \in Category
    <2>1. ASSUME NEW h \in Behind(k) PROVE CorrectionOf(k, h).category \in Category
      <3>1. h \in SavedHeld /\ h \in Hash
        BY <1>1 DEF Behind, Captured
      <3>2. backup.statements[h].category \in Category
        BY <3>1 DEF SavedHeld, CategoryInv, Categorized
      <3>. QED  BY <3>2 DEF CorrectionOf
    <2>. QED  BY <2>1
  <1>4. \A i \in DOMAIN cs : cs[i] \in S
    BY <1>2, AllAreListed
  <1>5. 1 \in DOMAIN rows /\ rows[1] = r
    OBVIOUS
  <1>. HIDE DEF S, cs, rows
  <1>6. placed \subseteq DOMAIN cs
    BY DEF PlacedOn, OfText, Fallback, Unmatched, Unplaced
  <1>7. Applied(rows, cs)[1] = IF placed = {} THEN r ELSE Place(r, cs[CHOOSE c \in placed : TRUE])
    BY <1>5 DEF Applied
  <1>8. CASE placed # {}
    <2>1. PICK c \in DOMAIN cs : Applied(rows, cs)[1] = Place(r, cs[c])
      BY <1>6, <1>7, <1>8
    <2>2. Place(r, cs[c]).category = cs[c].category
      BY DEF Place, IsRow
    <2>. QED  BY <1>2, <1>3, <1>4, <2>1, <2>2 DEF rows
  <1>9. CASE placed = {}
    BY <1>2, <1>7, <1>9 DEF rows
  <1>. QED  BY <1>8, <1>9

LEMMA CategorizedNext ==
  ASSUME Types, CategoryInv, Next \/ UNCHANGED vars
  PROVE  Categorized(statements')
  <1>1. IsTable(statements) /\ Categorized(statements)
    BY DEF Types, Tables, CategoryInv
  <1>. SUFFICES ASSUME NEW h \in Hash, statements'[h] # NoRow PROVE statements'[h].category \in Category
    BY DEF Categorized
  <1>2. ASSUME NEW k \in Hash, k \in Held PROVE IsRow(statements[k]) /\ statements[k].category \in Category
    BY <1>1, <1>2, EntryOfTable DEF Held, Categorized
  <1>3. CASE EmbedBatch \/ ResetEmbeddings
    <2>1. h \in Held /\ \E b \in BOOLEAN : statements'[h] = [statements[h] EXCEPT !.embedded = b]
      BY <1>3 DEF EmbedBatch, ResetEmbeddings, ToReembed, Held
    <2>2. statements'[h].category = statements[h].category
      BY <1>2, <2>1 DEF IsRow
    <2>. QED  BY <1>2, <2>1, <2>2
  <1>4. CASE Finish
    <2>1. h \in Held /\ statements'[h] = Applied(<<statements[h]>>, CorrectionsFor(h))[1]
      BY <1>4 DEF Finish
    <2>. QED  BY <1>2, <2>1, PutBackCategory
  <1>5. CASE Wipe
    BY <1>1, <1>5, WipeRows DEF Categorized
  <1>6. CASE Restore
    <2>. DEFINE f == backup.statements
    <2>1. statements'[h] = IF f[h] = NoRow THEN NoRow ELSE [f[h] EXCEPT !.embedded = FALSE]
      BY <1>6 DEF Restore
    <2>2. IsTable(f) /\ Categorized(f)
      BY DEF Types, Saved, CategoryInv
    <2>. HIDE DEF f
    <2>3. IsRow(f[h]) /\ f[h].category \in Category /\ statements'[h] = [f[h] EXCEPT !.embedded = FALSE]
      BY <2>1, <2>2, EntryOfTable DEF Categorized
    <2>. QED  BY <2>3 DEF IsRow
  <1>7. ASSUME NEW k \in Hash, CorrectCategory(k) PROVE statements'[h].category \in Category
    <2>1. CASE h = k
      <3>1. k \in Held /\ statements' = [statements EXCEPT ![k] = [statements[k] EXCEPT !.category = Edited, !.manual = TRUE]]
        BY <1>7 DEF CorrectCategory
      <3>2. statements'[h] = [statements[h] EXCEPT !.category = Edited, !.manual = TRUE]
        BY <1>1, <2>1, <3>1 DEF IsTable
      <3>3. statements'[h].category = Edited
        BY <1>2, <2>1, <3>1, <3>2 DEF IsRow
      <3>. QED  BY <3>3, Categories
    <2>2. CASE h # k
      <3>1. statements'[h] = statements[h]
        BY <1>7, <2>2, CorrectCategoryRows
      <3>. QED  BY <1>1, <3>1 DEF Categorized
    <2>. QED  BY <2>1, <2>2
  <1>8. ASSUME NEW k \in Hash, IngestsFile(k) PROVE statements'[h].category \in Category
    <2>1. CASE h = k
      <3>1. PICK t \in Text : statements' = [statements EXCEPT ![k] =
              [converted |-> TRUE, text |-> t, category |-> Automatic, manual |-> FALSE, embedded |-> FALSE]]
        BY <1>8 DEF IngestsFile, IngestFile, IngestUnchecked, Ingested
      <3>2. statements'[h].category = Automatic
        BY <1>1, <2>1, <3>1 DEF IsTable
      <3>. QED  BY <3>2, Categories
    <2>2. CASE h # k
      <3>1. statements'[h] = statements[h]
        BY <1>8, <2>2, IngestFileRows
      <3>. QED  BY <1>1, <3>1 DEF Categorized
    <2>. QED  BY <2>1, <2>2
  <1>9. CASE statements' = statements
    BY <1>1, <1>9 DEF Categorized
  <1>. QED  BY <1>3, <1>4, <1>5, <1>6, <1>7, <1>8, <1>9, StatementsStay

LEMMA CategoryNext ==
  ASSUME PlanInv, CategoryInv, Next \/ UNCHANGED vars
  PROVE  CategoryInv'
  <1>. USE DEF PlanInv
  <1>1. Categorized(statements')
    BY CategorizedNext
  <1>2. Categorized(backup'.statements) /\ backup'.wipe \subseteq {h \in Hash : backup'.statements[h] # NoRow}
    <2>1. CASE BackUp
      <3>1. backup'.statements = statements /\ backup'.wipe = tool.wipe /\ tool.wipe \subseteq Held
        BY <2>1 DEF BackUp, CategoryInv, WipeIsHeld, Planning
      <3>. QED  BY <3>1 DEF CategoryInv, Held
    <2>2. CASE backup' = backup
      BY <2>2 DEF CategoryInv, SavedHeld
    <2>. QED  BY <2>1, <2>2, BackupStays
  <1>3. WipeIsHeld'
    <2>1. CASE tool'.step \in Planning /\ tool.step \notin Planning
      <3>1. DryRun
        BY <2>1, DryRunPlans
      <3>2. tool'.wipe = WipeSet /\ statements' = statements
        BY <3>1 DEF DryRun
      <3>. QED  BY <3>2 DEF WipeIsHeld, WipeSet, Held
    <2>2. CASE tool'.step \in Planning /\ tool.step \in Planning
      <3>1. tool'.wipe = tool.wipe /\ Held' = Held
        BY <2>2, WhilePlanned DEF Held
      <3>. QED  BY <2>2, <3>1 DEF CategoryInv, WipeIsHeld
    <2>. QED  BY <2>1, <2>2 DEF WipeIsHeld
  <1>. QED  BY <1>1, <1>2, <1>3 DEF CategoryInv, SavedHeld

LEMMA OwnCorrectionsReturnStep ==
  ASSUME Types, CategoryInv, Finish, NEW h \in backup.wipe \cap Held,
         backup.statements[h].manual, statements[h].text = backup.statements[h].text
  PROVE  statements'[h].manual /\ statements'[h].category = backup.statements[h].category
  <1>1. backup.wipe \subseteq Hash /\ h \in Hash /\ backup.statements[h] # NoRow
    BY DEF CategoryInv, SavedHeld
  <1>2. backup.statements[h].category \in Nat
    <2>1. Cardinality(Hash) \in Nat
      BY BackfillAssumption, FS_CardinalityType, Zenon
    <2>2. backup.statements[h].category \in Category
      BY <1>1 DEF CategoryInv, Categorized
    <2>. QED  BY <2>1, <2>2 DEF Category, Edited
  <1>3. IsRow(statements[h])
    BY EntryOfTable DEF Types, Tables, Held
  <1>4. statements'[h] = Applied(<<statements[h]>>, CorrectionsFor(h))[1]
    BY <1>1 DEF Finish
  <1>. QED  BY <1>1, <1>2, <1>3, <1>4, OwnIsPutBack

\* A statement read anew with the text it had gets back its own correction, and
\* never one of a copy skipped for it, however many copies were skipped and
\* whatever the reingest, the user and faults did before the finish, and
\* however often it is run (backfill/corrections.py:140).
THEOREM OwnCorrectionsComeBack == Spec => OwnCorrectionsReturn
  <1>1. (PlanInv /\ CategoryInv) /\ [Next]_vars =>
          [Finish => \A h \in backup.wipe \cap Held :
              (backup.statements[h].manual /\ statements[h].text = backup.statements[h].text) =>
                  statements'[h].manual /\ statements'[h].category = backup.statements[h].category]_vars
    BY OwnCorrectionsReturnStep DEF PlanInv
  <1>2. Init => PlanInv /\ CategoryInv
    BY PlanInvInit, CategoryInit
  <1>3. (PlanInv /\ CategoryInv) /\ [Next]_vars => (PlanInv /\ CategoryInv)'
    BY PlanInvNext, CategoryNext
  <1>. QED  BY <1>1, <1>2, <1>3, PTL DEF Spec, OwnCorrectionsReturn

=============================================================================

------------------------- MODULE CaddyJournalProofs -------------------------
(***************************************************************************)
(* What is proved of the Caddy journal for every set of sites and hosts,   *)
(* with no hypothesis: the types and the mutual exclusion of the Caddy     *)
(* lock; that Caddy loads only what it validated; that a rejected reload   *)
(* leaves files it accepts, each as Caddy accepted it last; what of an     *)
(* operation's site its reload finds; and that an unstaged site stays gone.*)
(*                                                                         *)
(* Revertible is not inductive.  JournalInv adds what makes it so: the     *)
(* files without any write since the last accepted config (Before) are     *)
(* those Caddy accepted last, less some that were deleted, and what        *)
(* restore_sites would leave is Before, less some that were deleted.       *)
(***************************************************************************)
EXTENDS CaddyJournal, TLAPS

\* What an operation that is about to write its site, or a restore that is at
\* an entry, has in memory.
LocalOK ==
    /\ \A p \in Sites : pc[p] \in {"writeEntry", "writeSite"} => content[p] \in Contents
    /\ \A p \in Sites : pc[p] \in {"restoreSite", "restoreEntry"} => look.at \in Sites

\* The inductive invariant behind TypeOK.
TypeInv == TypeOK /\ LocalOK

\* The files without anything written since Caddy last accepted them.
Before == [p \in Sites |-> IF entry[p] # NoEntry THEN entry[p].previous ELSE site[p]]

\* Each is as Caddy accepted it last or deleted since, except while an accepted
\* reload forgets the entries; then the files themselves are.
BeforeLast ==
    (\A p \in Sites : pc[p] # "commit") => \A p \in Sites : Before[p] \in {accepted[p], NoSite}
SiteLast ==
    (\E p \in Sites : pc[p] = "commit") => \A p \in Sites : site[p] \in {accepted[p], NoSite}

\* A journaled site is as it was written, put back already, gone, or in the
\* hands of the operation that holds the Caddy lock.
WrittenOrGone ==
    \A p \in Sites :
        entry[p] # NoEntry =>
            \/ site[p] \in {entry[p].written, entry[p].previous, NoSite}
            \/ pc[p] = "writeSite"

\* What the operation in a section of the Caddy lock knows of the files.
SectionOK ==
    \A p \in Sites :
        /\ pc[p] = "writeSite" => entry[p] # NoEntry /\ entry[p].written = content[p]
        /\ pc[p] = "removeEntry" => site[p] = NoSite
        /\ pc[p] = "load" => Journaled = {}
        /\ pc[p] = "restoreSite" =>
              /\ entry[look.at] # NoEntry
              /\ ~look.matches => site[look.at] \in {entry[look.at].previous, NoSite}
        /\ pc[p] = "restoreEntry" => site[look.at] \in {entry[look.at].previous, NoSite}

\* An operation that has written and not yet reloaded has its site as it wrote
\* it, as Caddy accepted it last, or gone.
OwnSite ==
    \A p \in Sites :
        pc[p] \in {"written", "reload"} => site[p] \in {content[p], accepted[p], NoSite}

\* From its validation to its load, the files of an accepted reload are accepted.
ValidInSection == \A p \in Sites : pc[p] \in {"commit", "load"} => Accepts(site)

\* No operation lifts a quarantine.
NoLift == \A p \in Sites : pc[p] \notin {"readSite", "lift"}

\* The inductive invariant behind LoadsValidated.
LoadInv == LockedSoFar => NoLift /\ ValidInSection

\* The inductive invariant behind Revertible, WrittenOrTakenBack and
\* RestoresLastAccepted.
JournalInv ==
    /\ Accepts(accepted)
    /\ BeforeLast /\ SiteLast
    /\ WrittenOrGone /\ SectionOK /\ OwnSite

\* The inductive invariant behind RemovedStaysGone: a restore is never about to
\* put back a site that unstage removed.
RemovedInv ==
    /\ RemovedStaysGone
    /\ \A p \in Sites : pc[p] = "restoreSite" /\ look.matches => look.at \notin removed

-----------------------------------------------------------------------------
(* Lemmas about the files and the journal's entries. *)

\* An absent file is no content boxmunge writes; Caddy has nothing to refuse in it.
LEMMA Absent ==
    /\ NoSite \in SiteFiles /\ NoSite \notin Contents /\ NoSite.parses
    /\ NoEntry.previous = NoSite /\ NoEntry \notin Entries
<1>1. NoSite \in SiteFiles /\ NoSite.parses /\ NoEntry.previous = NoSite
  BY DEF SiteFiles, NoSite, NoEntry
<1>2. NoSite \notin Contents
  BY HostAssumption DEF NoSite, Contents
<1>3. NoEntry \notin Entries
  BY <1>2 DEF Entries, NoEntry
<1>4. QED
  BY <1>1, <1>2, <1>3

\* What Prepare writes: a site of the manifest's host.
LEMMA NewContent ==
    ASSUME NEW h \in Hosts, NEW parses \in BOOLEAN, NEW page \in BOOLEAN
    PROVE  [host |-> h, parses |-> parses, page |-> page] \in Contents
  BY DEF Contents

\* An entry that write_site wrote names what it replaced and what it wrote.
LEMMA EntryFields ==
    ASSUME NEW e \in Entries \cup {NoEntry}
    PROVE  /\ e.previous \in SiteFiles
           /\ e # NoEntry => e \in Entries /\ e.written \in Contents
<1>1. CASE e \in Entries
  BY <1>1 DEF Entries
<1>2. CASE e = NoEntry
  BY <1>2, Absent
<1>3. QED
  BY <1>1, <1>2

\* write_site's record is an entry.
LEMMA NewEntry ==
    ASSUME NEW old \in SiteFiles, NEW new \in Contents
    PROVE  /\ [previous |-> old, written |-> new] \in Entries
           /\ [previous |-> old, written |-> new] # NoEntry
<1>1. [previous |-> old, written |-> new] \in Entries
  BY DEF Entries
<1>2. QED
  BY <1>1, Absent

\* Deleting site files never makes Caddy refuse the others (remove_site).
LEMMA Fewer ==
    ASSUME NEW s, NEW t, Accepts(s), \A p \in Sites : t[p] \in {s[p], NoSite}
    PROVE  Accepts(t)
<1>1. \A p \in Sites : t[p].parses
  BY Absent DEF Accepts
<1>2. ASSUME NEW p \in Sites, NEW q \in Sites, p # q, t[p] # NoSite, t[q] # NoSite
      PROVE  t[p].host # t[q].host
  BY <1>2 DEF Accepts
<1>3. QED
  BY <1>1, <1>2 DEF Accepts

\* No file at all is accepted.
LEMMA NothingAccepted ==
    ASSUME NEW s, \A p \in Sites : s[p] = NoSite PROVE Accepts(s)
  BY Absent DEF Accepts

\* Two operations are never both inside a section of the Caddy lock.
LEMMA OneHolder ==
    ASSUME TypeOK, NEW p \in Sites, pc[p] \in LockedPcs
    PROVE  lock = p /\ \A q \in Sites \ {p} : pc[q] \notin LockedPcs
  BY DEF TypeOK

-----------------------------------------------------------------------------
(* The types. *)

\* A disturbance ends the calm, and a write without the lock is remembered as one.
LEMMA Disturbed ==
    ASSUME TypeOK, NEW kind \in Disturbances, Disturb(kind)
    PROVE  /\ past' \in [Disturbances -> Nat] /\ accepted' \in [Sites -> SiteFiles]
           /\ \A d \in Disturbances : past'[d] >= past[d]
           /\ ~Calm' /\ (kind # "kill" => ~LockedSoFar')
<1>1. past \in [Disturbances -> Nat] /\ past' = [past EXCEPT ![kind] = @ + 1]
  BY DEF TypeOK, Disturb
<1>2. past' \in [Disturbances -> Nat] /\ \A d \in Disturbances : past'[d] >= past[d]
  BY <1>1
<1>3. past'[kind] # 0
  BY <1>1
<1>4. accepted' \in [Sites -> SiteFiles]
  BY Absent DEF Disturb
<1>5. QED
  BY <1>2, <1>3, <1>4 DEF Calm, LockedSoFar, Disturbances

\* The names of the disturbances.
LEMMA Kinds == {"page", "lift", "kill"} \subseteq Disturbances
  BY DEF Disturbances

\* Every step of an operation, a crash and a restart of Caddy keep the types.
LEMMA TypeStep == TypeInv /\ [Next]_vars => TypeInv'
<1> SUFFICES ASSUME TypeInv, [Next]_vars PROVE TypeInv'
  OBVIOUS
<1> USE FreeAssumption DEF Goto, files, local, history
<1>1. CASE UNCHANGED vars
  BY <1>1 DEF vars, TypeInv, TypeOK, LocalOK
<1>2. CASE CaddyStops \/ CaddyStarts
  BY <1>2 DEF CaddyStops, CaddyStarts, TypeInv, TypeOK, LocalOK
<1>3. ASSUME NEW p \in Sites, Prepare(p) PROVE TypeInv'
  <2>1. PICK h \in Hosts, parses \in BOOLEAN :
            /\ host' = [host EXCEPT ![p] = h]
            /\ content' = [content EXCEPT ![p] = [host |-> h, parses |-> parses, page |-> FALSE]]
    BY <1>3 DEF Prepare
  <2>2. content'[p] \in Contents /\ content' \in [Sites -> SiteFiles]
    BY <2>1, NewContent DEF TypeInv, TypeOK, SiteFiles
  <2>3. TypeOK'
    BY <1>3, <2>1, <2>2 DEF Prepare, TypeInv, TypeOK, Pcs, LockedPcs
  <2>4. LocalOK'
    BY <1>3, <2>1, <2>2 DEF Prepare, TypeInv, TypeOK, LocalOK
  <2>5. QED
    BY <2>3, <2>4 DEF TypeInv
<1>4. ASSUME NEW p \in Sites, WriteEntry(p) PROVE TypeInv'
  <2>1. TypeOK'
    BY <1>4, NewEntry, EntryFields DEF WriteEntry, Previous, TypeInv, TypeOK, LocalOK,
       Pcs, LockedPcs, SiteFiles, NoLook
  <2>2. LocalOK'
    BY <1>4, NewEntry, EntryFields DEF WriteEntry, Previous, TypeInv, TypeOK, LocalOK,
       Pcs, LockedPcs, SiteFiles, NoLook
  <2>3. QED
    BY <2>1, <2>2 DEF TypeInv
<1>5. ASSUME NEW p \in Sites, WriteSite(p) PROVE TypeInv'
  <2>1. TypeOK'
    BY <1>5 DEF WriteSite, TypeInv, TypeOK, LocalOK, Pcs, LockedPcs, SiteFiles, NoLook
  <2>2. LocalOK'
    BY <1>5 DEF WriteSite, TypeInv, TypeOK, LocalOK, Pcs, LockedPcs, SiteFiles, NoLook
  <2>3. QED
    BY <2>1, <2>2 DEF TypeInv
<1>6. ASSUME NEW p \in Sites, Proceed(p) PROVE TypeInv'
  <2>0. past' \in [Disturbances -> Nat] /\ accepted' \in [Sites -> SiteFiles]
    BY <1>6, Kinds, Disturbed DEF Proceed, TypeInv, TypeOK
  <2>1. TypeOK'
    BY <1>6, <2>0, Absent DEF Proceed, Finish, TypeInv, TypeOK, LocalOK, Pcs, LockedPcs,
       SiteFiles, NoLook
  <2>2. LocalOK'
    BY <1>6, Absent DEF Proceed, Finish, TypeInv, TypeOK, LocalOK, Pcs, LockedPcs,
       SiteFiles, NoLook
  <2>3. QED
    BY <2>1, <2>2 DEF TypeInv
<1>7. ASSUME NEW p \in Sites, Page(p) PROVE TypeInv'
  <2>0. past' \in [Disturbances -> Nat] /\ accepted' \in [Sites -> SiteFiles]
    BY <1>7, Kinds, Disturbed DEF Page, TypeInv, TypeOK
  <2>1. TypeOK'
    BY <1>7, <2>0, NewContent DEF Page, TypeInv, TypeOK, LocalOK, Pcs, LockedPcs, SiteFiles,
       NoLook
  <2>2. LocalOK'
    BY <1>7, NewContent DEF Page, TypeInv, TypeOK, LocalOK, Pcs, LockedPcs, SiteFiles,
       NoLook
  <2>3. QED
    BY <2>1, <2>2 DEF TypeInv
<1>8. ASSUME NEW p \in Sites, Delete(p) PROVE TypeInv'
  <2>1. TypeOK'
    BY <1>8, Absent DEF Delete, TypeInv, TypeOK, LocalOK, Pcs, LockedPcs, SiteFiles, NoLook
  <2>2. LocalOK'
    BY <1>8, Absent DEF Delete, TypeInv, TypeOK, LocalOK, Pcs, LockedPcs, SiteFiles, NoLook
  <2>3. QED
    BY <2>1, <2>2 DEF TypeInv
<1>9. ASSUME NEW p \in Sites, ReadSite(p) PROVE TypeInv'
  <2>1. TypeOK'
    BY <1>9 DEF ReadSite, TypeInv, TypeOK, LocalOK, Pcs, LockedPcs, SiteFiles, NoLook
  <2>2. LocalOK'
    BY <1>9 DEF ReadSite, TypeInv, TypeOK, LocalOK, Pcs, LockedPcs, SiteFiles, NoLook
  <2>3. QED
    BY <2>1, <2>2 DEF TypeInv
<1>10. ASSUME NEW p \in Sites, Lift(p) PROVE TypeInv'
  <2>1. TypeOK'
    BY <1>10 DEF Lift, TypeInv, TypeOK, LocalOK, Pcs, LockedPcs, SiteFiles, NoLook
  <2>2. LocalOK'
    BY <1>10 DEF Lift, TypeInv, TypeOK, LocalOK, Pcs, LockedPcs, SiteFiles, NoLook
  <2>3. QED
    BY <2>1, <2>2 DEF TypeInv
<1>11. ASSUME NEW p \in Sites, RemoveSite(p) PROVE TypeInv'
  <2>1. TypeOK'
    BY <1>11, Absent DEF RemoveSite, TypeInv, TypeOK, LocalOK, Pcs, LockedPcs, SiteFiles,
       NoLook
  <2>2. LocalOK'
    BY <1>11, Absent DEF RemoveSite, TypeInv, TypeOK, LocalOK, Pcs, LockedPcs, SiteFiles,
       NoLook
  <2>3. QED
    BY <2>1, <2>2 DEF TypeInv
<1>12. ASSUME NEW p \in Sites, RemoveEntry(p) PROVE TypeInv'
  <2>1. TypeOK'
    BY <1>12 DEF RemoveEntry, TypeInv, TypeOK, LocalOK, Pcs, LockedPcs, SiteFiles, NoLook
  <2>2. LocalOK'
    BY <1>12 DEF RemoveEntry, TypeInv, TypeOK, LocalOK, Pcs, LockedPcs, SiteFiles, NoLook
  <2>3. QED
    BY <2>1, <2>2 DEF TypeInv
<1>13. ASSUME NEW p \in Sites, Validate(p) PROVE TypeInv'
  <2>1. TypeOK'
    BY <1>13 DEF Validate, Remember, TypeInv, TypeOK, LocalOK, Pcs, LockedPcs, SiteFiles, NoLook
  <2>2. LocalOK'
    BY <1>13 DEF Validate, Remember, TypeInv, TypeOK, LocalOK, Pcs, LockedPcs, SiteFiles, NoLook
  <2>3. QED
    BY <2>1, <2>2 DEF TypeInv
<1>14. ASSUME NEW p \in Sites, ReloadDown(p) PROVE TypeInv'
  <2>1. TypeOK'
    BY <1>14, Absent DEF ReloadDown, Finish, TypeInv, TypeOK, LocalOK, Pcs, LockedPcs,
       SiteFiles, NoLook
  <2>2. LocalOK'
    BY <1>14, Absent DEF ReloadDown, Finish, TypeInv, TypeOK, LocalOK, Pcs, LockedPcs,
       SiteFiles, NoLook
  <2>3. QED
    BY <2>1, <2>2 DEF TypeInv
<1>15. ASSUME NEW p \in Sites, NEW q \in Sites, CommitEntry(p, q) PROVE TypeInv'
  <2>1. TypeOK'
    BY <1>15 DEF CommitEntry, TypeInv, TypeOK, LocalOK, Pcs, LockedPcs, SiteFiles, NoLook
  <2>2. LocalOK'
    BY <1>15 DEF CommitEntry, TypeInv, TypeOK, LocalOK, Pcs, LockedPcs, SiteFiles, NoLook
  <2>3. QED
    BY <2>1, <2>2 DEF TypeInv
<1>16. ASSUME NEW p \in Sites, Committed(p) PROVE TypeInv'
  <2>1. TypeOK'
    BY <1>16 DEF Committed, TypeInv, TypeOK, LocalOK, Pcs, LockedPcs, SiteFiles, NoLook
  <2>2. LocalOK'
    BY <1>16 DEF Committed, TypeInv, TypeOK, LocalOK, Pcs, LockedPcs, SiteFiles, NoLook
  <2>3. QED
    BY <2>1, <2>2 DEF TypeInv
<1>17. ASSUME NEW p \in Sites, Load(p) PROVE TypeInv'
  <2>1. TypeOK'
    BY <1>17, Absent DEF Load, Finish, TypeInv, TypeOK, LocalOK, Pcs, LockedPcs,
       SiteFiles, NoLook
  <2>2. LocalOK'
    BY <1>17, Absent DEF Load, Finish, TypeInv, TypeOK, LocalOK, Pcs, LockedPcs,
       SiteFiles, NoLook
  <2>3. QED
    BY <2>1, <2>2 DEF TypeInv
<1>18. ASSUME NEW p \in Sites, LoadFails(p) PROVE TypeInv'
  <2>1. TypeOK'
    BY <1>18, Absent DEF LoadFails, Finish, TypeInv, TypeOK, LocalOK, Pcs, LockedPcs,
       SiteFiles, NoLook
  <2>2. LocalOK'
    BY <1>18, Absent DEF LoadFails, Finish, TypeInv, TypeOK, LocalOK, Pcs, LockedPcs,
       SiteFiles, NoLook
  <2>3. QED
    BY <2>1, <2>2 DEF TypeInv
<1>19. ASSUME NEW p \in Sites, NEW q \in Sites, RestoreRead(p, q) PROVE TypeInv'
  <2>1. TypeOK'
    BY <1>19 DEF RestoreRead, TypeInv, TypeOK, LocalOK, Pcs, LockedPcs, SiteFiles, NoLook
  <2>2. LocalOK'
    BY <1>19 DEF RestoreRead, TypeInv, TypeOK, LocalOK, Pcs, LockedPcs, SiteFiles, NoLook
  <2>3. QED
    BY <2>1, <2>2 DEF TypeInv
<1>20. ASSUME NEW p \in Sites, RestoreSite(p) PROVE TypeInv'
  <2>1. TypeOK'
    BY <1>20, EntryFields DEF RestoreSite, TypeInv, TypeOK, LocalOK, Pcs, LockedPcs,
       SiteFiles, NoLook
  <2>2. LocalOK'
    BY <1>20, EntryFields DEF RestoreSite, TypeInv, TypeOK, LocalOK, Pcs, LockedPcs,
       SiteFiles, NoLook
  <2>3. QED
    BY <2>1, <2>2 DEF TypeInv
<1>21. ASSUME NEW p \in Sites, RestoreEntry(p) PROVE TypeInv'
  <2>1. TypeOK'
    BY <1>21 DEF RestoreEntry, TypeInv, TypeOK, LocalOK, Pcs, LockedPcs, SiteFiles, NoLook
  <2>2. LocalOK'
    BY <1>21 DEF RestoreEntry, TypeInv, TypeOK, LocalOK, Pcs, LockedPcs, SiteFiles, NoLook
  <2>3. QED
    BY <2>1, <2>2 DEF TypeInv
<1>22. ASSUME NEW p \in Sites, Rejected(p) PROVE TypeInv'
  <2>1. TypeOK'
    BY <1>22, Absent DEF Rejected, Finish, TypeInv, TypeOK, LocalOK, Pcs, LockedPcs,
       SiteFiles, NoLook
  <2>2. LocalOK'
    BY <1>22, Absent DEF Rejected, Finish, TypeInv, TypeOK, LocalOK, Pcs, LockedPcs,
       SiteFiles, NoLook
  <2>3. QED
    BY <2>1, <2>2 DEF TypeInv
<1>23. ASSUME NEW p \in Sites, Crash(p) PROVE TypeInv'
  <2>0. past' \in [Disturbances -> Nat] /\ accepted' \in [Sites -> SiteFiles]
    BY <1>23, Kinds, Disturbed DEF Crash, TypeInv, TypeOK
  <2>1. TypeOK'
    BY <1>23, <2>0, Absent DEF Crash, Finish, TypeInv, TypeOK, LocalOK, Pcs, LockedPcs,
       SiteFiles, NoLook
  <2>2. LocalOK'
    BY <1>23, Absent DEF Crash, Finish, TypeInv, TypeOK, LocalOK, Pcs, LockedPcs,
       SiteFiles, NoLook
  <2>3. QED
    BY <2>1, <2>2 DEF TypeInv
<1>24. QED
  BY <1>1, <1>2, <1>3, <1>4, <1>5, <1>6, <1>7, <1>8, <1>9, <1>10, <1>11, <1>12, <1>13,
     <1>14,
     <1>15, <1>16, <1>17, <1>18, <1>19, <1>20, <1>21, <1>22, <1>23
     DEF Next, Write, Unlocked, Remove, Accept, Restore

\* No operation holds the lock at first.
LEMMA InitTypes == Init => TypeInv
  BY Absent, FreeAssumption
     DEF Init, TypeInv, TypeOK, LocalOK, Pcs, LockedPcs, NoLook

\* The types hold, and the global Caddy lock is held by exactly the operation
\* that is inside one of its sections, whatever is killed (caddy_config_lock).
THEOREM TypeCorrect == Spec => []TypeOK
<1>1. Init => TypeInv
  BY InitTypes
<1>2. TypeInv /\ [Next]_vars => TypeInv'
  BY TypeStep
<1>3. TypeInv => TypeOK
  BY DEF TypeInv
<1>4. QED
  BY <1>1, <1>2, <1>3, PTL DEF Spec

-----------------------------------------------------------------------------
(* The histories. *)

\* What has happened stays happened; while it is calm, nothing is added.
LEMMA PastGrows ==
    ASSUME TypeOK, [Next]_vars
    PROVE  (LockedSoFar' => LockedSoFar) /\ (Calm' => Calm /\ past' = past)
<1>1. past' = past \/ \E kind \in Disturbances : Disturb(kind)
  BY Kinds DEF Next, Write, Prepare, WriteEntry, WriteSite, Proceed, Unlocked, Page, Delete,
     ReadSite, Lift, Remove, RemoveSite, RemoveEntry, Accept, Validate, ReloadDown,
     CommitEntry, Committed, Load, LoadFails, Restore, RestoreRead, RestoreSite,
     RestoreEntry, Rejected, CaddyStops, CaddyStarts, Crash, vars, history
<1>2. CASE past' = past
  BY <1>2 DEF Calm, LockedSoFar
<1>3. ASSUME NEW kind \in Disturbances, Disturb(kind)
      PROVE  ~Calm' /\ (LockedSoFar' => LockedSoFar)
  <2>1. past \in [Disturbances -> Nat] /\ past' \in [Disturbances -> Nat]
        /\ \A d \in Disturbances : past'[d] >= past[d]
    BY <1>3, Disturbed DEF TypeOK
  <2>2. past'["page"] = 0 => past["page"] = 0
    BY <2>1, Kinds
  <2>3. past'["lift"] = 0 => past["lift"] = 0
    BY <2>1, Kinds
  <2>4. QED
    BY <1>3, <2>2, <2>3, Disturbed DEF LockedSoFar
<1>4. QED
  BY <1>1, <1>2, <1>3

-----------------------------------------------------------------------------
(* What is loaded was validated. *)

\* Every step keeps a validated set of files acceptable until it is loaded.
LEMMA LoadStep == TypeInv /\ LoadInv /\ [Next]_vars => LoadInv'
<1> SUFFICES ASSUME TypeInv, LoadInv, [Next]_vars, LockedSoFar'
             PROVE  (NoLift /\ ValidInSection)'
  BY DEF LoadInv
<1>0. NoLift /\ ValidInSection
  BY PastGrows DEF LoadInv, TypeInv
<1> USE <1>0, FreeAssumption DEF Goto, files, local
<1>1. CASE UNCHANGED vars
  BY <1>1 DEF vars, NoLift, ValidInSection
<1>2. CASE CaddyStops \/ CaddyStarts
  BY <1>2 DEF CaddyStops, CaddyStarts, NoLift, ValidInSection
<1>3. ASSUME NEW p \in Sites, Prepare(p) PROVE (NoLift /\ ValidInSection)'
  BY <1>3 DEF Prepare, NoLift, ValidInSection, TypeInv, TypeOK, LockedPcs
<1>4. ASSUME NEW p \in Sites, WriteEntry(p) PROVE (NoLift /\ ValidInSection)'
  BY <1>4 DEF WriteEntry, NoLift, ValidInSection, TypeInv, TypeOK, LockedPcs
<1>5. ASSUME NEW p \in Sites, WriteSite(p) PROVE (NoLift /\ ValidInSection)'
  BY <1>5 DEF WriteSite, NoLift, ValidInSection, TypeInv, TypeOK, LockedPcs
<1>6. ASSUME NEW p \in Sites, Proceed(p) PROVE (NoLift /\ ValidInSection)'
  <2>1. ~Disturb("lift")
    BY Kinds, Disturbed DEF TypeInv
  <2>2. QED
    BY <1>6, <2>1 DEF Proceed, Finish, NoLift, ValidInSection, TypeInv, TypeOK, LockedPcs
<1>7. ASSUME NEW p \in Sites, Page(p) PROVE (NoLift /\ ValidInSection)'
  BY <1>7, Kinds, Disturbed DEF Page, TypeInv
<1>8. ASSUME NEW p \in Sites, Delete(p) PROVE (NoLift /\ ValidInSection)'
  <2>1. \A q \in Sites : site'[q] \in {site[q], NoSite}
    BY <1>8 DEF Delete, TypeInv, TypeOK
  <2>2. Accepts(site) => Accepts(site')
    BY <2>1, Fewer
  <2>3. QED
    BY <1>8, <2>2 DEF Delete, NoLift, ValidInSection, TypeInv, TypeOK
<1>9. ASSUME NEW p \in Sites, ReadSite(p) PROVE (NoLift /\ ValidInSection)'
  BY <1>9 DEF ReadSite, NoLift, ValidInSection, TypeInv, TypeOK, LockedPcs
<1>10. ASSUME NEW p \in Sites, Lift(p) PROVE (NoLift /\ ValidInSection)'
  BY <1>10 DEF Lift, NoLift, ValidInSection, TypeInv, TypeOK, LockedPcs
<1>11. ASSUME NEW p \in Sites, RemoveSite(p) PROVE (NoLift /\ ValidInSection)'
  BY <1>11 DEF RemoveSite, NoLift, ValidInSection, TypeInv, TypeOK, LockedPcs
<1>12. ASSUME NEW p \in Sites, RemoveEntry(p) PROVE (NoLift /\ ValidInSection)'
  BY <1>12 DEF RemoveEntry, NoLift, ValidInSection, TypeInv, TypeOK, LockedPcs
<1>13. ASSUME NEW p \in Sites, Validate(p) PROVE (NoLift /\ ValidInSection)'
  BY <1>13 DEF Validate, NoLift, ValidInSection, TypeInv, TypeOK, LockedPcs
<1>14. ASSUME NEW p \in Sites, ReloadDown(p) PROVE (NoLift /\ ValidInSection)'
  BY <1>14 DEF ReloadDown, Finish, NoLift, ValidInSection, TypeInv, TypeOK, LockedPcs
<1>15. ASSUME NEW p \in Sites, NEW q \in Sites, CommitEntry(p, q) PROVE (NoLift /\ ValidInSection)'
  BY <1>15 DEF CommitEntry, NoLift, ValidInSection, TypeInv, TypeOK, LockedPcs
<1>16. ASSUME NEW p \in Sites, Committed(p) PROVE (NoLift /\ ValidInSection)'
  BY <1>16 DEF Committed, NoLift, ValidInSection, TypeInv, TypeOK, LockedPcs
<1>17. ASSUME NEW p \in Sites, Load(p) PROVE (NoLift /\ ValidInSection)'
  BY <1>17 DEF Load, Finish, NoLift, ValidInSection, TypeInv, TypeOK, LockedPcs
<1>18. ASSUME NEW p \in Sites, LoadFails(p) PROVE (NoLift /\ ValidInSection)'
  BY <1>18 DEF LoadFails, Finish, NoLift, ValidInSection, TypeInv, TypeOK, LockedPcs
<1>19. ASSUME NEW p \in Sites, NEW q \in Sites, RestoreRead(p, q) PROVE (NoLift /\ ValidInSection)'
  BY <1>19 DEF RestoreRead, NoLift, ValidInSection, TypeInv, TypeOK, LockedPcs
<1>20. ASSUME NEW p \in Sites, RestoreSite(p) PROVE (NoLift /\ ValidInSection)'
  BY <1>20 DEF RestoreSite, NoLift, ValidInSection, TypeInv, TypeOK, LockedPcs
<1>21. ASSUME NEW p \in Sites, RestoreEntry(p) PROVE (NoLift /\ ValidInSection)'
  BY <1>21 DEF RestoreEntry, NoLift, ValidInSection, TypeInv, TypeOK, LockedPcs
<1>22. ASSUME NEW p \in Sites, Rejected(p) PROVE (NoLift /\ ValidInSection)'
  BY <1>22 DEF Rejected, Finish, NoLift, ValidInSection, TypeInv, TypeOK, LockedPcs
<1>23. ASSUME NEW p \in Sites, Crash(p) PROVE (NoLift /\ ValidInSection)'
  BY <1>23 DEF Crash, Finish, NoLift, ValidInSection, TypeInv, TypeOK, LockedPcs
<1>24. QED
  BY <1>1, <1>2, <1>3, <1>4, <1>5, <1>6, <1>7, <1>8, <1>9, <1>10, <1>11, <1>12, <1>13,
     <1>14,
     <1>15, <1>16, <1>17, <1>18, <1>19, <1>20, <1>21, <1>22, <1>23
     DEF Next, Write, Unlocked, Remove, Accept, Restore

\* The files that Caddy is told to load are ones it accepts, whatever is killed
\* and however the hosts of the releases change, until something writes without
\* the Caddy lock (caddy_config_lock).
THEOREM LoadsValidatedHolds == Spec => []LoadsValidated
<1>1. Init => TypeInv /\ LoadInv
  BY InitTypes DEF Init, LoadInv, NoLift, ValidInSection
<1>2. TypeInv /\ LoadInv /\ [Next]_vars => (TypeInv /\ LoadInv)'
  BY TypeStep, LoadStep
<1>3. LoadInv => LoadsValidated
  BY DEF LoadInv, ValidInSection, LoadsValidated
<1>4. QED
  BY <1>1, <1>2, <1>3, PTL DEF Spec

-----------------------------------------------------------------------------
(* A rejected reload leaves files that Caddy accepts. *)

\* Every step keeps the journal fit to take every unaccepted write back.
LEMMA JournalStep ==
    TypeInv /\ LoadInv /\ (Calm => JournalInv) /\ [Next]_vars => (Calm => JournalInv)'
<1> SUFFICES ASSUME TypeInv, LoadInv, Calm => JournalInv, [Next]_vars, Calm'
             PROVE  JournalInv'
  OBVIOUS
<1>0. Calm /\ JournalInv /\ NoLift /\ ValidInSection
  BY PastGrows DEF LoadInv, TypeInv, Calm
<1>00. \A kind \in Disturbances : ~Disturb(kind)
  BY Disturbed DEF TypeInv
<1> USE <1>0, FreeAssumption DEF Goto, files, local, history
<1>1. CASE UNCHANGED vars
  BY <1>1 DEF vars, JournalInv, BeforeLast, SiteLast, WrittenOrGone, SectionOK, OwnSite,
              Before, Journaled
<1>2. CASE CaddyStops \/ CaddyStarts
  BY <1>2 DEF CaddyStops, CaddyStarts, JournalInv, BeforeLast, SiteLast, WrittenOrGone,
              SectionOK, OwnSite, Before, Journaled
<1>3. ASSUME NEW p \in Sites, Prepare(p) PROVE JournalInv'
  <2>1. Accepts(accepted)'
    BY <1>3, Absent, EntryFields DEF Prepare, JournalInv,
       SectionOK, TypeInv, TypeOK, LocalOK, LockedPcs
  <2>2. BeforeLast'
    BY <1>3, Absent, EntryFields DEF Prepare, JournalInv,
       BeforeLast, SectionOK, Before, TypeInv, TypeOK, LocalOK, LockedPcs
  <2>3. SiteLast'
    BY <1>3, Absent, EntryFields DEF Prepare, JournalInv,
       SiteLast, SectionOK, TypeInv, TypeOK, LocalOK, LockedPcs
  <2>4. WrittenOrGone'
    BY <1>3, Absent, EntryFields DEF Prepare, JournalInv,
       WrittenOrGone, SectionOK, TypeInv, TypeOK, LocalOK, LockedPcs
  <2>5. SectionOK'
    BY <1>3, Absent, EntryFields DEF Prepare, JournalInv,
       WrittenOrGone, SectionOK, Journaled, TypeInv, TypeOK, LocalOK, LockedPcs
  <2>6. OwnSite'
    BY <1>3, Absent, EntryFields DEF Prepare, JournalInv,
       OwnSite, SectionOK, TypeInv, TypeOK, LocalOK, LockedPcs
  <2>7. QED
    BY <2>1, <2>2, <2>3, <2>4, <2>5, <2>6 DEF JournalInv
<1>4. ASSUME NEW p \in Sites, WriteEntry(p) PROVE JournalInv'
  <2>1. Accepts(accepted)'
    BY <1>4, Absent, EntryFields DEF WriteEntry, Previous, JournalInv,
       SectionOK, TypeInv, TypeOK, LocalOK, LockedPcs
  <2>2. BeforeLast'
    <3>1. content[p] \in Contents /\ Previous(p) \in SiteFiles
      BY <1>4, EntryFields DEF WriteEntry, Previous, TypeInv, TypeOK, LocalOK
    <3>2. entry'[p] # NoEntry /\ entry'[p].previous = Previous(p)
      BY <1>4, <3>1, NewEntry DEF WriteEntry, TypeInv, TypeOK
    <3>3. \A r \in Sites : Before'[r] = Before[r]
      BY <1>4, <3>2 DEF WriteEntry, Previous, Before, TypeInv, TypeOK
    <3>4. QED
      BY <1>4, <3>3 DEF WriteEntry, JournalInv, BeforeLast, TypeInv, TypeOK
  <2>3. SiteLast'
    BY <1>4, Absent, EntryFields DEF WriteEntry, Previous, JournalInv,
       SiteLast, SectionOK, TypeInv, TypeOK, LocalOK, LockedPcs
  <2>4. WrittenOrGone'
    BY <1>4, Absent, EntryFields DEF WriteEntry, Previous, JournalInv,
       WrittenOrGone, SectionOK, TypeInv, TypeOK, LocalOK, LockedPcs
  <2>5. SectionOK'
    <3>1. content[p] \in Contents /\ Previous(p) \in SiteFiles
      BY <1>4, EntryFields DEF WriteEntry, Previous, TypeInv, TypeOK, LocalOK
    <3>2. entry'[p] # NoEntry /\ entry'[p].written = content[p]
      BY <1>4, <3>1, NewEntry DEF WriteEntry, TypeInv, TypeOK
    <3>3. \A r \in Sites : r # p => pc'[r] = pc[r] /\ pc[r] \notin LockedPcs
      BY <1>4 DEF WriteEntry, TypeInv, TypeOK
    <3>4. pc'[p] = "writeSite" /\ content' = content
      BY <1>4 DEF WriteEntry, TypeInv, TypeOK
    <3>5. QED
      BY <3>2, <3>3, <3>4 DEF SectionOK, LockedPcs
  <2>6. OwnSite'
    BY <1>4, Absent, EntryFields DEF WriteEntry, Previous, JournalInv,
       OwnSite, SectionOK, TypeInv, TypeOK, LocalOK, LockedPcs
  <2>7. QED
    BY <2>1, <2>2, <2>3, <2>4, <2>5, <2>6 DEF JournalInv
<1>5. ASSUME NEW p \in Sites, WriteSite(p) PROVE JournalInv'
  <2>1. Accepts(accepted)'
    BY <1>5, Absent, EntryFields DEF WriteSite, JournalInv,
       SectionOK, TypeInv, TypeOK, LocalOK, LockedPcs
  <2>2. BeforeLast'
    BY <1>5, Absent, EntryFields DEF WriteSite, JournalInv,
       BeforeLast, SectionOK, Before, TypeInv, TypeOK, LocalOK, LockedPcs
  <2>3. SiteLast'
    BY <1>5, Absent, EntryFields DEF WriteSite, JournalInv,
       SiteLast, SectionOK, TypeInv, TypeOK, LocalOK, LockedPcs
  <2>4. WrittenOrGone'
    BY <1>5, Absent, EntryFields DEF WriteSite, JournalInv,
       WrittenOrGone, SectionOK, TypeInv, TypeOK, LocalOK, LockedPcs
  <2>5. SectionOK'
    BY <1>5, Absent, EntryFields DEF WriteSite, JournalInv,
       WrittenOrGone, SectionOK, Journaled, TypeInv, TypeOK, LocalOK, LockedPcs
  <2>6. OwnSite'
    BY <1>5, Absent, EntryFields DEF WriteSite, JournalInv,
       OwnSite, SectionOK, TypeInv, TypeOK, LocalOK, LockedPcs
  <2>7. QED
    BY <2>1, <2>2, <2>3, <2>4, <2>5, <2>6 DEF JournalInv
<1>6. ASSUME NEW p \in Sites, Proceed(p) PROVE JournalInv'
  <2>0. ~Disturb("lift")
    BY <1>00, Kinds
  <2>1. Accepts(accepted)'
    BY <1>6, <2>0, Absent, EntryFields DEF Proceed, Finish, JournalInv,
       SectionOK, TypeInv, TypeOK, LocalOK, LockedPcs
  <2>2. BeforeLast'
    BY <1>6, <2>0, Absent, EntryFields DEF Proceed, Finish, JournalInv,
       BeforeLast, SectionOK, Before, TypeInv, TypeOK, LocalOK, LockedPcs
  <2>3. SiteLast'
    BY <1>6, <2>0, Absent, EntryFields DEF Proceed, Finish, JournalInv,
       SiteLast, SectionOK, TypeInv, TypeOK, LocalOK, LockedPcs
  <2>4. WrittenOrGone'
    BY <1>6, <2>0, Absent, EntryFields DEF Proceed, Finish, JournalInv,
       WrittenOrGone, SectionOK, TypeInv, TypeOK, LocalOK, LockedPcs
  <2>5. SectionOK'
    BY <1>6, <2>0, Absent, EntryFields DEF Proceed, Finish, JournalInv,
       WrittenOrGone, SectionOK, Journaled, TypeInv, TypeOK, LocalOK, LockedPcs
  <2>6. OwnSite'
    BY <1>6, <2>0, Absent, EntryFields DEF Proceed, Finish, JournalInv,
       OwnSite, SectionOK, TypeInv, TypeOK, LocalOK, LockedPcs
  <2>7. QED
    BY <2>1, <2>2, <2>3, <2>4, <2>5, <2>6 DEF JournalInv
<1>7. ASSUME NEW p \in Sites, Page(p) PROVE JournalInv'
  BY <1>7, <1>00, Kinds DEF Page
<1>8. ASSUME NEW p \in Sites, Delete(p) PROVE JournalInv'
  <2>1. Accepts(accepted)'
    BY <1>8, Absent, EntryFields DEF Delete, JournalInv,
       SectionOK, TypeInv, TypeOK, LocalOK, LockedPcs
  <2>2. BeforeLast'
    <3>1. \A r \in Sites : Before'[r] \in {Before[r], NoSite}
      BY <1>8, Absent DEF Delete, JournalInv, SectionOK, LocalOK, Before, TypeInv, TypeOK
    <3>2. (\A r \in Sites : pc'[r] # "commit") => \A r \in Sites : pc[r] # "commit"
      BY <1>8 DEF Delete, TypeInv, TypeOK
    <3>3. QED
      BY <1>8, <3>1, <3>2 DEF Delete, JournalInv, BeforeLast
  <2>3. SiteLast'
    BY <1>8, Absent, EntryFields DEF Delete, JournalInv,
       SiteLast, SectionOK, TypeInv, TypeOK, LocalOK, LockedPcs
  <2>4. WrittenOrGone'
    BY <1>8, Absent, EntryFields DEF Delete, JournalInv,
       WrittenOrGone, SectionOK, TypeInv, TypeOK, LocalOK, LockedPcs
  <2>5. SectionOK'
    BY <1>8, Absent, EntryFields DEF Delete, JournalInv,
       WrittenOrGone, SectionOK, Journaled, TypeInv, TypeOK, LocalOK, LockedPcs
  <2>6. OwnSite'
    BY <1>8, Absent, EntryFields DEF Delete, JournalInv,
       OwnSite, SectionOK, TypeInv, TypeOK, LocalOK, LockedPcs
  <2>7. QED
    BY <2>1, <2>2, <2>3, <2>4, <2>5, <2>6 DEF JournalInv
<1>9. ASSUME NEW p \in Sites, ReadSite(p) PROVE JournalInv'
  BY <1>9 DEF ReadSite, NoLift
<1>10. ASSUME NEW p \in Sites, Lift(p) PROVE JournalInv'
  BY <1>10 DEF Lift, NoLift
<1>11. ASSUME NEW p \in Sites, RemoveSite(p) PROVE JournalInv'
  <2>1. Accepts(accepted)'
    BY <1>11, Absent, EntryFields DEF RemoveSite, JournalInv,
       SectionOK, TypeInv, TypeOK, LocalOK, LockedPcs
  <2>2. BeforeLast'
    <3>1. \A r \in Sites : Before'[r] \in {Before[r], NoSite}
      BY <1>11, Absent DEF RemoveSite, JournalInv, SectionOK, LocalOK, Before, TypeInv, TypeOK
    <3>2. (\A r \in Sites : pc'[r] # "commit") => \A r \in Sites : pc[r] # "commit"
      BY <1>11 DEF RemoveSite, TypeInv, TypeOK
    <3>3. QED
      BY <1>11, <3>1, <3>2 DEF RemoveSite, JournalInv, BeforeLast
  <2>3. SiteLast'
    BY <1>11, Absent, EntryFields DEF RemoveSite, JournalInv,
       SiteLast, SectionOK, TypeInv, TypeOK, LocalOK, LockedPcs
  <2>4. WrittenOrGone'
    BY <1>11, Absent, EntryFields DEF RemoveSite, JournalInv,
       WrittenOrGone, SectionOK, TypeInv, TypeOK, LocalOK, LockedPcs
  <2>5. SectionOK'
    BY <1>11, Absent, EntryFields DEF RemoveSite, JournalInv,
       WrittenOrGone, SectionOK, Journaled, TypeInv, TypeOK, LocalOK, LockedPcs
  <2>6. OwnSite'
    BY <1>11, Absent, EntryFields DEF RemoveSite, JournalInv,
       OwnSite, SectionOK, TypeInv, TypeOK, LocalOK, LockedPcs
  <2>7. QED
    BY <2>1, <2>2, <2>3, <2>4, <2>5, <2>6 DEF JournalInv
<1>12. ASSUME NEW p \in Sites, RemoveEntry(p) PROVE JournalInv'
  <2>1. Accepts(accepted)'
    BY <1>12, Absent, EntryFields DEF RemoveEntry, JournalInv,
       SectionOK, TypeInv, TypeOK, LocalOK, LockedPcs
  <2>2. BeforeLast'
    <3>1. \A r \in Sites : Before'[r] \in {Before[r], NoSite}
      BY <1>12, Absent DEF RemoveEntry, JournalInv, SectionOK, LocalOK, Before, TypeInv, TypeOK
    <3>2. (\A r \in Sites : pc'[r] # "commit") => \A r \in Sites : pc[r] # "commit"
      BY <1>12 DEF RemoveEntry, TypeInv, TypeOK
    <3>3. QED
      BY <1>12, <3>1, <3>2 DEF RemoveEntry, JournalInv, BeforeLast
  <2>3. SiteLast'
    BY <1>12, Absent, EntryFields DEF RemoveEntry, JournalInv,
       SiteLast, SectionOK, TypeInv, TypeOK, LocalOK, LockedPcs
  <2>4. WrittenOrGone'
    BY <1>12, Absent, EntryFields DEF RemoveEntry, JournalInv,
       WrittenOrGone, SectionOK, TypeInv, TypeOK, LocalOK, LockedPcs
  <2>5. SectionOK'
    BY <1>12, Absent, EntryFields DEF RemoveEntry, JournalInv,
       WrittenOrGone, SectionOK, Journaled, TypeInv, TypeOK, LocalOK, LockedPcs
  <2>6. OwnSite'
    BY <1>12, Absent, EntryFields DEF RemoveEntry, JournalInv,
       OwnSite, SectionOK, TypeInv, TypeOK, LocalOK, LockedPcs
  <2>7. QED
    BY <2>1, <2>2, <2>3, <2>4, <2>5, <2>6 DEF JournalInv
<1>13. ASSUME NEW p \in Sites, Validate(p) PROVE JournalInv'
  <2>1. Accepts(accepted)'
    BY <1>13, Absent, EntryFields DEF Validate, Remember, JournalInv,
       SectionOK, TypeInv, TypeOK, LocalOK, LockedPcs
  <2>2. BeforeLast'
    BY <1>13, Absent, EntryFields DEF Validate, Remember, JournalInv,
       BeforeLast, SectionOK, Before, TypeInv, TypeOK, LocalOK, LockedPcs
  <2>3. SiteLast'
    BY <1>13, Absent, EntryFields DEF Validate, Remember, JournalInv,
       SiteLast, SectionOK, TypeInv, TypeOK, LocalOK, LockedPcs
  <2>4. WrittenOrGone'
    BY <1>13, Absent, EntryFields DEF Validate, Remember, JournalInv,
       WrittenOrGone, SectionOK, TypeInv, TypeOK, LocalOK, LockedPcs
  <2>5. SectionOK'
    BY <1>13, Absent, EntryFields DEF Validate, Remember, JournalInv,
       WrittenOrGone, SectionOK, Journaled, TypeInv, TypeOK, LocalOK, LockedPcs
  <2>6. OwnSite'
    BY <1>13, Absent, EntryFields DEF Validate, Remember, JournalInv,
       OwnSite, SectionOK, TypeInv, TypeOK, LocalOK, LockedPcs
  <2>7. QED
    BY <2>1, <2>2, <2>3, <2>4, <2>5, <2>6 DEF JournalInv
<1>14. ASSUME NEW p \in Sites, ReloadDown(p) PROVE JournalInv'
  <2>1. Accepts(accepted)'
    BY <1>14, Absent, EntryFields DEF ReloadDown, Finish, JournalInv,
       SectionOK, TypeInv, TypeOK, LocalOK, LockedPcs
  <2>2. BeforeLast'
    BY <1>14, Absent, EntryFields DEF ReloadDown, Finish, JournalInv,
       BeforeLast, SectionOK, Before, TypeInv, TypeOK, LocalOK, LockedPcs
  <2>3. SiteLast'
    BY <1>14, Absent, EntryFields DEF ReloadDown, Finish, JournalInv,
       SiteLast, SectionOK, TypeInv, TypeOK, LocalOK, LockedPcs
  <2>4. WrittenOrGone'
    BY <1>14, Absent, EntryFields DEF ReloadDown, Finish, JournalInv,
       WrittenOrGone, SectionOK, TypeInv, TypeOK, LocalOK, LockedPcs
  <2>5. SectionOK'
    BY <1>14, Absent, EntryFields DEF ReloadDown, Finish, JournalInv,
       WrittenOrGone, SectionOK, Journaled, TypeInv, TypeOK, LocalOK, LockedPcs
  <2>6. OwnSite'
    BY <1>14, Absent, EntryFields DEF ReloadDown, Finish, JournalInv,
       OwnSite, SectionOK, TypeInv, TypeOK, LocalOK, LockedPcs
  <2>7. QED
    BY <2>1, <2>2, <2>3, <2>4, <2>5, <2>6 DEF JournalInv
<1>15. ASSUME NEW p \in Sites, NEW q \in Sites, CommitEntry(p, q) PROVE JournalInv'
  <2>1. Accepts(accepted)'
    BY <1>15, Absent, EntryFields DEF CommitEntry, JournalInv,
       SectionOK, TypeInv, TypeOK, LocalOK, LockedPcs
  <2>2. BeforeLast'
    BY <1>15, Absent, EntryFields DEF CommitEntry, JournalInv,
       BeforeLast, SectionOK, Before, TypeInv, TypeOK, LocalOK, LockedPcs
  <2>3. SiteLast'
    BY <1>15, Absent, EntryFields DEF CommitEntry, JournalInv,
       SiteLast, SectionOK, TypeInv, TypeOK, LocalOK, LockedPcs
  <2>4. WrittenOrGone'
    BY <1>15, Absent, EntryFields DEF CommitEntry, JournalInv,
       WrittenOrGone, SectionOK, TypeInv, TypeOK, LocalOK, LockedPcs
  <2>5. SectionOK'
    BY <1>15, Absent, EntryFields DEF CommitEntry, JournalInv,
       WrittenOrGone, SectionOK, Journaled, TypeInv, TypeOK, LocalOK, LockedPcs
  <2>6. OwnSite'
    BY <1>15, Absent, EntryFields DEF CommitEntry, JournalInv,
       OwnSite, SectionOK, TypeInv, TypeOK, LocalOK, LockedPcs
  <2>7. QED
    BY <2>1, <2>2, <2>3, <2>4, <2>5, <2>6 DEF JournalInv
<1>16. ASSUME NEW p \in Sites, Committed(p) PROVE JournalInv'
  <2>1. Accepts(accepted)'
    BY <1>16, Absent, EntryFields DEF Committed, JournalInv,
       SectionOK, TypeInv, TypeOK, LocalOK, LockedPcs
  <2>2. BeforeLast'
    <3>1. \A r \in Sites : site[r] \in {accepted[r], NoSite}
      BY <1>16 DEF Committed, JournalInv, SiteLast
    <3>2. \A r \in Sites : Before'[r] = site[r]
      BY <1>16 DEF Committed, Journaled, Before
    <3>3. QED
      BY <1>16, <3>1, <3>2 DEF Committed, BeforeLast
  <2>3. SiteLast'
    BY <1>16, Absent, EntryFields DEF Committed, JournalInv,
       SiteLast, SectionOK, TypeInv, TypeOK, LocalOK, LockedPcs
  <2>4. WrittenOrGone'
    BY <1>16, Absent, EntryFields DEF Committed, JournalInv,
       WrittenOrGone, SectionOK, TypeInv, TypeOK, LocalOK, LockedPcs
  <2>5. SectionOK'
    BY <1>16, Absent, EntryFields DEF Committed, JournalInv,
       WrittenOrGone, SectionOK, Journaled, TypeInv, TypeOK, LocalOK, LockedPcs
  <2>6. OwnSite'
    BY <1>16, Absent, EntryFields DEF Committed, JournalInv,
       OwnSite, SectionOK, TypeInv, TypeOK, LocalOK, LockedPcs
  <2>7. QED
    BY <2>1, <2>2, <2>3, <2>4, <2>5, <2>6 DEF JournalInv
<1>17. ASSUME NEW p \in Sites, Load(p) PROVE JournalInv'
  <2>1. Accepts(accepted)'
    BY <1>17, Absent, EntryFields DEF Load, Finish, JournalInv,
       SectionOK, TypeInv, TypeOK, LocalOK, LockedPcs
  <2>2. BeforeLast'
    BY <1>17, Absent, EntryFields DEF Load, Finish, JournalInv,
       BeforeLast, SectionOK, Before, TypeInv, TypeOK, LocalOK, LockedPcs
  <2>3. SiteLast'
    BY <1>17, Absent, EntryFields DEF Load, Finish, JournalInv,
       SiteLast, SectionOK, TypeInv, TypeOK, LocalOK, LockedPcs
  <2>4. WrittenOrGone'
    BY <1>17, Absent, EntryFields DEF Load, Finish, JournalInv,
       WrittenOrGone, SectionOK, TypeInv, TypeOK, LocalOK, LockedPcs
  <2>5. SectionOK'
    BY <1>17, Absent, EntryFields DEF Load, Finish, JournalInv,
       WrittenOrGone, SectionOK, Journaled, TypeInv, TypeOK, LocalOK, LockedPcs
  <2>6. OwnSite'
    BY <1>17, Absent, EntryFields DEF Load, Finish, JournalInv,
       OwnSite, SectionOK, TypeInv, TypeOK, LocalOK, LockedPcs
  <2>7. QED
    BY <2>1, <2>2, <2>3, <2>4, <2>5, <2>6 DEF JournalInv
<1>18. ASSUME NEW p \in Sites, LoadFails(p) PROVE JournalInv'
  <2>1. Accepts(accepted)'
    BY <1>18, Absent, EntryFields DEF LoadFails, Finish, JournalInv,
       SectionOK, TypeInv, TypeOK, LocalOK, LockedPcs
  <2>2. BeforeLast'
    BY <1>18, Absent, EntryFields DEF LoadFails, Finish, JournalInv,
       BeforeLast, SectionOK, Before, TypeInv, TypeOK, LocalOK, LockedPcs
  <2>3. SiteLast'
    BY <1>18, Absent, EntryFields DEF LoadFails, Finish, JournalInv,
       SiteLast, SectionOK, TypeInv, TypeOK, LocalOK, LockedPcs
  <2>4. WrittenOrGone'
    BY <1>18, Absent, EntryFields DEF LoadFails, Finish, JournalInv,
       WrittenOrGone, SectionOK, TypeInv, TypeOK, LocalOK, LockedPcs
  <2>5. SectionOK'
    BY <1>18, Absent, EntryFields DEF LoadFails, Finish, JournalInv,
       WrittenOrGone, SectionOK, Journaled, TypeInv, TypeOK, LocalOK, LockedPcs
  <2>6. OwnSite'
    BY <1>18, Absent, EntryFields DEF LoadFails, Finish, JournalInv,
       OwnSite, SectionOK, TypeInv, TypeOK, LocalOK, LockedPcs
  <2>7. QED
    BY <2>1, <2>2, <2>3, <2>4, <2>5, <2>6 DEF JournalInv
<1>19. ASSUME NEW p \in Sites, NEW q \in Sites, RestoreRead(p, q) PROVE JournalInv'
  <2>1. Accepts(accepted)'
    BY <1>19, Absent, EntryFields DEF RestoreRead, JournalInv,
       SectionOK, TypeInv, TypeOK, LocalOK, LockedPcs
  <2>2. BeforeLast'
    BY <1>19, Absent, EntryFields DEF RestoreRead, JournalInv,
       BeforeLast, SectionOK, Before, TypeInv, TypeOK, LocalOK, LockedPcs
  <2>3. SiteLast'
    BY <1>19, Absent, EntryFields DEF RestoreRead, JournalInv,
       SiteLast, SectionOK, TypeInv, TypeOK, LocalOK, LockedPcs
  <2>4. WrittenOrGone'
    BY <1>19, Absent, EntryFields DEF RestoreRead, JournalInv,
       WrittenOrGone, SectionOK, TypeInv, TypeOK, LocalOK, LockedPcs
  <2>5. SectionOK'
    <3>1. \A r \in Sites : r # p => pc'[r] = pc[r] /\ pc[r] \notin LockedPcs
      BY <1>19 DEF RestoreRead, TypeInv, TypeOK, LockedPcs
    <3>2. pc'[p] = "restoreSite" /\ look'.at = q /\ entry' = entry /\ site' = site
          /\ look'.matches = (site[q] = entry[q].written)
      BY <1>19 DEF RestoreRead, TypeInv, TypeOK
    <3>3. entry[q] # NoEntry /\ site[q] \in {entry[q].written, entry[q].previous, NoSite}
      BY <1>19, <3>1 DEF RestoreRead, JournalInv, WrittenOrGone, LockedPcs
    <3>4. QED
      BY <3>1, <3>2, <3>3 DEF SectionOK, LockedPcs
  <2>6. OwnSite'
    BY <1>19, Absent, EntryFields DEF RestoreRead, JournalInv,
       OwnSite, SectionOK, TypeInv, TypeOK, LocalOK, LockedPcs
  <2>7. QED
    BY <2>1, <2>2, <2>3, <2>4, <2>5, <2>6 DEF JournalInv
<1>20. ASSUME NEW p \in Sites, RestoreSite(p) PROVE JournalInv'
  <2>1. Accepts(accepted)'
    BY <1>20, Absent, EntryFields DEF RestoreSite, JournalInv,
       SectionOK, TypeInv, TypeOK, LocalOK, LockedPcs
  <2>2. BeforeLast'
    BY <1>20, Absent, EntryFields DEF RestoreSite, JournalInv,
       BeforeLast, SectionOK, Before, TypeInv, TypeOK, LocalOK, LockedPcs
  <2>3. SiteLast'
    BY <1>20, Absent, EntryFields DEF RestoreSite, JournalInv,
       SiteLast, SectionOK, TypeInv, TypeOK, LocalOK, LockedPcs
  <2>4. WrittenOrGone'
    BY <1>20, Absent, EntryFields DEF RestoreSite, JournalInv,
       WrittenOrGone, SectionOK, TypeInv, TypeOK, LocalOK, LockedPcs
  <2>5. SectionOK'
    BY <1>20, Absent, EntryFields DEF RestoreSite, JournalInv,
       WrittenOrGone, SectionOK, Journaled, TypeInv, TypeOK, LocalOK, LockedPcs
  <2>6. OwnSite'
    <3>1. Before[look.at] \in {accepted[look.at], NoSite} /\ look.at \in Sites
      BY <1>20 DEF RestoreSite, JournalInv, BeforeLast, TypeInv, TypeOK, LocalOK, LockedPcs
    <3>2. entry[look.at].previous \in {accepted[look.at], NoSite}
      BY <1>20, <3>1 DEF RestoreSite, JournalInv, SectionOK, Before
    <3>3. QED
      BY <1>20, <3>1, <3>2 DEF RestoreSite, JournalInv, OwnSite, TypeInv, TypeOK
  <2>7. QED
    BY <2>1, <2>2, <2>3, <2>4, <2>5, <2>6 DEF JournalInv
<1>21. ASSUME NEW p \in Sites, RestoreEntry(p) PROVE JournalInv'
  <2>1. Accepts(accepted)'
    BY <1>21, Absent, EntryFields DEF RestoreEntry, JournalInv,
       SectionOK, TypeInv, TypeOK, LocalOK, LockedPcs
  <2>2. BeforeLast'
    <3>1. \A r \in Sites : Before'[r] \in {Before[r], NoSite}
      BY <1>21, Absent DEF RestoreEntry, JournalInv, SectionOK, LocalOK, Before, TypeInv, TypeOK
    <3>2. (\A r \in Sites : pc'[r] # "commit") => \A r \in Sites : pc[r] # "commit"
      BY <1>21 DEF RestoreEntry, TypeInv, TypeOK
    <3>3. QED
      BY <1>21, <3>1, <3>2 DEF RestoreEntry, JournalInv, BeforeLast
  <2>3. SiteLast'
    BY <1>21, Absent, EntryFields DEF RestoreEntry, JournalInv,
       SiteLast, SectionOK, TypeInv, TypeOK, LocalOK, LockedPcs
  <2>4. WrittenOrGone'
    BY <1>21, Absent, EntryFields DEF RestoreEntry, JournalInv,
       WrittenOrGone, SectionOK, TypeInv, TypeOK, LocalOK, LockedPcs
  <2>5. SectionOK'
    BY <1>21, Absent, EntryFields DEF RestoreEntry, JournalInv,
       WrittenOrGone, SectionOK, Journaled, TypeInv, TypeOK, LocalOK, LockedPcs
  <2>6. OwnSite'
    BY <1>21, Absent, EntryFields DEF RestoreEntry, JournalInv,
       OwnSite, SectionOK, TypeInv, TypeOK, LocalOK, LockedPcs
  <2>7. QED
    BY <2>1, <2>2, <2>3, <2>4, <2>5, <2>6 DEF JournalInv
<1>22. ASSUME NEW p \in Sites, Rejected(p) PROVE JournalInv'
  <2>1. Accepts(accepted)'
    BY <1>22, Absent, EntryFields DEF Rejected, Finish, JournalInv,
       SectionOK, TypeInv, TypeOK, LocalOK, LockedPcs
  <2>2. BeforeLast'
    BY <1>22, Absent, EntryFields DEF Rejected, Finish, JournalInv,
       BeforeLast, SectionOK, Before, TypeInv, TypeOK, LocalOK, LockedPcs
  <2>3. SiteLast'
    BY <1>22, Absent, EntryFields DEF Rejected, Finish, JournalInv,
       SiteLast, SectionOK, TypeInv, TypeOK, LocalOK, LockedPcs
  <2>4. WrittenOrGone'
    BY <1>22, Absent, EntryFields DEF Rejected, Finish, JournalInv,
       WrittenOrGone, SectionOK, TypeInv, TypeOK, LocalOK, LockedPcs
  <2>5. SectionOK'
    BY <1>22, Absent, EntryFields DEF Rejected, Finish, JournalInv,
       WrittenOrGone, SectionOK, Journaled, TypeInv, TypeOK, LocalOK, LockedPcs
  <2>6. OwnSite'
    BY <1>22, Absent, EntryFields DEF Rejected, Finish, JournalInv,
       OwnSite, SectionOK, TypeInv, TypeOK, LocalOK, LockedPcs
  <2>7. QED
    BY <2>1, <2>2, <2>3, <2>4, <2>5, <2>6 DEF JournalInv
<1>23. ASSUME NEW p \in Sites, Crash(p) PROVE JournalInv'
  <2>0. pc[p] \notin Torn
    BY <1>23, <1>00, Kinds DEF Crash
  <2>1. Accepts(accepted)'
    BY <1>23, <2>0, Absent, EntryFields DEF Crash, Finish, Torn, JournalInv,
       SectionOK, TypeInv, TypeOK, LocalOK, LockedPcs
  <2>2. BeforeLast'
    BY <1>23, <2>0, Absent, EntryFields DEF Crash, Finish, Torn, JournalInv,
       BeforeLast, SectionOK, Before, TypeInv, TypeOK, LocalOK, LockedPcs
  <2>3. SiteLast'
    BY <1>23, <2>0, Absent, EntryFields DEF Crash, Finish, Torn, JournalInv,
       SiteLast, SectionOK, TypeInv, TypeOK, LocalOK, LockedPcs
  <2>4. WrittenOrGone'
    BY <1>23, <2>0, Absent, EntryFields DEF Crash, Finish, Torn, JournalInv,
       WrittenOrGone, SectionOK, TypeInv, TypeOK, LocalOK, LockedPcs
  <2>5. SectionOK'
    BY <1>23, <2>0, Absent, EntryFields DEF Crash, Finish, Torn, JournalInv,
       WrittenOrGone, SectionOK, Journaled, TypeInv, TypeOK, LocalOK, LockedPcs
  <2>6. OwnSite'
    BY <1>23, <2>0, Absent, EntryFields DEF Crash, Finish, Torn, JournalInv,
       OwnSite, SectionOK, TypeInv, TypeOK, LocalOK, LockedPcs
  <2>7. QED
    BY <2>1, <2>2, <2>3, <2>4, <2>5, <2>6 DEF JournalInv
<1>24. QED
  BY <1>1, <1>2, <1>3, <1>4, <1>5, <1>6, <1>7, <1>8, <1>9, <1>10, <1>11, <1>12, <1>13,
     <1>14,
     <1>15, <1>16, <1>17, <1>18, <1>19, <1>20, <1>21, <1>22, <1>23
     DEF Next, Write, Unlocked, Remove, Accept, Restore

\* The journal is empty and Caddy has accepted no file at first.
LEMMA InitJournal == Init => TypeInv /\ LoadInv /\ JournalInv
<1> SUFFICES ASSUME Init PROVE TypeInv /\ LoadInv /\ JournalInv
  OBVIOUS
<1>1. Accepts(accepted)
  BY NothingAccepted DEF Init
<1>2. BeforeLast /\ SiteLast
  BY DEF Init, Before, BeforeLast, SiteLast
<1>3. WrittenOrGone /\ SectionOK /\ OwnSite
  BY DEF Init, WrittenOrGone, SectionOK, OwnSite
<1>4. LoadInv
  BY DEF Init, LoadInv, NoLift, ValidInSection
<1>5. QED
  BY <1>1, <1>2, <1>3, <1>4, InitTypes DEF JournalInv

\* With the Caddy lock free, a restore leaves every site as Caddy accepted it
\* last, or gone.
LEMMA RevertedLast ==
    ASSUME TypeInv, JournalInv, lock = Free
    PROVE  \A p \in Sites : Reverted[p] \in {accepted[p], NoSite}
<1>1. \A p \in Sites : pc[p] \notin LockedPcs
  BY FreeAssumption DEF TypeInv, TypeOK
<1>2. \A p \in Sites : Before[p] \in {accepted[p], NoSite}
  BY <1>1 DEF JournalInv, BeforeLast, LockedPcs
<1>3. \A p \in Sites : Reverted[p] \in {Before[p], NoSite}
  BY <1>1 DEF JournalInv, WrittenOrGone, Reverted, Before, LockedPcs
<1>4. QED
  BY <1>2, <1>3

\* Whenever the Caddy lock is free, a rejected reload would leave files that
\* Caddy accepts, so that a bad site file never outlives the reload that rejects
\* it, whatever hosts the releases name, in whatever order their operations
\* write, delete, commit and restore, and wherever they are killed short of a
\* torn change of the journal (write_site, restore_sites, commit_sites).
THEOREM RevertibleHolds == Spec => []Revertible
<1> DEFINE Inv == TypeInv /\ LoadInv /\ (Calm => JournalInv)
<1>1. Init => Inv
  BY InitJournal
<1>2. Inv /\ [Next]_vars => Inv'
  BY TypeStep, LoadStep, JournalStep
<1>3. Inv => Revertible
  <2> SUFFICES ASSUME Inv, Calm, lock = Free PROVE Accepts(Reverted)
    BY DEF Revertible
  <2>1. Accepts(accepted)
    BY DEF JournalInv
  <2>2. QED
    BY <2>1, RevertedLast, Fewer
<1>4. QED
  BY <1>1, <1>2, <1>3, PTL DEF Spec

\* A restore puts every journaled file back as Caddy accepted it last, or leaves
\* it gone: the journal always holds what Caddy last validated, for any number of
\* sites and however often a site is written before a reload is accepted
\* (write_site, restore_sites).
THEOREM RestoresLastAcceptedHolds == Spec => []RestoresLastAccepted
<1> DEFINE Inv == TypeInv /\ LoadInv /\ (Calm => JournalInv)
<1>1. Init => Inv
  BY InitJournal
<1>2. Inv /\ [Next]_vars => Inv'
  BY TypeStep, LoadStep, JournalStep
<1>3. Inv => RestoresLastAccepted
  BY RevertedLast DEF RestoresLastAccepted
<1>4. QED
  BY <1>1, <1>2, <1>3, PTL DEF Spec

\* With any number of projects writing, deleting and reloading side by side, an
\* accepted reload finds its own operation's site as that operation wrote it, or
\* as Caddy accepted it last, or gone: never a third content
\* (write_site, restore_sites, commit_sites).
THEOREM WrittenOrTakenBackHolds == Spec => WrittenOrTakenBack
<1> DEFINE Inv == TypeInv /\ LoadInv /\ (Calm => JournalInv)
<1>1. Init => Inv
  BY InitJournal
<1>2. Inv /\ [Next]_vars => Inv'
  BY TypeStep, LoadStep, JournalStep
<1>3. Inv /\ [Next]_vars
      => [\A p \in Sites : Calm /\ Validate(p) /\ pc'[p] = "commit"
                            => site[p] \in {content[p], accepted[p], NoSite}]_vars
  BY DEF Validate, JournalInv, OwnSite
<1>4. QED
  BY <1>1, <1>2, <1>3, PTL DEF Spec, WrittenOrTakenBack

-----------------------------------------------------------------------------
(* An unstaged site stays gone. *)

\* No step brings a removed site back, but a write of that site.
LEMMA RemovedStep == TypeInv /\ RemovedInv /\ [Next]_vars => RemovedInv'
<1> SUFFICES ASSUME TypeInv, RemovedInv, [Next]_vars PROVE RemovedInv'
  OBVIOUS
<1> USE FreeAssumption DEF Goto, files, local, history, RemovedInv, RemovedStaysGone
<1>1. CASE UNCHANGED vars
  BY <1>1 DEF vars
<1>2. CASE CaddyStops \/ CaddyStarts
  BY <1>2 DEF CaddyStops, CaddyStarts
<1>3. ASSUME NEW p \in Sites, Prepare(p) PROVE RemovedInv'
  BY <1>3 DEF Prepare, TypeInv, TypeOK, LocalOK, LockedPcs
<1>4. ASSUME NEW p \in Sites, WriteEntry(p) PROVE RemovedInv'
  BY <1>4 DEF WriteEntry, TypeInv, TypeOK, LocalOK, LockedPcs
<1>5. ASSUME NEW p \in Sites, WriteSite(p) PROVE RemovedInv'
  BY <1>5 DEF WriteSite, TypeInv, TypeOK, LocalOK, LockedPcs
<1>6. ASSUME NEW p \in Sites, Proceed(p) PROVE RemovedInv'
  BY <1>6 DEF Proceed, Finish, TypeInv, TypeOK, LocalOK, LockedPcs
<1>7. ASSUME NEW p \in Sites, Page(p) PROVE RemovedInv'
  BY <1>7 DEF Page, TypeInv, TypeOK, LocalOK, LockedPcs
<1>8. ASSUME NEW p \in Sites, Delete(p) PROVE RemovedInv'
  BY <1>8 DEF Delete, TypeInv, TypeOK, LocalOK, LockedPcs
<1>9. ASSUME NEW p \in Sites, ReadSite(p) PROVE RemovedInv'
  BY <1>9 DEF ReadSite, TypeInv, TypeOK, LocalOK, LockedPcs
<1>10. ASSUME NEW p \in Sites, Lift(p) PROVE RemovedInv'
  BY <1>10 DEF Lift, TypeInv, TypeOK, LocalOK, LockedPcs
<1>11. ASSUME NEW p \in Sites, RemoveSite(p) PROVE RemovedInv'
  BY <1>11 DEF RemoveSite, TypeInv, TypeOK, LocalOK, LockedPcs
<1>12. ASSUME NEW p \in Sites, RemoveEntry(p) PROVE RemovedInv'
  BY <1>12 DEF RemoveEntry, TypeInv, TypeOK, LocalOK, LockedPcs
<1>13. ASSUME NEW p \in Sites, Validate(p) PROVE RemovedInv'
  BY <1>13 DEF Validate, TypeInv, TypeOK, LocalOK, LockedPcs
<1>14. ASSUME NEW p \in Sites, ReloadDown(p) PROVE RemovedInv'
  BY <1>14 DEF ReloadDown, Finish, TypeInv, TypeOK, LocalOK, LockedPcs
<1>15. ASSUME NEW p \in Sites, NEW q \in Sites, CommitEntry(p, q) PROVE RemovedInv'
  BY <1>15 DEF CommitEntry, TypeInv, TypeOK, LocalOK, LockedPcs
<1>16. ASSUME NEW p \in Sites, Committed(p) PROVE RemovedInv'
  BY <1>16 DEF Committed, TypeInv, TypeOK, LocalOK, LockedPcs
<1>17. ASSUME NEW p \in Sites, Load(p) PROVE RemovedInv'
  BY <1>17 DEF Load, Finish, TypeInv, TypeOK, LocalOK, LockedPcs
<1>18. ASSUME NEW p \in Sites, LoadFails(p) PROVE RemovedInv'
  BY <1>18 DEF LoadFails, Finish, TypeInv, TypeOK, LocalOK, LockedPcs
<1>19. ASSUME NEW p \in Sites, NEW q \in Sites, RestoreRead(p, q) PROVE RemovedInv'
  <2>1. site[q] = entry[q].written => q \notin removed
    BY <1>19, Absent, EntryFields DEF RestoreRead, TypeInv, TypeOK
  <2>2. QED
    BY <1>19, <2>1 DEF RestoreRead, TypeInv, TypeOK, LockedPcs
<1>20. ASSUME NEW p \in Sites, RestoreSite(p) PROVE RemovedInv'
  BY <1>20 DEF RestoreSite, TypeInv, TypeOK, LocalOK, LockedPcs
<1>21. ASSUME NEW p \in Sites, RestoreEntry(p) PROVE RemovedInv'
  BY <1>21 DEF RestoreEntry, TypeInv, TypeOK, LocalOK, LockedPcs
<1>22. ASSUME NEW p \in Sites, Rejected(p) PROVE RemovedInv'
  BY <1>22 DEF Rejected, Finish, TypeInv, TypeOK, LocalOK, LockedPcs
<1>23. ASSUME NEW p \in Sites, Crash(p) PROVE RemovedInv'
  BY <1>23 DEF Crash, Finish, TypeInv, TypeOK, LocalOK, LockedPcs
<1>24. QED
  BY <1>1, <1>2, <1>3, <1>4, <1>5, <1>6, <1>7, <1>8, <1>9, <1>10, <1>11, <1>12, <1>13,
     <1>14,
     <1>15, <1>16, <1>17, <1>18, <1>19, <1>20, <1>21, <1>22, <1>23
     DEF Next, Write, Unlocked, Remove, Accept, Restore

\* A site that unstage removed stays gone until something is written there,
\* whatever other operations restore, whatever is killed between the removal of
\* the file and of its entry, and with writes that take no lock (remove_site,
\* restore_sites).
THEOREM RemovedStaysGoneHolds == Spec => []RemovedStaysGone
<1>1. Init => TypeInv /\ RemovedInv
  BY InitTypes DEF Init, RemovedInv, RemovedStaysGone
<1>2. TypeInv /\ RemovedInv /\ [Next]_vars => (TypeInv /\ RemovedInv)'
  BY TypeStep, RemovedStep
<1>3. RemovedInv => RemovedStaysGone
  BY DEF RemovedInv
<1>4. QED
  BY <1>1, <1>2, <1>3, PTL DEF Spec
=============================================================================

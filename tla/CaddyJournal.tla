---------------------------- MODULE CaddyJournal ----------------------------
(***************************************************************************)
(* Caddy's site files and their journal (caddy_journal.py), and the reload *)
(* that validates them (docker.py caddy_reload).                           *)
(*                                                                         *)
(* Each site file belongs to one project, whose lock its operation holds;  *)
(* operations on different projects run side by side and meet in the site  *)
(* files, the journal and the global Caddy lock.  A production and a       *)
(* staging site are both members of Sites.  A step is one write or unlink, *)
(* or one call of Caddy.                                                   *)
(*                                                                         *)
(* A site file is its host, whether Caddy can parse it and whether it is a *)
(* maintenance page.  Caddy accepts a set of files that all parse and name *)
(* no host twice.                                                          *)
(***************************************************************************)
EXTENDS Naturals

CONSTANTS Sites,            \* the site files, one operation at a time on each
          Hosts,            \* host names a manifest may give
          MaxDisturbances   \* bound: how many Disturbances a behaviour may have

ASSUME BoundAssumption == MaxDisturbances \in Nat
ASSUME HostAssumption == "none" \notin Hosts   \* the host of no site file

Contents == [host : Hosts, parses : BOOLEAN, page : BOOLEAN]
NoSite == [host |-> "none", parses |-> TRUE, page |-> FALSE]
SiteFiles == Contents \cup {NoSite}

Entries == [previous : SiteFiles, written : Contents]
NoEntry == [previous |-> NoSite, written |-> NoSite]

Free == "free"   \* the Caddy lock's holder when no operation holds it

ASSUME FreeAssumption == Free \notin Sites

VARIABLES
    site,     \* caddy/sites/<name>.conf
    entry,    \* caddy/.site-journal/<name>.conf.json
    host,     \* the host in the project's manifest
    up,       \* is the Caddy container running?
    lock,     \* state/.caddy.lock: free, or the operation that holds it
    pc,       \* where the operation on each site is
    content,  \* what that operation writes
    look,     \* restore: the entry it is at, and whether its file matched
    accepted, \* history: the site files a reload validated last, while Calm
    removed,  \* history: the sites unstaged and not written since
    past      \* history: how many disturbances of each kind so far

files == <<site, entry>>
local == <<pc, content, look>>
history == <<accepted, removed, past>>
vars == <<files, host, up, lock, local, history>>

\* What the properties below do not all survive: a write without the Caddy lock,
\* and a kill between the two writes of one change of the journal.
Disturbances == {"page", "lift", "kill"}

\* Nothing wrote without the lock so far, and no kill tore a change of the journal.
LockedSoFar == past["page"] = 0 /\ past["lift"] = 0
Calm == LockedSoFar /\ past["kill"] = 0

Disturb(kind) ==
    /\ past["page"] + past["lift"] + past["kill"] < MaxDisturbances
    /\ past' = [past EXCEPT ![kind] = @ + 1]
    /\ accepted' = [p \in Sites |-> NoSite]

\* The history of what Caddy accepted, kept while nothing disturbed it.
Remember(s) == accepted' = IF Calm THEN s ELSE accepted

NoLook == [at |-> "none", matches |-> FALSE]

\* Caddy's verdict on the files it imports.
Accepts(s) ==
    /\ \A p \in Sites : s[p].parses
    /\ \A p, q \in Sites : p # q /\ s[p] # NoSite /\ s[q] # NoSite => s[p].host # s[q].host

Journaled == {p \in Sites : entry[p] # NoEntry}

Init ==
    /\ site = [p \in Sites |-> NoSite]
    /\ entry = [p \in Sites |-> NoEntry]
    /\ host \in [Sites -> Hosts]
    /\ \A p, q \in Sites : p # q => host[p] # host[q]
    /\ up = TRUE
    /\ lock = Free
    /\ pc = [p \in Sites |-> "idle"]
    /\ content = site
    /\ look = NoLook
    /\ accepted = site /\ removed = {} /\ past = [d \in Disturbances |-> 0]

Goto(p, next) == pc' = [pc EXCEPT ![p] = next]

Finish(p) == Goto(p, "idle") /\ content' = [content EXCEPT ![p] = NoSite]

-----------------------------------------------------------------------------
(* write_site: what a deploy, promote, resume, recover or upgrade calls.   *)

\* The release's manifest is in place before its site is generated; the
\* operator's own override file may hold anything.
Prepare(p) ==
    /\ pc[p] = "idle"
    /\ \E h \in Hosts, parses \in BOOLEAN :
          /\ host' = [host EXCEPT ![p] = h]
          /\ content' = [content EXCEPT ![p] = [host |-> h, parses |-> parses, page |-> FALSE]]
    /\ Goto(p, "writeEntry")
    /\ UNCHANGED <<files, up, lock, look, history>>

\* Mutant: each write journals what it finds, accepted by Caddy or not.
Previous_Latest(p) == site[p]

\* Only the first write since the last accepted config records the content.
Previous(p) == IF entry[p] # NoEntry THEN entry[p].previous ELSE site[p]

WriteEntry(p) ==
    /\ pc[p] = "writeEntry"
    /\ lock = Free /\ lock' = p
    /\ entry' = [entry EXCEPT ![p] = [previous |-> Previous(p), written |-> content[p]]]
    /\ Goto(p, "writeSite")
    /\ UNCHANGED <<site, host, up, content, look, history>>

WriteSite(p) ==
    /\ pc[p] = "writeSite"
    /\ site' = [site EXCEPT ![p] = content[p]]
    /\ removed' = removed \ {p}
    /\ lock' = Free
    /\ Goto(p, "written")
    /\ UNCHANGED <<entry, host, up, content, look, accepted, past>>

\* The images are built and the containers started before Caddy is asked; the
\* operation may fail before it gets there.
Proceed(p) ==
    /\ pc[p] = "written"
    /\ \/ Goto(p, "reload") /\ UNCHANGED <<content, accepted, past>>
       \/ Goto(p, "readSite") /\ Disturb("lift") /\ UNCHANGED content
       \/ Finish(p) /\ UNCHANGED <<accepted, past>>
    /\ UNCHANGED <<files, host, up, lock, look, removed>>

-----------------------------------------------------------------------------
(* The writers that take no Caddy lock and journal nothing.                *)

\* pause and quarantine: the maintenance page for the manifest's hosts.
Page(p) ==
    /\ pc[p] = "idle"
    /\ Disturb("page")
    /\ site' = [site EXCEPT ![p] = [host |-> host[p], parses |-> TRUE, page |-> TRUE]]
    /\ removed' = removed \ {p}
    /\ Goto(p, "reload")
    /\ content' = [content EXCEPT ![p] = site'[p]]
    /\ UNCHANGED <<entry, host, up, lock, look>>

\* project-delete unlinks the site file; its journal entry stays.
Delete(p) ==
    /\ pc[p] = "idle" /\ site[p] # NoSite
    /\ site' = [site EXCEPT ![p] = NoSite]
    /\ Goto(p, "reload")
    /\ content' = [content EXCEPT ![p] = NoSite]
    /\ UNCHANGED <<entry, host, up, lock, look, history>>

\* security resume: the site that prepare_caddy_config wrote is read back ...
ReadSite(p) ==
    /\ pc[p] = "readSite"
    /\ content' = [content EXCEPT ![p] = site[p]]
    /\ Goto(p, "lift")
    /\ UNCHANGED <<files, host, up, lock, look, history>>

\* ... and lift_quarantine writes it again.
Lift(p) ==
    /\ pc[p] = "lift"
    /\ site' = [site EXCEPT ![p] = content[p]]
    /\ removed' = removed \ {p}
    /\ Goto(p, "reload")
    /\ UNCHANGED <<entry, host, up, lock, content, look, accepted, past>>

-----------------------------------------------------------------------------
(* remove_site: unstage, under the Caddy lock.                             *)

RemoveSite(p) ==
    /\ pc[p] = "idle"
    /\ lock = Free /\ lock' = p
    /\ site' = [site EXCEPT ![p] = NoSite]
    /\ removed' = removed \cup {p}
    /\ content' = [content EXCEPT ![p] = NoSite]
    /\ Goto(p, "removeEntry")
    /\ UNCHANGED <<entry, host, up, look, accepted, past>>

RemoveEntry(p) ==
    /\ pc[p] = "removeEntry"
    /\ entry' = [entry EXCEPT ![p] = NoEntry]
    /\ lock' = Free
    /\ Goto(p, "reload")
    /\ UNCHANGED <<site, host, up, content, look, history>>

-----------------------------------------------------------------------------
(* caddy_reload: validate, then commit and load, or restore; all of it     *)
(* under the Caddy lock.                                                   *)

\* Caddy is not running: nothing is validated and the files stay.
ReloadDown(p) ==
    /\ pc[p] = "reload"
    /\ lock = Free /\ ~up
    /\ Finish(p)
    /\ UNCHANGED <<files, host, up, lock, look, history>>

\* Mutant: the lock is taken to load only, once the files are validated.
Validate_Unlocked(p) ==
    /\ pc[p] = "reload"
    /\ lock = Free /\ up
    /\ UNCHANGED lock
    /\ \/ Accepts(site) /\ Goto(p, "commit") /\ Remember(site)
       \/ Goto(p, "restore") /\ UNCHANGED accepted
    /\ UNCHANGED <<files, host, up, content, look, removed, past>>

\* A validation that times out counts as a rejection.
Validate(p) ==
    /\ pc[p] = "reload"
    /\ lock = Free /\ up
    /\ lock' = p
    /\ \/ Accepts(site) /\ Goto(p, "commit") /\ Remember(site)
       \/ Goto(p, "restore") /\ UNCHANGED accepted
    /\ UNCHANGED <<files, host, up, content, look, removed, past>>

CommitEntry(p, q) ==
    /\ pc[p] = "commit"
    /\ entry[q] # NoEntry
    /\ entry' = [entry EXCEPT ![q] = NoEntry]
    /\ UNCHANGED <<site, host, up, lock, local, history>>

\* Mutant: an accepted reload forgets its own site's entry only.
Committed_Own(p) ==
    /\ pc[p] = "commit"
    /\ entry[p] = NoEntry
    /\ Goto(p, "load")
    /\ UNCHANGED <<files, host, up, lock, content, look, history>>

Committed(p) ==
    /\ pc[p] = "commit"
    /\ Journaled = {}
    /\ Goto(p, "load")
    /\ UNCHANGED <<files, host, up, lock, content, look, history>>

Load(p) ==
    /\ pc[p] = "load"
    /\ up /\ Accepts(site)
    /\ lock' = Free
    /\ Finish(p)
    /\ UNCHANGED <<files, host, up, look, history>>

\* Caddy went away, timed out or refused the files after all.
LoadFails(p) ==
    /\ pc[p] = "load"
    /\ lock' = Free
    /\ Finish(p)
    /\ UNCHANGED <<files, host, up, look, history>>

\* restore_sites, one entry after the other: compare, put back, forget.
RestoreRead(p, q) ==
    /\ pc[p] = "restore"
    /\ entry[q] # NoEntry
    /\ look' = [at |-> q, matches |-> site[q] = entry[q].written]
    /\ Goto(p, "restoreSite")
    /\ UNCHANGED <<files, host, up, lock, content, history>>

\* Mutant: the file is put back whatever it holds by now.
RestoreSite_Blind(p) ==
    /\ pc[p] = "restoreSite"
    /\ site' = [site EXCEPT ![look.at] = entry[look.at].previous]
    /\ Goto(p, "restoreEntry")
    /\ UNCHANGED <<entry, host, up, lock, content, look, history>>

RestoreSite(p) ==
    /\ pc[p] = "restoreSite"
    /\ site' = IF look.matches THEN [site EXCEPT ![look.at] = entry[look.at].previous]
               ELSE site
    /\ Goto(p, "restoreEntry")
    /\ UNCHANGED <<entry, host, up, lock, content, look, history>>

RestoreEntry(p) ==
    /\ pc[p] = "restoreEntry"
    /\ entry' = [entry EXCEPT ![look.at] = NoEntry]
    /\ look' = NoLook
    /\ Goto(p, "restore")
    /\ UNCHANGED <<site, host, up, lock, content, history>>

\* Every entry is restored: the operation fails with CaddyConfigRejected.
Rejected(p) ==
    /\ pc[p] = "restore"
    /\ Journaled = {}
    /\ lock' = Free
    /\ Finish(p)
    /\ UNCHANGED <<files, host, up, look, history>>

-----------------------------------------------------------------------------

CaddyStops ==
    /\ up
    /\ up' = FALSE
    /\ UNCHANGED <<files, host, lock, local, history>>

\* Caddy refuses to start on files it does not accept.
CaddyStarts ==
    /\ ~up /\ Accepts(site)
    /\ up' = TRUE
    /\ UNCHANGED <<files, host, lock, local, history>>

\* Where a kill leaves the journal and the files half changed: after the entry
\* and before its site file, and between the entries of an accepted reload.
Torn == {"writeSite", "commit"}

\* The kernel frees the lock of a killed operation.
Crash(p) ==
    /\ pc[p] # "idle"
    /\ IF pc[p] \in Torn THEN Disturb("kill") ELSE UNCHANGED <<accepted, past>>
    /\ Finish(p)
    /\ lock' = IF lock = p THEN Free ELSE lock
    /\ look' = IF lock = p THEN NoLook ELSE look
    /\ UNCHANGED <<files, host, up, removed>>

Write(p) == Prepare(p) \/ WriteEntry(p) \/ WriteSite(p) \/ Proceed(p)

Unlocked(p) == Page(p) \/ Delete(p) \/ ReadSite(p) \/ Lift(p)

Remove(p) == RemoveSite(p) \/ RemoveEntry(p)

Accept(p) == \/ Validate(p) \/ ReloadDown(p)
             \/ \E q \in Sites : CommitEntry(p, q)
             \/ Committed(p) \/ Load(p) \/ LoadFails(p)

Restore(p) == \/ \E q \in Sites : RestoreRead(p, q)
              \/ RestoreSite(p) \/ RestoreEntry(p) \/ Rejected(p)

Next == \/ \E p \in Sites : Write(p) \/ Unlocked(p) \/ Remove(p)
                            \/ Accept(p) \/ Restore(p) \/ Crash(p)
        \/ CaddyStops \/ CaddyStarts

Spec == Init /\ [][Next]_vars

-----------------------------------------------------------------------------
Pcs == {"idle", "writeEntry", "writeSite", "written", "readSite", "lift", "removeEntry",
        "reload", "commit", "load", "restore", "restoreSite", "restoreEntry"}

\* Where the global Caddy lock is held (caddy_config_lock).
LockedPcs == {"writeSite", "removeEntry", "commit", "load",
              "restore", "restoreSite", "restoreEntry"}

\* The types; and exactly the operation inside a section of the global Caddy
\* lock holds it (caddy_config_lock is not re-entrant and never nested).
TypeOK ==
    /\ site \in [Sites -> SiteFiles] /\ accepted \in [Sites -> SiteFiles]
    /\ entry \in [Sites -> Entries \cup {NoEntry}]
    /\ host \in [Sites -> Hosts]
    /\ up \in BOOLEAN
    /\ removed \subseteq Sites /\ past \in [Disturbances -> Nat]
    /\ pc \in [Sites -> Pcs]
    /\ content \in [Sites -> SiteFiles]
    /\ lock \in Sites \cup {Free}
    /\ \A p \in Sites : pc[p] \in LockedPcs <=> lock = p
    /\ look \in [at : Sites \cup {"none"}, matches : BOOLEAN]

\* The files as restore_sites would leave them.
Reverted == [p \in Sites |-> IF entry[p] # NoEntry /\ site[p] = entry[p].written
                             THEN entry[p].previous ELSE site[p]]

\* Whenever the Caddy lock is free, a rejected reload would put the files back
\* to ones Caddy accepts: a bad site file never outlives the reload that
\* rejects it, however the operations interleave and wherever else they are
\* killed, up to the first disturbance (write_site, restore_sites).
Revertible == Calm /\ lock = Free => Accepts(Reverted)

\* Caddy is never told to load files that would be refused: what was validated
\* is what is loaded, whatever other operations write, up to the first write
\* without the lock (caddy_config_lock).
LoadsValidated == LockedSoFar => \A p \in Sites : pc[p] = "load" => Accepts(site)

\* What an accepted reload holds of its own operation's site is what the
\* operation wrote, or, taken back by another's rejected reload in between, what
\* Caddy accepted last; nothing where the file was gone (write_site,
\* restore_sites, commit_sites).
WrittenOrTakenBack ==
    [][\A p \in Sites : Calm /\ Validate(p) /\ pc'[p] = "commit"
                            => site[p] \in {content[p], accepted[p], NoSite}]_vars

\* A site that unstage removed stays gone until something is written there: no
\* restore brings back routing to containers that no longer exist, whatever is
\* killed and whatever writes without the lock (remove_site).
RemovedStaysGone == \A p \in removed : site[p] = NoSite

\* An operation whose reload succeeded is served with the site it wrote.  No run
\* checks it: with two projects it does not hold (restore_sites).
ServesWhatItWrote == [][\A p \in Sites : Calm /\ Load(p) => site[p] = content[p]]_vars

\* A site file that project-delete unlinked stays gone until its reload.  No run
\* checks it: a restore that has compared puts it back (project_delete).
DeletedStaysGone ==
    [][\A p \in Sites : Calm /\ pc[p] = "reload" /\ content[p] = NoSite /\ site[p] = NoSite
                            => site'[p] = NoSite]_vars

\* A restore puts every journaled file back as Caddy accepted it last, or leaves
\* it gone (restore_sites; "the journal always holds what Caddy last validated").
RestoresLastAccepted ==
    Calm /\ lock = Free => \A p \in Sites : Reverted[p] \in {accepted[p], NoSite}
=============================================================================

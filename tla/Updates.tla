-------------------------------- MODULE Updates --------------------------------
(***************************************************************************)
(* Updates: core/updates.py, its routes (core/update_routes.py) and the    *)
(* step the desktop host takes on quitting (native/updateInstaller.js).    *)
(* Each route runs on a thread of its own, the download on another; what   *)
(* they share is updates.json, the updates folder and the phase.           *)
(*                                                                         *)
(* Every release of this line names its installer alike, so the folder     *)
(* holds at most one finished installer: the file of some release.         *)
(***************************************************************************)
EXTENDS Naturals, FiniteSets

CONSTANTS
  Newest,       (* releases are 1..Newest, in order; the build is one of them*)
  Threads,      (* requests to the update routes under way at once           *)
  Windows,      (* whether an open file cannot be deleted                    *)
  MayRaise,       (* whether a request can fail in a way _send does not catch  *)
  Nothing

ASSUME UpdatesAssumption ==
  Newest \in Nat \ {0} /\ Windows \in BOOLEAN /\ MayRaise \in BOOLEAN

Release == 1..Newest

VARIABLES
  current,      (* the running build's release                               *)
  published,    (* the newest release with an installer and its checksums    *)
  consent,      (* checks: Nothing until the person is asked                 *)
  latest, downloaded,  (* of updates.json                                    *)
  file, part,   (* the folder: the installer and the half-written one, each  *)
                (* Nothing, or the release it is of and whether it is whole  *)
  phase,        (* "idle", "checking", "downloading"                         *)
  fetch,        (* the download thread: where it is, and what it fetches     *)
  thread,       (* a route's thread                                          *)
  installing    (* the file the host found whole and quit to run, or Nothing *)

store  == <<consent, latest, downloaded>>
folder == <<file, part>>
updateVars ==
  <<current, published, store, folder, phase, fetch, thread, installing>>

Newer(a, b)  == a # Nothing /\ a > b
Installer    == [of : Release, whole : BOOLEAN]
Whole(r)     == [of |-> r, whole |-> TRUE]

-----------------------------------------------------------------------------
(* The world: releases are published and withdrawn, a file is damaged.      *)

Publish(r) ==
  /\ published' = r
  /\ UNCHANGED <<current, store, folder, phase, fetch, thread, installing>>

Rots ==
  /\ file # Nothing
  /\ file' = [file EXCEPT !.whole = FALSE]
  /\ UNCHANGED <<current, published, store, part, phase, fetch, thread, installing>>

SetChecks(on) ==
  /\ consent' = on
  /\ UNCHANGED <<current, published, latest, downloaded, folder, phase, fetch, thread, installing>>

-----------------------------------------------------------------------------
(* The check. *)

(* What every route ends with: a status, or the installer's description.    *)
LooksAround(next) == [at |-> "look", next |-> next]

Free == phase \notin {"checking", "downloading"}

(* POST /updates/check and check: asked for by the person, or by a launch   *)
(* the person said yes to.                                                  *)
MayCheck(force) == force \/ consent = TRUE

Check(t, force) ==
  /\ thread[t].at = "none" /\ MayCheck(force) /\ Free
  /\ phase' = "checking"
  /\ thread' = [thread EXCEPT ![t] = [at |-> "listing"]]
  /\ UNCHANGED <<current, published, store, folder, fetch, installing>>

Listed(t) ==
  /\ thread[t].at = "listing"
  /\ latest' = published
  /\ phase' = "idle"
  /\ thread' = [thread EXCEPT ![t] = LooksAround("status")]
  /\ UNCHANGED <<current, published, consent, downloaded, folder, fetch, installing>>

(* An UpdateError ends the check; nothing else that is raised is caught,    *)
(* and the phase stays what it was.                                         *)
ListFails(t) ==
  /\ thread[t].at = "listing"
  /\ \/ phase' = "idle" /\ thread' = [thread EXCEPT ![t] = LooksAround("status")]
     \/ MayRaise /\ UNCHANGED phase /\ thread' = [thread EXCEPT ![t] = [at |-> "none"]]
  /\ UNCHANGED <<current, published, store, folder, fetch, installing>>

-----------------------------------------------------------------------------
(* The download. *)

Fetching(at, r) == [at |-> at, of |-> r]
NoFetch == [at |-> "none"]

(* POST /updates/download.                                                  *)
Download(t) ==
  /\ thread[t].at = "none" /\ Newer(latest, current) /\ Free
  /\ phase' = "downloading"
  /\ fetch' = Fetching("sums", latest)
  /\ thread' = [thread EXCEPT ![t] = LooksAround("status")]
  /\ UNCHANGED <<current, published, store, folder, installing>>

(* The checksums are read, the folder is emptied, and the part is begun.    *)
Sums ==
  /\ fetch.at = "sums"
  /\ file' = Nothing
  /\ part' = [of |-> fetch.of, whole |-> FALSE]
  /\ fetch' = Fetching("bytes", fetch.of)
  /\ UNCHANGED <<current, published, store, phase, thread, installing>>

Bytes(whole) ==
  /\ fetch.at = "bytes"
  /\ part' = IF part = Nothing THEN Nothing ELSE [of |-> fetch.of, whole |-> whole]
  /\ fetch' = [Fetching("hashed", fetch.of) EXCEPT !.at = IF whole THEN "hashed" ELSE "bad"]
  /\ UNCHANGED <<current, published, store, file, phase, thread, installing>>

(* os.replace; a part that is gone makes it fail.                           *)
Replace ==
  /\ fetch.at = "hashed" /\ part # Nothing
  /\ file' = part /\ part' = Nothing
  /\ fetch' = Fetching("placed", fetch.of)
  /\ UNCHANGED <<current, published, store, phase, thread, installing>>

Recorded ==
  /\ fetch.at = "placed"
  /\ downloaded' = fetch.of
  /\ phase' = "idle" /\ fetch' = NoFetch
  /\ UNCHANGED <<current, published, consent, latest, folder, thread, installing>>

(* Anything that goes wrong, a checksum that differs among it: the part is  *)
(* thrown away and the phase is let go.                                     *)
LetsGo == phase' = "idle" /\ fetch' = NoFetch

Fails ==
  /\ fetch.at \in {"sums", "bytes", "hashed", "bad"}
  /\ LetsGo /\ part' = Nothing
  /\ UNCHANGED <<current, published, store, file, thread, installing>>

-----------------------------------------------------------------------------
(* _tidy, on the way to a status or to the installer's description: the     *)
(* phase is looked at under the lock, and the rest happens after it.        *)

Stale(r) == ~Newer(r, current)

Asks(t, next) ==
  /\ thread[t].at = "none"
  /\ thread' = [thread EXCEPT ![t] = LooksAround(next)]
  /\ UNCHANGED <<current, published, store, folder, phase, fetch, installing>>

Tidy(t) ==
  /\ thread[t].at = "look"
  /\ thread' = [thread EXCEPT ![t] =
       IF phase = "downloading" THEN [at |-> thread[t].next]
       ELSE [at |-> "sweep", next |-> thread[t].next,
             seen |-> downloaded,
             keep |-> IF downloaded = Nothing \/ Stale(downloaded) THEN Nothing ELSE downloaded]]
  /\ UNCHANGED <<current, published, store, folder, phase, fetch, installing>>

(* The folder, file by file, and then the record.  A part being written is  *)
(* open, and Windows does not delete it.                                    *)
Sweep(t) ==
  /\ thread[t].at = "sweep"
  /\ file' = IF thread[t].keep = Nothing THEN Nothing ELSE file
  /\ part' = IF Windows /\ fetch.at = "bytes" THEN part ELSE Nothing
  /\ thread' = [thread EXCEPT ![t] =
       IF thread[t].seen = thread[t].keep THEN [at |-> thread[t].next]
       ELSE [@ EXCEPT !.at = "forget"]]
  /\ UNCHANGED <<current, published, store, phase, fetch, installing>>

ForgetRecord(t) ==
  /\ thread[t].at = "forget"
  /\ downloaded' = thread[t].keep
  /\ thread' = [thread EXCEPT ![t] = [at |-> thread[t].next]]
  /\ UNCHANGED <<current, published, consent, latest, folder, phase, fetch, installing>>

Status(t) ==
  /\ thread[t].at = "status"
  /\ thread' = [thread EXCEPT ![t] = [at |-> "none"]]
  /\ UNCHANGED <<current, published, store, folder, phase, fetch, installing>>

(* Mutant of Matches: a file of that name is there.                         *)
MatchesByName(r) == file # Nothing
Matches(r) == file = Whole(r)

(* pending: the file is hashed again against the record.                    *)
Offerable ==
  /\ downloaded # Nothing /\ downloaded = latest /\ Newer(downloaded, current)
  /\ Matches(downloaded)

(* install: the host asks, hashes the file once more, and quits to run it.  *)
Offer(t) ==
  /\ thread[t].at = "offer"
  /\ thread' = [thread EXCEPT ![t] =
       IF Offerable THEN [at |-> "asked", of |-> downloaded] ELSE [at |-> "none"]]
  /\ UNCHANGED <<current, published, store, folder, phase, fetch, installing>>

Install(t) ==
  /\ thread[t].at = "asked"
  /\ installing' = IF Matches(thread[t].of) /\ installing = Nothing
                   THEN thread[t].of ELSE installing
  /\ thread' = [thread EXCEPT ![t] = [at |-> "none"]]
  /\ UNCHANGED <<current, published, store, folder, phase, fetch>>

-----------------------------------------------------------------------------
(* The program ends, and the installer is run if there was one to run; or   *)
(* the person installs a release by hand.                                   *)

Relaunch(byHand) ==
  /\ current' = IF byHand # Nothing THEN byHand
                ELSE IF installing # Nothing /\ file # Nothing /\ file.whole THEN file.of
                ELSE current
  /\ phase' = "idle" /\ fetch' = NoFetch /\ installing' = Nothing
  /\ thread' = [t \in Threads |-> [at |-> "none"]]
  /\ UNCHANGED <<published, store, folder>>

UpdatesInit ==
  /\ current = 1 /\ published \in Release
  /\ consent = Nothing /\ latest = Nothing /\ downloaded = Nothing
  /\ file = Nothing /\ part = Nothing
  /\ phase = "idle" /\ fetch = NoFetch /\ installing = Nothing
  /\ thread = [t \in Threads |-> [at |-> "none"]]

FetchStep == Sums \/ (\E whole \in BOOLEAN : Bytes(whole)) \/ Replace \/ Recorded \/ Fails

Route(t) ==
  \/ Listed(t) \/ ListFails(t)
  \/ Tidy(t) \/ Sweep(t) \/ ForgetRecord(t) \/ Status(t) \/ Offer(t) \/ Install(t)

UpdatesNext ==
  \/ Rots \/ FetchStep
  \/ \E r \in Release : Publish(r)
  \/ \E r \in Release \cup {Nothing} : Relaunch(r)
  \/ \E on \in BOOLEAN : SetChecks(on)
  \/ \E t \in Threads :
       \/ Route(t) \/ Download(t)
       \/ \E force \in BOOLEAN : Check(t, force)
       \/ \E next \in {"status", "offer"} : Asks(t, next)

UpdatesFairness == WF_updateVars(FetchStep) /\ \A t \in Threads : WF_updateVars(Route(t))
UpdatesSpec == UpdatesInit /\ [][UpdatesNext]_updateVars /\ UpdatesFairness

-----------------------------------------------------------------------------
(* Properties. *)

UpdatesTypeOK ==
  /\ current \in Release /\ published \in Release
  /\ consent \in {Nothing, TRUE, FALSE}
  /\ {latest, downloaded, installing} \subseteq Release \cup {Nothing}
  /\ {file, part} \subseteq Installer \cup {Nothing}
  /\ phase \in {"idle", "checking", "downloading"}
  /\ fetch.at # "none" => phase = "downloading" /\ fetch.of \in Release

(* What the host quits to run was fetched whole, checked against its own    *)
(* release's checksum and is newer than the build that runs it, whatever    *)
(* downloads, sweeps and damage go on between.                              *)
OnlyNewerAndWhole ==
  [][installing' # installing /\ installing' # Nothing
       => file = Whole(installing') /\ installing' > current]_updateVars

(* A finished installer that is still the newest is not swept away by a     *)
(* status that began before it was there.                                   *)
FetchedIsKept ==
  [][file # Nothing /\ downloaded # Nothing /\ file = Whole(downloaded)
       /\ Newer(downloaded, current) /\ file' = Nothing
     => fetch'.at = "bytes"]_updateVars

(* A check lets go of the phase, however it ends, so that the next can be  *)
(* asked for.                                                              *)
ChecksEnd == phase = "checking" ~> phase # "checking"
=============================================================================

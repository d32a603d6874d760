----------------------------- MODULE PairedClients -----------------------------
(***************************************************************************)
(* The programs that may reach the Spine: DeviceRegistry in                 *)
(* src/backend/core/pairing.py, the table behind it in                      *)
(* core/paired_clients.py, and the middleware and routes of main.py that    *)
(* ask it.  Everything runs on the event loop, so each call is one step;    *)
(* the registry is changed before the row is written, and the write may     *)
(* fail.                                                                    *)
(***************************************************************************)
EXTENDS Naturals, FiniteSets

CONSTANTS
  MaxClients,       (* bound on the clients paired                           *)
  Codes,            (* the codes issued                                      *)
  Ttl,              (* TOKEN_TTL_SECONDS, in ticks                           *)
  MaxClock,         (* bound on the clock                                    *)
  SaveFails         (* whether a write to the table may fail                 *)

ASSUME PairingAssumption ==
  MaxClients \in Nat /\ Ttl \in Nat /\ MaxClock \in Nat /\ SaveFails \in BOOLEAN

VARIABLES
  clock,
  pending,          (* _pending: code -> what it is, and the tick it lasts to   *)
  registry,         (* _devices: the clients, by number: [code, at, revoked] *)
  rows,             (* paired_clients: the same, as written                  *)
  lastPaired,       (* clients ever paired                                   *)
  saidRevoked,      (* the clients the person was told are revoked           *)
  everRevoked       (* the clients the registry has revoked                  *)

pairingVars == <<clock, pending, registry, rows, lastPaired, saidRevoked, everRevoked>>

Client == 1..MaxClients
Saves  == IF SaveFails THEN BOOLEAN ELSE {TRUE}
Put(table, c, device) == [d \in DOMAIN table \cup {c} |-> IF d = c THEN device ELSE table[d]]
Active(c) == c \in DOMAIN registry /\ ~registry[c].revoked

(* Mutant of Written: a row that is there is left as it is.                 *)
WrittenOnce(c, device) == IF c \in DOMAIN rows THEN rows ELSE Put(rows, c, device)
Written(c, device) == Put(rows, c, device)

-----------------------------------------------------------------------------
Tick ==
  /\ clock < MaxClock /\ clock' = clock + 1
  /\ UNCHANGED <<pending, registry, rows, lastPaired, saidRevoked, everRevoked>>

Unissued == [is |-> "none", to |-> 0]
Dropped  == [is |-> "dropped", to |-> 0]

LastTick == clock + Ttl

(* issue_token, which also drops what cannot be redeemed any more.          *)
Issue(code) ==
  /\ pending[code].is = "none"
  /\ pending' = [k \in Codes |->
       IF k = code THEN [is |-> "shown", to |-> LastTick]
       ELSE IF pending[k].is = "used" \/ (pending[k].is = "shown" /\ clock > pending[k].to)
       THEN Dropped ELSE pending[k]]
  /\ UNCHANGED <<clock, registry, rows, lastPaired, saidRevoked, everRevoked>>

Redeemable(code) == pending[code].is = "shown" /\ clock <= pending[code].to

UsedUp(code, saved) == [pending EXCEPT ![code].is = "used"]

(* redeem: the credential is returned only if the row is written.           *)
Redeem(code) ==
  /\ Redeemable(code) /\ lastPaired < MaxClients
  /\ LET device == [code |-> code, at |-> clock, revoked |-> FALSE] IN
     \E saved \in Saves :
       /\ pending' = UsedUp(code, saved)
       /\ lastPaired' = lastPaired + 1
       /\ registry' = Put(registry, lastPaired', device)
       /\ rows' = IF saved THEN Written(lastPaired', device) ELSE rows
  /\ UNCHANGED <<clock, saidRevoked, everRevoked>>

(* verify, for a call on a route that a client may reach: the sighting is   *)
(* written, row and all.                                                    *)
Verify(c) ==
  /\ Active(c)
  /\ \E saved \in Saves : rows' = IF saved THEN Written(c, registry[c]) ELSE rows
  /\ UNCHANGED <<clock, pending, registry, lastPaired, saidRevoked, everRevoked>>

(* revoke: a client that is not active is not one to revoke.                *)
Revoke(c) ==
  /\ Active(c)
  /\ LET device == [registry[c] EXCEPT !.revoked = TRUE] IN
     /\ registry' = Put(registry, c, device)
     /\ everRevoked' = everRevoked \cup {c}
     /\ \E saved \in Saves :
          /\ rows' = IF saved THEN Written(c, device) ELSE rows
          /\ saidRevoked' = IF saved THEN saidRevoked \cup {c} ELSE saidRevoked
  /\ UNCHANGED <<clock, pending, lastPaired>>

(* _load; codes are not kept.                                               *)
RestartPairing ==
  /\ registry' = rows
  /\ pending' = [k \in Codes |-> IF pending[k] = Unissued THEN Unissued ELSE Dropped]
  /\ UNCHANGED <<clock, rows, lastPaired, saidRevoked, everRevoked>>

PairingInit ==
  /\ clock = 0 /\ pending = [k \in Codes |-> Unissued]
  /\ registry = [c \in {} |-> 0] /\ rows = registry /\ lastPaired = 0
  /\ saidRevoked = {} /\ everRevoked = {}

PairingNext ==
  \/ Tick \/ RestartPairing
  \/ \E k \in Codes : Issue(k) \/ Redeem(k)
  \/ \E c \in Client : Verify(c) \/ Revoke(c)

PairingSpec == PairingInit /\ [][PairingNext]_pairingVars

-----------------------------------------------------------------------------
(* Properties.                                                              *)

PairingTypeOK ==
  /\ \A k \in Codes : pending[k] \in [is : {"none", "shown", "used", "dropped"}, to : 0..(clock + Ttl)]
  /\ DOMAIN registry \cup DOMAIN rows \subseteq 1..lastPaired
  /\ \A c \in DOMAIN registry : registry[c] \in [code : Codes, at : 0..MaxClock, revoked : BOOLEAN]

(* "Single-use": no code pairs two clients, whether or not the first one's  *)
(* row was written and whatever restarts come between.                      *)
CodesPairOnce ==
  \A c, d \in DOMAIN registry \cup DOMAIN rows :
    LET Of(e) == IF e \in DOMAIN registry THEN registry[e] ELSE rows[e] IN
    c # d => Of(c).code # Of(d).code

(* "Revoked, and never verifies again": once the person has been told so, a *)
(* client is refused, over restarts, whatever else is written to its row.   *)
RevokedStaysRefused == \A c \in saidRevoked : ~Active(c)

(* The same from the moment the registry refuses it, written or not.        *)
RevokedEvenIfUnsaved == \A c \in everRevoked : ~Active(c)
=============================================================================

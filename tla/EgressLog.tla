------------------------------- MODULE EgressLog -------------------------------
(***************************************************************************)
(* The egress log of src/backend/core/egress/log.py: a table of rows, each *)
(* holding the hash of the row before it and the hash of its own contents  *)
(* over that, and a retention pass that prunes old requests and re-links   *)
(* the rest behind a marker.  Appending and pruning run under one lock in  *)
(* one transaction each, so each is one step, and a crash between two      *)
(* steps leaves the table as it was.  The clock is the machine's and can   *)
(* be set.  Something other than the program may alter the file once.      *)
(***************************************************************************)
EXTENDS Integers, FiniteSets, SequencesExt

CONSTANTS
  Sites,      (* the call sites of append a run considers                   *)
  Ages,       (* max_age_days                                               *)
  MaxTime,    (* bound on the clock, in days                                *)
  MaxRows,    (* bound on the rows ever written                             *)
  Tampering   (* what is done to the file from outside                      *)

Kind     == {"request", "retention", "client", "prompt"}

(* What each caller passes: the gate's _record; POST /egress/browse; the    *)
(* paired-client middleware; WebSearchManager; the memory purge.            *)
CallSites ==
  {[source |-> "gate",         kind |-> "request",   decision |-> "allowed", sends |-> TRUE],
   [source |-> "gate",         kind |-> "request",   decision |-> "denied",  sends |-> FALSE],
   [source |-> "browser-pane", kind |-> "request",   decision |-> "allow",   sends |-> TRUE],
   [source |-> "pairing",      kind |-> "client",    decision |-> "allowed", sends |-> TRUE],
   [source |-> "web_search",   kind |-> "prompt",    decision |-> "allowed", sends |-> TRUE],
   [source |-> "memory.purge", kind |-> "retention", decision |-> "allow",   sends |-> FALSE]}

RetentionPass ==
  [source |-> "egress.retention", kind |-> "retention", decision |-> "allowed",
   sends |-> FALSE]

ASSUME LogAssumption ==
  /\ Sites \subseteq CallSites
  /\ Ages \subseteq Nat \ {0}
  /\ MaxTime \in Nat /\ MaxRows \in Nat
  /\ Tampering \subseteq {"edit", "lose", "reorder"}

VARIABLES
  rows,      (* the table, in row order                                     *)
  clock,     (* time.time(), in days                                        *)
  written,   (* history: the contents of every row ever written, in order   *)
  tampered,  (* history: what was done to the file from outside             *)
  blind,     (* history: it was done where the chain does not look          *)
  relinked   (* history: a prune has recomputed the hashes since            *)

vars == <<rows, clock, written, tampered, blind, relinked>>

(* EgressEntry.payload: everything the hash covers.  text stands for the    *)
(* host, url and body; removed is the marker's count.                       *)
Payload == [by : CallSites \cup {RetentionPass}, id : Nat, at : Int,
            text : {"as sent", "altered"}, removed : Nat]

(* A collision-free hash: the contents hashed so far, oldest first.         *)
GENESIS_HASH  == <<>>
Hash(prev, p) == Append(prev, p)

Row == [of : Payload, prev : Seq(Payload), hash : Seq(Payload)]

Entry(by, removed) ==
  [by |-> by, id |-> Len(written) + 1, at |-> clock, text |-> "as sent",
   removed |-> removed]

IsMarker(row) == row.of.by.kind = "retention"

-----------------------------------------------------------------------------
(* Mutant of LastHash: the previous hash is taken from the last request and   *)
(* not from the last row.                                                   *)
LastRequestHash ==
  LET requests == {i \in DOMAIN rows : ~IsMarker(rows[i])}
  IN IF requests = {} THEN GENESIS_HASH ELSE rows[Max(requests)].hash

LastHash == IF rows = <<>> THEN GENESIS_HASH ELSE rows[Len(rows)].hash

(* append *)
Write(site) ==
  /\ Len(written) < MaxRows
  /\ LET p == Entry(site, 0) IN
       /\ rows' = Append(rows, [of |-> p, prev |-> LastHash, hash |-> Hash(LastHash, p)])
       /\ written' = Append(written, p)
  /\ UNCHANGED <<clock, tampered, blind, relinked>>

(* Mutant of Doomed: markers and other kinds are pruned with the requests.  *)
DoomedAnyKind(row, days) == row.of.at < clock - days

Doomed(row, days) == row.of.at < clock - days /\ row.of.by.kind = "request"

(* The rows a prune leaves, in the order they are in.                       *)
InOrder(places) ==
  CHOOSE at \in [1..Cardinality(places) -> places] :
    \A m, n \in 1..Cardinality(places) : m < n => at[m] < at[n]

Survivors(days) ==
  LET places == {i \in DOMAIN rows : ~Doomed(rows[i], days)}
      at     == InOrder(places)
  IN [n \in 1..Cardinality(places) |-> rows[at[n]]]

Removed(survivors) == Len(rows) - Len(survivors)

(* The marker first, on the genesis hash, and each survivor on the row      *)
(* before it: row i's hash is over everything up to row i.                  *)
Relink(marker, survivors) ==
  LET contents == <<marker>> \o [i \in DOMAIN survivors |-> survivors[i].of]
  IN [i \in DOMAIN contents |->
       [of |-> contents[i], prev |-> SubSeq(contents, 1, i - 1),
        hash |-> SubSeq(contents, 1, i)]]

(* apply_retention.  Nothing to prune: nothing written.                     *)
ApplyRetention(days) ==
  LET survivors == Survivors(days)
      marker    == Entry(RetentionPass, Removed(survivors))
  IN /\ Len(written) < MaxRows
     /\ Len(survivors) < Len(rows)
     /\ rows' = Relink(marker, survivors)
     /\ written' = Append(written, marker)
     /\ relinked' = (tampered # "none")
     /\ UNCHANGED <<clock, tampered, blind>>

(* Mutant of Fits: the links are compared and the contents are not.         *)
FitsLinksOnly(table, i) ==
  ~IsMarker(table[i]) =>
    table[i].prev = IF i = 1 THEN GENESIS_HASH ELSE table[i - 1].hash

(* verify: the first row that does not fit makes it raise.  A marker        *)
(* restarts the chain: what it follows is not looked at.                    *)
Fits(table, i) ==
  /\ table[i].hash = Hash(table[i].prev, table[i].of)
  /\ ~IsMarker(table[i]) =>
       table[i].prev = IF i = 1 THEN GENESIS_HASH ELSE table[i - 1].hash

verify == \A i \in DOMAIN rows : Fits(rows, i)

(* bytes_since, counting each row's bytes as one. *)
BytesSince(since) ==
  Len(SelectSeq(rows, LAMBDA row :
    row.of.at >= since /\ row.of.by.decision = "allowed" /\ row.of.by.kind = "request"))

-----------------------------------------------------------------------------
(* The world. *)

SetClock(t) ==
  /\ t # clock
  /\ clock' = t
  /\ UNCHANGED <<rows, written, tampered, blind, relinked>>

Tamper(how, table, unseen) ==
  /\ how \in Tampering
  /\ tampered = "none"
  /\ tampered' = how
  /\ rows' = table
  /\ blind' = unseen
  /\ UNCHANGED <<clock, written, relinked>>

(* A hand-run UPDATE, a lost row, two rows in the wrong order.              *)
Edit(i)    == Tamper("edit", [rows EXCEPT ![i].of.text = "altered"], FALSE)
Lose(i)    == Tamper("lose", RemoveAt(rows, i),
                     i = Len(rows) \/ IsMarker(rows[i + 1]))
Reorder(i) == /\ i < Len(rows)
              /\ Tamper("reorder", [rows EXCEPT ![i] = rows[i + 1], ![i + 1] = rows[i]],
                        IsMarker(rows[i]) /\ IsMarker(rows[i + 1]))

Init ==
  /\ rows = <<>>
  /\ clock = 0
  /\ written = <<>>
  /\ tampered = "none"
  /\ blind = FALSE
  /\ relinked = FALSE

Next ==
  \/ \E site \in Sites : Write(site)
  \/ \E days \in Ages : ApplyRetention(days)
  \/ \E t \in 0..MaxTime : SetClock(t)
  \/ \E i \in DOMAIN rows : Edit(i) \/ Lose(i) \/ Reorder(i)

Spec == Init /\ [][Next]_vars

-----------------------------------------------------------------------------
(* Properties. *)

TypeOK ==
  /\ rows \in Seq(Row)
  /\ clock \in Int
  /\ written \in Seq(Payload)
  /\ tampered \in {"none", "edit", "lose", "reorder"}
  /\ blind \in BOOLEAN
  /\ relinked \in BOOLEAN

(* A log nobody touched always verifies: through prunes that follow prunes, *)
(* purge markers in the middle and a clock that jumps, "nothing else was    *)
(* altered" is never raised falsely.                                        *)
ChainVerifies == tampered = "none" => verify

(* "Their contents are untouched": what is in the table is what was         *)
(* written, in the order it was written in but for the prune markers, and   *)
(* the requests in it and those the markers count add up to the requests    *)
(* ever logged, however often the table was pruned and re-linked.           *)
IsRequest(p)     == p.by.kind = "request"
RequestsInTable  == {i \in DOMAIN rows : IsRequest(rows[i].of)}
RequestsCounted  == UNION {{i} \X (1..rows[i].of.removed) : i \in DOMAIN rows}
RequestsWritten  == {i \in DOMAIN written : IsRequest(written[i])}
EveryRequestAccountedFor ==
  tampered = "none" =>
    /\ Cardinality(RequestsInTable) + Cardinality(RequestsCounted) = Cardinality(RequestsWritten)
    /\ \A i \in DOMAIN rows :
         rows[i].of.id \in DOMAIN written /\ rows[i].of = written[rows[i].of.id]
    /\ \A i, j \in DOMAIN rows :
         i < j /\ rows[i].of.by # RetentionPass /\ rows[j].of.by # RetentionPass
           => rows[i].of.id < rows[j].of.id

(* An edit, a lost row or two rows exchanged is reported, whatever is       *)
(* appended afterwards, except where the chain does not look (the end of    *)
(* the table, the row before a marker, two markers) and until a prune       *)
(* recomputes the hashes.                                                   *)
TamperIsSeen == tampered # "none" /\ ~blind /\ ~relinked => ~verify

(* What the module's own documentation says and the runs refute. *)

(* The chain detects "a truncated file" (log.py:41).                        *)
TruncationIsSeen == tampered = "lose" /\ ~relinked => ~verify

(* "The marker must not become a blind spot the chain stops checking"       *)
(* (tests/test_egress_gate.py:313): a row removed from inside the table is  *)
(* reported.  The memory purge writes a marker of the same kind.            *)
MarkerIsNoBlindSpot ==
  [][\A i \in DOMAIN rows : i < Len(rows) /\ Lose(i) => ~verify']_vars

(* After a prune the log can prove "that nothing else was altered"          *)
(* (log.py:22): a prune does not make altered rows verify.                  *)
PruningKeepsTheEvidence == [][verify' /\ tampered' # "none" => verify]_vars

(* apply_retention: "Delete entries older than max_age_days" (log.py:379).  *)
RetentionForgets ==
  [][\A days \in Ages : ApplyRetention(days) =>
       \A i \in DOMAIN rows' :
         rows'[i].of.at < clock - days => IsMarker(rows'[i])]_vars

(* bytes_since: "Total bytes that actually left since" (log.py:312).        *)
BytesSinceCountsWhatLeft ==
  \A t \in 0..MaxTime :
    BytesSince(t) = Cardinality({i \in DOMAIN rows :
                                   rows[i].of.at >= t /\ rows[i].of.by.sends})
=============================================================================

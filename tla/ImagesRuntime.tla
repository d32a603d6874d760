---------------------------- MODULE ImagesRuntime ----------------------------
(***************************************************************************)
(* Drawing a picture on the card the chat model lives on: the images       *)
(* runtime (runtimes/images/runtime.py), its view of the card (card.py),   *)
(* who draws (imaging/cloud.py), the pipeline (imaging/local_flux.py) and  *)
(* the chat model's way back (models_runtime.py, warm_local_model).  A     *)
(* picture's coroutine runs on one loop between awaits; what it awaits     *)
(* runs on a thread and is a step of its own.                              *)
(***************************************************************************)
EXTENDS Integers, FiniteSets

CONSTANTS
  Pictures,       (* requests that may be in flight together                 *)
  Room,           (* the card, in units                                      *)
  FluxSize,       (* APPROXIMATE_VRAM_BYTES                                  *)
  ChatSize,       (* the chat model                                          *)
  OtherSize,      (* what another program may take of the card               *)
  CardEvents      (* which of the events below may happen                    *)

ASSUME CardAssumption ==
  /\ IsFiniteSet(Pictures)
  /\ {Room, FluxSize, ChatSize, OtherSize} \subseteq Nat
  /\ CardEvents \subseteq {"question", "release", "choose", "connect", "program", "blind", "fails"}

VARIABLES
  picture,        (* how far each request has come                           *)
  elsewhere,      (* whether it has a cloud provider to fall back on         *)
  inFlight,       (* _in_flight                                              *)
  loaded,         (* the provider's _pipeline is set                         *)
  evicted,        (* _evicted is not empty                                   *)
  reloads,        (* requests whose reload of the chat model is to start     *)
  chatModel,      (* the chat model: "off" the card, "coming" or "on" it     *)
  others,         (* what other programs hold                                *)
  prefers,        (* the image locality in the settings                      *)
  connected       (* a cloud provider may draw                               *)

cardVarsOf == <<chatModel, others, prefers, connected>>
imageVars == <<picture, elsewhere, inFlight, loaded, evicted, reloads, cardVarsOf>>

Sampling == {"loading", "sampling"}                (* holding the pipeline  *)
Asking   == {"reading", "listing", "releasing", "rereading"}
Working  == Asking \cup Sampling \cup {"drawing", "waiting", "cloud", "leaving"}

FluxOnCard == loaded \/ \E r \in Pictures : picture[r] \in Sampling

(* What the driver says is free: a model counts while it is being loaded.   *)
FreeCard ==
  Room - others - (IF chatModel = "off" THEN 0 ELSE ChatSize) - (IF FluxOnCard THEN FluxSize ELSE 0)

(* The free-memory probe: an answer that fits, or none at all.              *)
Fits(size) == FreeCard >= size \/ "blind" \in CardEvents

(* Who draws, asked afresh each time.                                       *)
Pick ==
  CASE prefers = "local" -> "local"
    [] prefers = "cloud" /\ connected -> "cloud"
    [] OTHER -> "nobody"

To(r, place) == picture' = [picture EXCEPT ![r] = place]

-----------------------------------------------------------------------------
(* execute, up to the thread that draws. *)

(* What is on the card already, or needs no card, is not measured.          *)
Ask(r) ==
  /\ picture[r] = "idle" /\ r \notin reloads
  /\ Pick # "nobody"
  /\ inFlight' = inFlight + 1
  /\ elsewhere' = [elsewhere EXCEPT ![r] = connected]
  /\ To(r, IF Pick = "local" /\ ~loaded THEN "reading" ELSE "drawing")
  /\ UNCHANGED <<loaded, evicted, reloads, cardVarsOf>>

(* _make_room: a full card is not emptied where the cloud can draw.         *)
ReadCard(r) ==
  /\ picture[r] = "reading"
  /\ \/ Fits(FluxSize) /\ To(r, "drawing")
     \/ FreeCard < FluxSize /\ To(r, IF elsewhere[r] THEN "cloud" ELSE "listing")
  /\ UNCHANGED <<elsewhere, inFlight, loaded, evicted, reloads, cardVarsOf>>

(* Nothing of Zaram's on it is a refusal; an unknown map is not nothing.    *)
ListHeld(r) ==
  /\ picture[r] = "listing"
  /\ \/ (chatModel = "on" \/ "blind" \in CardEvents) /\ To(r, "releasing")
     \/ chatModel # "on" /\ To(r, "leaving")
  /\ UNCHANGED <<elsewhere, inFlight, loaded, evicted, reloads, cardVarsOf>>

(* Every server is asked to unload; one may not be able to.                 *)
ReleaseHeld(r) ==
  /\ picture[r] = "releasing"
  /\ \/ chatModel = "on" /\ chatModel' = "off" /\ evicted' = TRUE
     \/ (chatModel # "on" \/ "fails" \in CardEvents) /\ UNCHANGED <<chatModel, evicted>>
  /\ To(r, "rereading")
  /\ UNCHANGED <<elsewhere, inFlight, loaded, reloads, others, prefers, connected>>

Reread(r) ==
  /\ picture[r] = "rereading"
  /\ \/ Fits(FluxSize) /\ To(r, "drawing")
     \/ FreeCard < FluxSize /\ To(r, "leaving")
  /\ UNCHANGED <<elsewhere, inFlight, loaded, evicted, reloads, cardVarsOf>>

-----------------------------------------------------------------------------
(* The thread: whoever is picked now draws, and a failure is handed on to   *)
(* the cloud providers left, never to the card.                             *)

Draw(r) ==
  /\ picture[r] = "drawing"
  /\ elsewhere' = [elsewhere EXCEPT ![r] = Pick = "local" /\ connected]
  /\ To(r, CASE Pick = "local" -> "waiting" [] Pick = "cloud" -> "cloud" [] OTHER -> "leaving")
  /\ UNCHANGED <<inFlight, loaded, evicted, reloads, cardVarsOf>>

(* generate holds the provider's lock while it loads and samples.           *)
TakeLock(r) ==
  /\ picture[r] = "waiting"
  /\ \A q \in Pictures : picture[q] \notin Sampling
  /\ To(r, IF loaded THEN "sampling" ELSE "loading")
  /\ UNCHANGED <<elsewhere, inFlight, loaded, evicted, reloads, cardVarsOf>>

Loads(r) ==
  /\ picture[r] = "loading"
  /\ loaded' = TRUE
  /\ To(r, "sampling")
  /\ UNCHANGED <<elsewhere, inFlight, evicted, reloads, cardVarsOf>>

FluxFails(r) ==
  /\ picture[r] \in Sampling /\ "fails" \in CardEvents
  /\ To(r, IF elsewhere[r] THEN "cloud" ELSE "leaving")
  /\ UNCHANGED <<elsewhere, inFlight, loaded, evicted, reloads, cardVarsOf>>

Drawn(r) ==
  /\ picture[r] \in {"sampling", "cloud"}
  /\ To(r, "leaving")
  /\ UNCHANGED <<elsewhere, inFlight, loaded, evicted, reloads, cardVarsOf>>

-----------------------------------------------------------------------------
(* The finally block: the last one out unloads and brings the chat model    *)
(* back, whoever has come in since.                                         *)

(* Mutant of Leave: the count is looked at before this one is taken off.    *)
LeaveCountedIn(r) ==
  /\ picture[r] = "leaving"
  /\ inFlight' = inFlight - 1
  /\ To(r, IF inFlight = 0 THEN "unloading" ELSE "idle")
  /\ UNCHANGED <<elsewhere, loaded, evicted, reloads, cardVarsOf>>

Leave(r) ==
  /\ picture[r] = "leaving"
  /\ inFlight' = inFlight - 1
  /\ To(r, IF inFlight = 1 THEN "unloading" ELSE "idle")
  /\ UNCHANGED <<elsewhere, loaded, evicted, reloads, cardVarsOf>>

Unload(r) ==
  /\ picture[r] = "unloading"
  /\ loaded' = FALSE
  /\ To(r, "restoring")
  /\ UNCHANGED <<elsewhere, inFlight, evicted, reloads, cardVarsOf>>

BringBack(r) ==
  /\ picture[r] = "restoring"
  /\ evicted' = FALSE
  /\ reloads' = IF evicted THEN reloads \cup {r} ELSE reloads
  /\ To(r, "idle")
  /\ UNCHANGED <<elsewhere, inFlight, loaded, cardVarsOf>>

(* warm_local_model: not where it would not fit.                            *)
Reload(r) ==
  /\ r \in reloads
  /\ reloads' = reloads \ {r}
  /\ \/ chatModel = "off" /\ Fits(ChatSize) /\ chatModel' = "coming"
     \/ (chatModel # "off" \/ FreeCard < ChatSize) /\ UNCHANGED chatModel
  /\ UNCHANGED <<picture, elsewhere, inFlight, loaded, evicted, others, prefers, connected>>

-----------------------------------------------------------------------------
(* Everything else on the machine. *)

World == UNCHANGED <<picture, elsewhere, inFlight, loaded, evicted, reloads>>

(* A server loads what a question names, whether it fits or not.            *)
Question ==
  /\ "question" \in CardEvents /\ chatModel = "off"
  /\ chatModel' = "coming" /\ World /\ UNCHANGED <<others, prefers, connected>>

ChatArrives ==
  /\ chatModel = "coming"
  /\ chatModel' = "on" /\ World /\ UNCHANGED <<others, prefers, connected>>

(* The Release button, or a keep-alive that ran out.                        *)
ChatGoes ==
  /\ "release" \in CardEvents /\ chatModel = "on"
  /\ chatModel' = "off" /\ World /\ UNCHANGED <<others, prefers, connected>>

Choose ==
  /\ "choose" \in CardEvents
  /\ prefers' \in {"local", "cloud"} \ {prefers}
  /\ World /\ UNCHANGED <<chatModel, others, connected>>

Connect ==
  /\ "connect" \in CardEvents
  /\ connected' = ~connected
  /\ World /\ UNCHANGED <<chatModel, others, prefers>>

Program ==
  /\ "program" \in CardEvents
  /\ others' \in {0, OtherSize} \ {others}
  /\ World /\ UNCHANGED <<chatModel, prefers, connected>>

-----------------------------------------------------------------------------
ImagesInit ==
  /\ picture = [r \in Pictures |-> "idle"]
  /\ elsewhere = [r \in Pictures |-> FALSE]
  /\ inFlight = 0 /\ loaded = FALSE /\ evicted = FALSE /\ reloads = {}
  /\ chatModel = "on" /\ others = 0 /\ prefers = "local" /\ connected = FALSE

Requested == \E r \in Pictures : Ask(r)

Prepares(r) == ReadCard(r) \/ ListHeld(r) \/ ReleaseHeld(r) \/ Reread(r)
Paints(r)   == Draw(r) \/ TakeLock(r) \/ Loads(r) \/ FluxFails(r) \/ Drawn(r)
Finishes(r) == Leave(r) \/ Unload(r) \/ BringBack(r)

Moves(r) == Prepares(r) \/ Paints(r) \/ Finishes(r)

Surroundings == Question \/ ChatArrives \/ ChatGoes \/ Choose \/ Connect \/ Program

ImagesNext == Requested \/ (\E r \in Pictures : Moves(r) \/ Reload(r)) \/ Surroundings

(* Threads and tasks run; nobody has to ask for a picture.                  *)
ImagesSpec ==
  /\ ImagesInit /\ [][ImagesNext]_imageVars
  /\ \A r \in Pictures : WF_imageVars(Moves(r)) /\ WF_imageVars(Reload(r))
  /\ WF_imageVars(ChatArrives)

-----------------------------------------------------------------------------
(* Properties. *)

ImagesTypeOK ==
  /\ picture \in [Pictures -> Working \cup {"idle", "unloading", "restoring"}]
  /\ elsewhere \in [Pictures -> BOOLEAN]
  /\ inFlight \in Nat /\ loaded \in BOOLEAN /\ evicted \in BOOLEAN
  /\ reloads \subseteq Pictures /\ chatModel \in {"off", "coming", "on"}
  /\ others \in {0, OtherSize} /\ prefers \in {"local", "cloud"} /\ connected \in BOOLEAN

(* While the image model is on the card, or a chat model is owed its place, *)
(* some request is on its way that will see to it, however requests come    *)
(* and go between the last one's count and its unloading.                   *)
SomeoneGivesBack ==
  /\ loaded => \E r \in Pictures : picture[r] \in Working \cup {"unloading"}
  /\ evicted => \E r \in Pictures : picture[r] \in Working \cup {"unloading", "restoring"}

(* "Eight gigabytes held resident for something used once an hour": once    *)
(* pictures are no longer asked for, the card is given back.                *)
CardIsGivenBack == []<><<Requested>>_imageVars \/ <>[]~FluxOnCard

(* "reads again, and only then lets the provider load": nothing is loaded   *)
(* where it does not fit.                                                   *)
LoadsWhereItFits ==
  [][\A r \in Pictures : TakeLock(r) /\ ~loaded => FreeCard >= FluxSize]_imageVars

(* The chat model drawing put out comes back once the picture is done.      *)
ChatComesBack == evicted ~> chatModel # "off"
==============================================================================

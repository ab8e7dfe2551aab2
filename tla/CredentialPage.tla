--------------------------- MODULE CredentialPage ---------------------------
(***************************************************************************)
(* The credential's page, app/dashboard/events/[id]/credential/page.tsx,   *)
(* with components/credential-editor.tsx and its FileDropzone, before      *)
(* EventsService.updateCredential.                                         *)
(*                                                                         *)
(* A position is one coordinate in percents and one style (font, colour,   *)
(* alignment); the other coordinate is as the first.  An uploaded file is  *)
(* named by the click that sent it, as its URL is fresh; 0 is the artwork  *)
(* the event had.                                                          *)
(***************************************************************************)
EXTENDS Integers, FiniteSets, Values

CONSTANTS
    Drops,          \* where the name may be dropped, in percents of the stage
    Styles,
    FirstStyle,     \* of DEFAULT_POSITION
    MaxCrClicks,    \* bound: uploads, edits and clicks
    MaxCrLosses     \* bound: failed calls

ASSUME DropsArePercents == Drops \subseteq Int
ASSUME FirstStyleIsOne == FirstStyle \in Styles
ASSUME NilIsNoArtwork == Nil \notin Nat
ASSUME CrBounds == MaxCrClicks \in Nat /\ MaxCrLosses \in Nat

VARIABLES
    credential,     \* the stored artwork and position, each perhaps Nil
    crShown,        \* the editor is there
    crLoadError,
    artwork, position,
    image,          \* the artwork drawn under the name
    downloads,      \* images being fetched: url, and whether its effect was cleaned up
    crError,
    crSaving, crSaved,
    crCalls,
    crMuddled,      \* history: edited while a save was under way
    crClicks, crLosses

crDraft == <<artwork, position>>
crCanvas == <<image, downloads>>
crVars == <<credential, crShown, crLoadError, crDraft, crCanvas, crError,
            crSaving, crSaved, crCalls, crMuddled, crClicks, crLosses>>

Percents == 0 .. 100
Positions == [at : Percents, style : Styles]
DEFAULT_POSITION == [at |-> 50, style |-> FirstStyle]
Artworks == (0 .. MaxCrClicks) \union {Nil}

CrInit ==
    /\ credential \in [art : {0, Nil}, position : {Nil, [at |-> 0, style |-> FirstStyle]}]
    /\ crShown = FALSE /\ crLoadError = FALSE
    /\ artwork = Nil
    /\ position = DEFAULT_POSITION
    /\ image = Nil
    /\ downloads = {}
    /\ crError = FALSE
    /\ crSaving = FALSE /\ crSaved = FALSE
    /\ crCalls = {[op |-> "get", data |-> Nil, at |-> "sent"]}
    /\ crMuddled = FALSE
    /\ crClicks = 0 /\ crLosses = 0

CrClick ==
    /\ crShown
    /\ crClicks < MaxCrClicks
    /\ crClicks' = crClicks + 1
CrStored == UNCHANGED <<credential, crShown, crLoadError, crLosses>>

(***************************************************************************)
(* The artwork and its image                                               *)
(***************************************************************************)

\* setArtworkUrl and the effect: the earlier fetch is cleaned up, not stopped.
SetArtwork(a) ==
    /\ artwork' = a
    /\ downloads' = {[d EXCEPT !.live = FALSE] : d \in downloads} \union
                    (IF a = Nil THEN {} ELSE {[url |-> a, live |-> TRUE]})

\* The drop zone takes another file while one is being sent.
UploadArtwork ==
    /\ CrClick
    /\ crCalls' = crCalls \union {[op |-> "upload", data |-> crClicks + 1, at |-> "sent"]}
    /\ UNCHANGED <<crDraft, crCanvas, crError, crSaving, crSaved, crMuddled>> /\ CrStored

RemoveArtwork ==
    /\ artwork # Nil /\ CrClick
    /\ SetArtwork(Nil)
    /\ image' = Nil
    /\ crSaved' = FALSE /\ crMuddled' = (crMuddled \/ crSaving)
    /\ UNCHANGED <<position, crError, crSaving, crCalls>> /\ CrStored

ImageArrives(d, ok) ==
    /\ d \in downloads
    /\ downloads' = downloads \ {d}
    /\ IF d.live
       THEN image' = (IF ok THEN d.url ELSE Nil) /\ crError' = (crError \/ ~ok)
       ELSE UNCHANGED <<image, crError>>
    /\ UNCHANGED <<crDraft, crSaving, crSaved, crCalls, crMuddled, crClicks>> /\ CrStored

(***************************************************************************)
(* The position                                                            *)
(***************************************************************************)

EditPosition(p) ==
    /\ p # position /\ CrClick
    /\ position' = p
    /\ crSaved' = FALSE /\ crMuddled' = (crMuddled \/ crSaving)
    /\ UNCHANGED <<artwork, crCanvas, crError, crSaving, crCalls>> /\ CrStored

\* A plausible slip, not part of CrNext: the drop is not clamped.
DragEndUnclamped(x) == EditPosition([position EXCEPT !.at = x])

clampPct(x) == IF x < 0 THEN 0 ELSE IF x > 100 THEN 100 ELSE x

\* The name may be dropped beyond the stage.
DragEnd(x) == EditPosition([position EXCEPT !.at = clampPct(x)])
UpdatePosition(s) == EditPosition([position EXCEPT !.style = s])

(***************************************************************************)
(* Saving                                                                  *)
(***************************************************************************)

\* Nothing but the button waits for the answer, and `saved' stays as it was; no
\* artwork is undefined.
HandleSaveCredential ==
    /\ ~crSaving /\ CrClick
    /\ crError' = FALSE
    /\ crSaving' = TRUE
    /\ crCalls' = crCalls \union
           {[op |-> "save", data |-> [art |-> artwork, position |-> position], at |-> "sent"]}
    /\ UNCHANGED <<crDraft, crCanvas, crSaved, crMuddled>> /\ CrStored

ServeUpdateCredential(c) ==
    /\ c.op = "save" /\ c \in crCalls /\ c.at = "sent"
    /\ credential' = [art |-> IF c.data.art = Nil THEN credential.art ELSE c.data.art,
                      position |-> c.data.position]
    /\ crCalls' = (crCalls \ {c}) \union {[c EXCEPT !.at = "answered"]}
    /\ UNCHANGED <<crShown, crLoadError, crDraft, crCanvas, crError, crSaving, crSaved,
                   crMuddled, crClicks, crLosses>>

\* The call, or its answer, is lost; an upload may be refused.
LoseCrCall(c) ==
    /\ crLosses < MaxCrLosses /\ c \in crCalls /\ c.at # "failed"
    /\ crLosses' = crLosses + 1
    /\ crCalls' = (crCalls \ {c}) \union {[c EXCEPT !.at = "failed"]}
    /\ UNCHANGED <<credential, crShown, crLoadError, crDraft, crCanvas, crError, crSaving,
                   crSaved, crMuddled, crClicks>>

CrArrive(c) == c \in crCalls /\ crCalls' = crCalls \ {c} /\ UNCHANGED <<credential, crClicks, crLosses>>

\* The editor starts from the event, and fetches its artwork.
CredentialArrives(c) ==
    /\ c.op = "get" /\ CrArrive(c)
    /\ IF c.at = "failed"
       THEN crLoadError' = TRUE /\ UNCHANGED <<crShown, crDraft, downloads>>
       ELSE /\ crShown' = TRUE
            /\ SetArtwork(credential.art)
            /\ position' = IF credential.position = Nil THEN DEFAULT_POSITION ELSE credential.position
            /\ UNCHANGED crLoadError
    /\ UNCHANGED <<image, crError, crSaving, crSaved, crMuddled>>

ArtworkArrives(c) ==
    /\ c.op = "upload" /\ CrArrive(c)
    /\ IF c.at = "failed"
       THEN UNCHANGED <<artwork, downloads, crError, crSaved, crMuddled>>
       ELSE /\ SetArtwork(c.data)
            /\ crError' = FALSE
            /\ crSaved' = FALSE /\ crMuddled' = (crMuddled \/ crSaving)
    /\ UNCHANGED <<crShown, crLoadError, position, image, crSaving>>

SavedCredentialArrives(c) ==
    /\ c.op = "save" /\ c.at # "sent" /\ CrArrive(c)
    /\ IF c.at = "failed" THEN crError' = TRUE /\ UNCHANGED crSaved
                          ELSE crSaved' = TRUE /\ UNCHANGED crError
    /\ crSaving' = FALSE
    /\ UNCHANGED <<crShown, crLoadError, crDraft, crCanvas, crMuddled>>

CrNext ==
    \/ UploadArtwork \/ RemoveArtwork \/ HandleSaveCredential
    \/ \E d \in downloads, ok \in BOOLEAN : ImageArrives(d, ok)
    \/ \E x \in Drops : DragEnd(x)
    \/ \E s \in Styles : UpdatePosition(s)
    \/ \E c \in crCalls :
        \/ ServeUpdateCredential(c) \/ LoseCrCall(c)
        \/ CredentialArrives(c) \/ ArtworkArrives(c) \/ SavedCredentialArrives(c)

CrSpec == CrInit /\ [][CrNext]_crVars

----------------------------------------------------------------------------
CrTypeOK ==
    /\ credential \in [art : Artworks, position : Positions \union {Nil}]
    /\ artwork \in Artworks /\ position \in Positions /\ image \in Artworks
    /\ \A d \in downloads : d.url \in Artworks \ {Nil} /\ d.live \in BOOLEAN
    /\ {crShown, crLoadError, crError, crSaving, crSaved, crMuddled} \subseteq BOOLEAN
    /\ crSaving <=> \E c \in crCalls : c.op = "save"

\* credential-editor.tsx:55-72: uploads, removals and downloads in any order, and
\* once the last artwork's image has come or failed, it is the one on the canvas.
CanvasShowsArtwork ==
    (\A d \in downloads : ~d.live) => image \in {artwork, Nil}

\* credential-editor.tsx:263: 'Salvo' stands beside a draft that is stored, unless
\* it was edited while a save was under way (:130 then says so of the newer draft,
\* and :122-124 keeps saying it while that one is sent); a removed artwork keeps
\* its stored URL.
SavedCredentialIsStored ==
    crSaved /\ ~crMuddled =>
        /\ credential.position = position
        /\ artwork \in {Nil, credential.art}
=============================================================================

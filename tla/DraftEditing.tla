--------------------------- MODULE DraftEditing ---------------------------
(***************************************************************************)
(* Several pages edit the working copy of one draft (CrucibleTab.tsx), and *)
(* the server keeps it (POST and GET /drafts/:postId/content).             *)
(*                                                                         *)
(* A text is the set of the edits it contains; edit 0 is what the draft    *)
(* held when the pages were opened.  A hash names one text, so the model   *)
(* writes the text itself for its hash.  The server saves a text only if   *)
(* the request names the text it now holds; everything else is the page's  *)
(* business: which text it sends, and which hash it sends with it.         *)
(*                                                                         *)
(* The page keeps these in separate places: React state, refs that         *)
(* callbacks read, and closures that remember the state of the render they *)
(* were made in.  A timer's callback sends the text a ref holds when it    *)
(* fires with the hash its closure remembers.                              *)
(*                                                                         *)
(* The draft is in drafting and the editors may edit all of it.  Left out: *)
(* the collaboration server, which moves keystrokes between open paragraph *)
(* editors, the near-deadline save without a timer, paragraph deletion     *)
(* and AI acceptance.                                                      *)
(***************************************************************************)
EXTENDS Integers

CONSTANTS
    Pages,
    NoHash,         \* no hash known (null)
    Documents,      \* the pages whose user uses the whole-document editor
    Happens,        \* "typeAhead": people type while the page works on a click or a refresh,
                    \* "refreshDocument": they refresh with the whole-document editor open,
                    \* "slowRefresh": a page does other things while it refreshes
    LoadMayFail,    \* the first request for the content may fail
    MaxEdits,       \* bound: edits made
    MaxFaults       \* bound: requests or answers lost

Texts == SUBSET (0 .. MaxEdits)

Hashes == Texts \cup {NoHash}

EditingConstants ==
    /\ Happens \subseteq {"typeAhead", "refreshDocument", "slowRefresh"}
    /\ Documents \subseteq Pages
    /\ LoadMayFail \in BOOLEAN
    /\ MaxEdits \in Nat /\ MaxFaults \in Nat
    /\ \A text \in Texts : text # NoHash

Flows == {"idle", "openFlush", "openRead", "appendFlush", "appendRead", "appendSave", "documentSave"}

Channels == {"autosave", "flow"}

VARIABLES
    server,  \* posts.text
    edits,   \* how many edits were made
    typed,   \* the edits typed on each page (history; appended paragraphs are not counted)
    dropped, \* edits their user agreed to lose (history)
    page,    \* the state and the refs of each page
    flow,    \* what the page is doing for a click, and where it waits
    post,    \* a save under way: of the autosave timer and of the flow
    fetch,   \* a refresh under way (refreshSelectedDraftWorkingCopy)
    faults   \* how many requests or answers were lost

vars == <<server, edits, typed, dropped, page, flow, post, fetch, faults>>

NoTimer == [on |-> FALSE, hash |-> NoHash]
NoDoc == [open |-> FALSE, text |-> {}]
NoPost == [at |-> "none", text |-> {}, base |-> NoHash]
NoFetch == [at |-> "none", text |-> {}, forced |-> FALSE]

\* selectedDraftContent, autosaveTextRef, hasUnsavedDraftRef, activeEditingBlockIdRef,
\* selectedDraftWorkingCopyHash, draftLifecycle.workingCopy.workingCopyHash,
\* autosaveTimerRef, documentEditorOpen and -Text, draftRemoteUpdateConflict
Blank == [ready |-> FALSE, content |-> {}, auto |-> {}, unsaved |-> FALSE,
          editing |-> "no", hash |-> NoHash, life |-> NoHash, timer |-> NoTimer,
          doc |-> NoDoc, conflict |-> FALSE]

Init ==
    /\ server = {0}
    /\ edits = 0
    /\ typed = [c \in Pages |-> {}]
    /\ dropped = {}
    /\ page = [c \in Pages |-> Blank]
    /\ flow = [c \in Pages |-> "idle"]
    /\ post = [c \in Pages |-> [k \in Channels |-> NoPost]]
    /\ fetch = [c \in Pages |-> NoFetch]
    /\ faults = 0

\* The hash a save is sent with, as the render knows it.
Known(p) == IF p.hash # NoHash THEN p.hash ELSE p.life

\* Defect: unsaved text does not keep a refresh from replacing it.
HasLocalWorkEditing(p) == p.editing # "no"

HasLocalWork(p) == p.unsaved \/ p.editing # "no"

Busy(c) == flow[c] # "idle" \/ fetch[c].at = "replacing" \/ fetch[c].forced

\* What the user can see or the page would still send.
OnPage(p) == p.content \cup p.auto \cup (IF p.doc.open THEN p.doc.text ELSE {})

MayType(c) == Busy(c) => "typeAhead" \in Happens

NewEdit == edits + 1

Shows(p, text) == [p EXCEPT !.content = text, !.auto = text, !.unsaved = FALSE]

-----------------------------------------------------------------------------
\* Opening the page.
Load(c) ==
    /\ ~page[c].ready
    /\ page' = [page EXCEPT ![c] = [Shows(@, server) EXCEPT !.hash = server, !.ready = TRUE]]
    /\ UNCHANGED <<server, edits, typed, dropped, flow, post, fetch, faults>>

LoadFails(c) ==
    /\ LoadMayFail
    /\ ~page[c].ready
    /\ page' = [page EXCEPT ![c] = [Shows(@, {}) EXCEPT !.ready = TRUE]]
    /\ UNCHANGED <<server, edits, typed, dropped, flow, post, fetch, faults>>

\* The lifecycle carries a hash of its own; it is only looked at when the
\* page knows no other.
LifecycleLoaded(c) ==
    /\ page[c].ready /\ page[c].hash = NoHash
    /\ page' = [page EXCEPT ![c].life = server]
    /\ UNCHANGED <<server, edits, typed, dropped, flow, post, fetch, faults>>

-----------------------------------------------------------------------------
\* Editing in place.
Focus(c) ==
    /\ page[c].ready /\ ~page[c].doc.open /\ page[c].editing = "no"
    /\ page' = [page EXCEPT ![c].editing = "paragraph"]
    /\ UNCHANGED <<server, edits, typed, dropped, flow, post, fetch, faults>>

Leave(c) ==
    /\ page[c].editing = "paragraph"
    /\ page' = [page EXCEPT ![c].editing = "no"]
    /\ UNCHANGED <<server, edits, typed, dropped, flow, post, fetch, faults>>

\* Each edit starts the timer again, with the hash of this render.  A refresh
\* may have forgotten which paragraph is open, so no focus is asked for.
Edit(c) ==
    /\ page[c].ready /\ ~page[c].doc.open /\ MayType(c)
    /\ edits < MaxEdits
    /\ edits' = NewEdit
    /\ typed' = [typed EXCEPT ![c] = @ \cup {NewEdit}]
    /\ LET next == page[c].content \cup {NewEdit}
       IN page' = [page EXCEPT ![c] = [Shows(@, next) EXCEPT
                      !.unsaved = TRUE, !.timer = [on |-> TRUE, hash |-> Known(page[c])]]]
    /\ UNCHANGED <<server, dropped, flow, post, fetch, faults>>

\* Defect: the timer sends the text with the hash the server has now.
SendsLatest(c, k, text, hash) ==
    post' = [post EXCEPT ![c][k] = [at |-> "sent", text |-> text, base |-> server]]

\* A save is under way.  Without any hash the page asks for the latest one first.
Sends(c, k, text, hash) ==
    post' = [post EXCEPT ![c][k] =
                [at |-> "sent", text |-> text, base |-> IF hash = NoHash THEN server ELSE hash]]

Asked(p, hash) == IF hash = NoHash THEN [p EXCEPT !.hash = server] ELSE p

TimerFires(c) ==
    /\ page[c].timer.on
    /\ post[c]["autosave"].at = "none"
    /\ Sends(c, "autosave", page[c].auto, page[c].timer.hash)
    /\ page' = [page EXCEPT ![c] = [Asked(@, @.timer.hash) EXCEPT !.timer = NoTimer]]
    /\ UNCHANGED <<server, edits, typed, dropped, flow, fetch, faults>>

-----------------------------------------------------------------------------
\* The server: the text it holds must be the one the request names.
Arrives(c, k) ==
    /\ post[c][k].at = "sent"
    /\ IF post[c][k].base = server
       THEN /\ server' = post[c][k].text
            /\ post' = [post EXCEPT ![c][k].at = "saved"]
       ELSE /\ post' = [post EXCEPT ![c][k].at = "refused"]
            /\ UNCHANGED server
    /\ UNCHANGED <<edits, typed, dropped, page, flow, fetch, faults>>

\* The request, or the answer to it, is lost: the page only says so.
Fails(c, k) ==
    /\ post[c][k].at \in {"sent", "saved"}
    /\ faults < MaxFaults
    /\ faults' = faults + 1
    /\ post' = [post EXCEPT ![c][k] = NoPost]
    /\ flow' = IF k = "flow" THEN [flow EXCEPT ![c] = "idle"] ELSE flow
    /\ UNCHANGED <<server, edits, typed, dropped, page, fetch>>

\* The answer to a save: the hash is the saved text's; the page has nothing
\* unsaved any more if nothing was typed since.
Saved(p, text) == [p EXCEPT !.hash = text, !.unsaved = IF p.auto = text THEN FALSE ELSE @]

Reads(c, forced) ==
    IF fetch[c].at = "none"
    THEN fetch' = [fetch EXCEPT ![c] = [at |-> "read", text |-> server, forced |-> forced]]
    ELSE UNCHANGED fetch

\* What saveDraftContent does with the answer, in every use of it.
Answered(c, k) ==
    LET was == post[c][k]
    IN /\ was.at \in {"saved", "refused"}
       /\ post' = [post EXCEPT ![c][k] = NoPost]
       /\ IF was.at = "refused" THEN Reads(c, FALSE) ELSE UNCHANGED fetch

AfterAnswer(c, k) ==
    LET was == post[c][k]
    IN IF was.at = "saved" THEN Saved(page[c], was.text) ELSE [page[c] EXCEPT !.conflict = TRUE]

AutosaveAnswered(c) ==
    /\ Answered(c, "autosave")
    /\ page' = [page EXCEPT ![c] = AfterAnswer(c, "autosave")]
    /\ UNCHANGED <<server, edits, typed, dropped, flow, faults>>

-----------------------------------------------------------------------------
\* Refreshing: every 15 seconds, when another page announces a save, and
\* after a refusal.
Poll(c) ==
    /\ page[c].ready
    /\ fetch[c].at = "none"
    /\ Reads(c, FALSE)
    /\ UNCHANGED <<server, edits, typed, dropped, page, flow, post, faults>>

\* "Refreshing will discard your unsaved local edits. Continue?"
RefreshToLatest(c) ==
    /\ page[c].conflict
    /\ page[c].doc.open => "refreshDocument" \in Happens
    /\ fetch[c].at = "none"
    /\ Reads(c, TRUE)
    /\ UNCHANGED <<server, edits, typed, dropped, page, flow, post, faults>>

KeepLocal(c) ==
    /\ page[c].conflict
    /\ page' = [page EXCEPT ![c].conflict = FALSE]
    /\ UNCHANGED <<server, edits, typed, dropped, flow, post, fetch, faults>>

\* Defect: a page that knows a hash is taken for up to date.
ChangedNever(c) == Known(page[c]) = NoHash

Changed(c) == fetch[c].text # Known(page[c])

KeepsLocal(c) == HasLocalWork(page[c]) /\ ~fetch[c].forced

\* Whether to replace the page's text is decided before the comments are fetched.
RefreshArrives(c) ==
    /\ fetch[c].at = "read"
    /\ IF KeepsLocal(c)
       THEN /\ page' = [page EXCEPT ![c].conflict = @ \/ Changed(c)]
            /\ fetch' = [fetch EXCEPT ![c] = NoFetch]
       ELSE /\ fetch' = [fetch EXCEPT ![c] =
                            IF Changed(c) \/ fetch[c].forced THEN [@ EXCEPT !.at = "replacing"]
                                                             ELSE NoFetch]
            /\ UNCHANGED page
    /\ UNCHANGED <<server, edits, typed, dropped, flow, post, faults>>

\* An open document editor is given the text only by a refresh its user asked for.
Reread(c) ==
    IF fetch[c].forced /\ page[c].doc.open
    THEN [open |-> TRUE, text |-> fetch[c].text] ELSE page[c].doc

Replace(c) ==
    /\ fetch[c].at = "replacing"
    /\ page' = [page EXCEPT ![c] = [Shows(@, fetch[c].text) EXCEPT
                   !.hash = fetch[c].text, !.editing = "no", !.conflict = FALSE,
                   !.doc = Reread(c)]]
    /\ dropped' = dropped \cup (IF fetch[c].forced THEN OnPage(page[c]) \ fetch[c].text ELSE {})
    /\ fetch' = [fetch EXCEPT ![c] = NoFetch]
    /\ UNCHANGED <<server, edits, typed, flow, post, faults>>

-----------------------------------------------------------------------------
\* flushDraftBeforeWorkflowAction: what is unsaved is saved before a click is carried out.
Latest(p) == IF p.unsaved THEN p.auto ELSE p.content

Flush(c, step) ==
    /\ page[c].ready /\ ~page[c].doc.open
    /\ flow[c] = "idle"
    /\ Latest(page[c]) # {}
    /\ Sends(c, "flow", Latest(page[c]), Known(page[c]))
    /\ page' = [page EXCEPT ![c] = [Asked(@, Known(@)) EXCEPT !.timer = NoTimer]]
    /\ flow' = [flow EXCEPT ![c] = step]
    /\ UNCHANGED <<server, edits, typed, dropped, fetch, faults>>

OpenDocument(c) == c \in Documents /\ Flush(c, "openFlush")

AppendParagraph(c) == edits < MaxEdits /\ Flush(c, "appendFlush")

Flushed(c) ==
    /\ flow[c] \in {"openFlush", "appendFlush"}
    /\ Answered(c, "flow")
    /\ page' = [page EXCEPT ![c] = AfterAnswer(c, "flow")]
    /\ flow' = [flow EXCEPT ![c] = IF post[c]["flow"].at # "saved" THEN "idle"
                                   ELSE IF @ = "openFlush" THEN "openRead" ELSE "appendRead"]
    /\ UNCHANGED <<server, edits, typed, dropped, faults>>

\* The whole-document editor opens with what the server has.  While it is
\* open it counts as local work, unless a refresh has forgotten it.
DocumentOpens(c) ==
    /\ flow[c] = "openRead"
    /\ page' = [page EXCEPT ![c].content = server, ![c].hash = server, ![c].editing = "document",
                            ![c].doc = [open |-> TRUE, text |-> server]]
    /\ flow' = [flow EXCEPT ![c] = "idle"]
    /\ UNCHANGED <<server, edits, typed, dropped, post, fetch, faults>>

EditDocument(c) ==
    /\ page[c].doc.open /\ MayType(c)
    /\ edits < MaxEdits
    /\ edits' = NewEdit
    /\ typed' = [typed EXCEPT ![c] = @ \cup {NewEdit}]
    /\ page' = [page EXCEPT ![c].doc.text = @ \cup {NewEdit}]
    /\ UNCHANGED <<server, dropped, flow, post, fetch, faults>>

Closed(p) == [p EXCEPT !.doc = NoDoc, !.editing = IF @ = "document" THEN "no" ELSE @]

CancelDocument(c) ==
    /\ page[c].doc.open /\ flow[c] = "idle"
    /\ page' = [page EXCEPT ![c] = Closed(@)]
    /\ dropped' = dropped \cup (page[c].doc.text \ page[c].content)
    /\ UNCHANGED <<server, edits, typed, flow, post, fetch, faults>>

SaveDocument(c) ==
    /\ page[c].doc.open /\ flow[c] = "idle"
    /\ Sends(c, "flow", page[c].doc.text, Known(page[c]))
    /\ flow' = [flow EXCEPT ![c] = "documentSave"]
    /\ UNCHANGED <<server, edits, typed, dropped, page, fetch, faults>>

\* The saved text becomes the page's, whatever was typed since.
FlowSaved(c) ==
    /\ flow[c] \in {"documentSave", "appendSave"}
    /\ Answered(c, "flow")
    /\ LET was == post[c]["flow"]
           then == AfterAnswer(c, "flow")
       IN page' = [page EXCEPT ![c] =
              IF was.at # "saved" THEN then
              ELSE IF flow[c] = "documentSave" THEN Closed(Shows(then, was.text))
              ELSE Shows(then, was.text)]
    /\ flow' = [flow EXCEPT ![c] = "idle"]
    /\ UNCHANGED <<server, edits, typed, dropped, faults>>

\* The paragraph is put after the text the server has.
AppendReads(c) ==
    /\ flow[c] = "appendRead"
    /\ edits < MaxEdits
    /\ edits' = NewEdit
    /\ Sends(c, "flow", server \cup {NewEdit}, server)
    /\ flow' = [flow EXCEPT ![c] = "appendSave"]
    /\ UNCHANGED <<server, typed, dropped, page, fetch, faults>>

\* While a refresh is under way the page and its requests go on, if it is slow.
Free(c) == "slowRefresh" \in Happens \/ fetch[c].at = "none"

Next ==
    \E c \in Pages :
        \/ Poll(c) \/ RefreshToLatest(c) \/ RefreshArrives(c) \/ Replace(c)
        \/ /\ Free(c)
           /\ \/ Load(c) \/ LoadFails(c) \/ LifecycleLoaded(c)
              \/ Focus(c) \/ Leave(c) \/ Edit(c)
              \/ TimerFires(c) \/ AutosaveAnswered(c) \/ KeepLocal(c)
              \/ OpenDocument(c) \/ AppendParagraph(c) \/ Flushed(c) \/ DocumentOpens(c)
              \/ EditDocument(c) \/ CancelDocument(c) \/ SaveDocument(c) \/ FlowSaved(c)
              \/ AppendReads(c)
              \/ \E k \in Channels : Arrives(c, k) \/ Fails(c, k)

Spec == Init /\ [][Next]_vars

\* Requests are answered, timers fire, the page polls and finishes what it began.
Fairness ==
    \A c \in Pages :
        /\ WF_vars(Load(c) \/ LoadFails(c))
        /\ WF_vars(TimerFires(c)) /\ WF_vars(AutosaveAnswered(c))
        /\ WF_vars(Flushed(c)) /\ WF_vars(FlowSaved(c))
        /\ WF_vars(DocumentOpens(c)) /\ WF_vars(AppendReads(c))
        /\ WF_vars(Poll(c)) /\ WF_vars(RefreshArrives(c)) /\ WF_vars(Replace(c))
        /\ \A k \in Channels : WF_vars(Arrives(c, k))

FairSpec == Spec /\ Fairness

-----------------------------------------------------------------------------
TypeOK ==
    /\ server \in Texts
    /\ edits \in 0 .. MaxEdits
    /\ typed \in [Pages -> Texts]
    /\ dropped \in Texts
    /\ \A c \in Pages :
          /\ page[c].content \in Texts /\ page[c].auto \in Texts
          /\ page[c].hash \in Hashes /\ page[c].life \in Hashes
          /\ page[c].timer \in [on : BOOLEAN, hash : Hashes]
          /\ page[c].doc \in [open : BOOLEAN, text : Texts]
          /\ page[c].editing \in {"no", "paragraph", "document"}
          /\ {page[c].ready, page[c].unsaved, page[c].conflict} \subseteq BOOLEAN
    /\ flow \in [Pages -> Flows]
    /\ post \in [Pages -> [Channels -> [at : {"none", "sent", "saved", "refused"},
                                        text : Texts, base : Hashes]]]
    /\ faults \in 0 .. MaxFaults
    /\ fetch \in [Pages -> [at : {"none", "read", "replacing"}, text : Texts, forced : BOOLEAN]]

\* What was typed on a page does not go from it before it is saved, unless the
\* user agreed to that ("keeping them preserves your local text").
WorkIsKept ==
    [][\A c \in DOMAIN typed : \A e \in typed[c] :
          (e \in OnPage(page[c]) /\ e \notin OnPage(page'[c])) => e \in server' \cup dropped']_vars

\* A page that is left alone shows the draft in the end.
Resting(c) == page[c].ready /\ ~HasLocalWork(page[c]) /\ ~page[c].doc.open
=============================================================================

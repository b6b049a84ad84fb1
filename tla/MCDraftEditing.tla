--------------------------- MODULE MCDraftEditing ---------------------------
(***************************************************************************)
(* Instances of DraftEditing for one run of TLC, over the same variables;  *)
(* `part' says which one a behaviour is of:                                *)
(*   pages      two pages that edit paragraphs (the constants of the cfg); *)
(*   documents  one of them edits the whole document, requests get lost;   *)
(*   unread     a page whose first request may fail;                       *)
(*   settles    two pages that do other things while they refresh, in      *)
(*              fairness.                                                  *)
(***************************************************************************)
EXTENDS DraftPages

CONSTANTS p1, p2

VARIABLE part

Document == INSTANCE DraftEditing WITH Documents <- {p1}, MaxEdits <- 1, MaxFaults <- 1
Unread == INSTANCE DraftEditing WITH
    Pages <- {p1}, LoadMayFail <- TRUE, MaxEdits <- MaxTyped, MaxFaults <- 1
Settles == INSTANCE DraftEditing WITH Happens <- {"slowRefresh"}, MaxEdits <- 1, MaxFaults <- 1

ASSUME AllPages ==
    /\ Ed!EditingConstants /\ Document!EditingConstants
    /\ Unread!EditingConstants /\ Settles!EditingConstants

vars == <<server, edits, typed, dropped, page, flow, post, fetch, faults>>

MCInit ==
    \/ part \in {"pages", "documents", "settles"} /\ Ed!Init
    \/ part = "unread" /\ Unread!Init

MCNext ==
    /\ \/ part = "pages" /\ Ed!Next
       \/ part = "documents" /\ Document!Next
       \/ part = "unread" /\ Unread!Next
       \/ part = "settles" /\ Settles!Next
    /\ UNCHANGED part

InSettles(A) == part = "settles" /\ A /\ UNCHANGED part

MCSpec ==
    /\ MCInit /\ [][MCNext]_<<part, vars>>
    /\ \A c \in Pages :
        /\ WF_<<part, vars>>(InSettles(Settles!Load(c)))
        /\ WF_<<part, vars>>(InSettles(Settles!TimerFires(c)))
        /\ WF_<<part, vars>>(InSettles(Settles!AutosaveAnswered(c)))
        /\ WF_<<part, vars>>(InSettles(Settles!Flushed(c)))
        /\ WF_<<part, vars>>(InSettles(Settles!FlowSaved(c)))
        /\ WF_<<part, vars>>(InSettles(Settles!DocumentOpens(c)))
        /\ WF_<<part, vars>>(InSettles(Settles!AppendReads(c)))
        /\ WF_<<part, vars>>(InSettles(Settles!Poll(c)))
        /\ WF_<<part, vars>>(InSettles(Settles!RefreshArrives(c)))
        /\ WF_<<part, vars>>(InSettles(Settles!Replace(c)))
        /\ \A k \in Ed!Channels : WF_<<part, vars>>(InSettles(Settles!Arrives(c, k)))

\* Every variable has its type in every part.
Typed ==
    CASE part = "pages"     -> Ed!TypeOK
      [] part = "documents" -> Document!TypeOK
      [] part = "unread"    -> Unread!TypeOK
      [] part = "settles"   -> Settles!TypeOK

\* An edit that was saved stays in the draft unless its own user agreed to lose it: no page
\* overwrites what it has not read ("the next save will still check the draft version"), over
\* lost requests, answers and documents opened meanwhile.
SavesStay ==
    []Typed /\ [][(part \in {"pages", "documents"}) => server \subseteq (server' \cup dropped)]_vars

\* A page that nobody edits comes to show the draft, whatever its own flags said before.
PagesCatchUp ==
    \A c \in Pages :
        <>[](part = "settles" /\ Settles!Resting(c))
            => <>[](part = "settles" => page[c].content = server)
=============================================================================

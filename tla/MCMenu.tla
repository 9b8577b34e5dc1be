------------------------------- MODULE MCMenu -------------------------------
(***************************************************************************)
(* The user interfaces that follow the calls, for TLC: the menu, and the   *)
(* windows of the module gtk, which has a thread of its own. The           *)
(* components share no variable, so each is explored by itself: part names *)
(* the one that moves while the others stay in an initial state, and what  *)
(* holds of every part holds of any interleaving of them.                  *)
(***************************************************************************)
EXTENDS Menu

CONSTANTS
    GtkCalls, GtkQueue   \* of GtkUi

VARIABLES
    part,   \* the component that moves
    \* GtkUi
    thread, main, gtkCalls, state, notified, queue, ui, wrong, alone, gtkAgain

Gtk == INSTANCE GtkUi WITH
    MaxCalls <- GtkCalls, MaxQueue <- GtkQueue, Faults <- {}, calls <- gtkCalls, again <- gtkAgain

\* The components' assumptions on their constants hold for these values.
ASSUME PartsAssumption ==
    /\ Gtk!GtkUiAssumption

gtkVars == <<thread, main, gtkCalls, state, notified, queue, ui, wrong, alone, gtkAgain>>

all == <<part, vars, gtkVars>>
Parts == {"menu", "gtk"}

\* The one that is chosen begins in any initial state, the others in one of theirs.
AllInit ==
    /\ part \in Parts
    /\ Init
    /\ Gtk!Init

\* Everything that does not belong to p stays as it is.
Only(p) ==
    /\ part = p /\ UNCHANGED part
    /\ IF p = "menu" THEN TRUE ELSE UNCHANGED vars
    /\ IF p = "gtk" THEN TRUE ELSE UNCHANGED gtkVars

AllNext ==
    \/ Only("menu") /\ Next
    \/ Only("gtk") /\ Gtk!Next

\* The fairness of each component, while it is the one that moves.
AllFairness ==
    /\ \A c \in 1 .. GtkCalls : WF_all(Only("gtk") /\ Gtk!WindowMessage(c))
    /\ \A c \in 1 .. GtkCalls : WF_all(Only("gtk") /\ (Gtk!Bare(c) \/ Gtk!Freed(c)))
    /\ WF_all(Only("gtk") /\ Gtk!GtkEnds)
    /\ WF_all(Only("gtk") /\ Gtk!Joined)

AllSpec == AllInit /\ [][AllNext]_all /\ AllFairness

-----------------------------------------------------------------------------
\* GtkUi: a window has its call and no timer without it, windows and entries of the menu say
\* what became of their calls, and a window that is told to close closes, as the module does.
WindowsFollowCalls ==
    /\ []Gtk!TypeOK /\ []Gtk!ClosedIsShown /\ []Gtk!EntriesAreLive /\ []Gtk!WindowHoldsCall
    /\ []Gtk!TimerHasWindow /\ Gtk!WindowsClose /\ Gtk!CloseEnds
=============================================================================

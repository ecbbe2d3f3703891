------------------------------- MODULE BleGap -------------------------------
(***************************************************************************)
(* The tag's connection as ble_func.c sees it.  The SoftDevice's events    *)
(* reach its handler through the main loop (NRF_SDH_DISPATCH_MODEL is 1),  *)
(* when the link they speak of may be gone; the negotiation of connection  *)
(* parameters reports from a timer.  Every call that the SoftDevice        *)
(* refuses ends in APP_ERROR_CHECK, which stops a build with DEBUG.        *)
(***************************************************************************)
EXTENDS Naturals, Sequences

CONSTANTS
    Requests,  \* kinds of events that want an answer on the link
    MaxEvents  \* bound on events the main loop is behind with

ConstantsAssumption ==
    /\ Requests \subseteq {"sec", "phy", "attr", "timeout"}
    /\ MaxEvents \in Nat \ {0}

VARIABLES
    link,    \* "adv", "up", "closing" (to be disconnected), "off"
    events,  \* events of the SoftDevice that have not been handled
    conn,    \* m_conn_handle is valid
    params,  \* connection parameters are being negotiated
    fault    \* the tag has stopped
vars == <<link, events, conn, params, fault>>

\* ble_func_init: everything initialised, advertising started.
Init == link = "adv" /\ events = <<>> /\ conn = FALSE /\ params = FALSE /\ fault = FALSE

----------------------------------------------------------------------------
(* The SoftDevice *)

Event(kind) ==
    /\ ~fault
    /\ events' = Append(events, kind)
    /\ UNCHANGED <<conn, params, fault>>

Connect == link = "adv" /\ link' = "up" /\ Event("connected")

\* The peer goes away, or the disconnection that was asked for completes.
Lose == link \in {"up", "closing"} /\ link' = "off" /\ Event("disconnected")

\* A security or PHY request, missing attributes, a timeout of GATT.
Ask ==
    /\ link = "up" /\ UNCHANGED link
    /\ Len(events) < MaxEvents
    /\ \E kind \in Requests : Event(kind)

----------------------------------------------------------------------------
(* ble_func.c *)

\* sd_ble_gap_disconnect: refused for a link that is gone or going.
Disconnect ==
    IF link = "up" THEN link' = "closing" /\ UNCHANGED fault
    ELSE fault' = TRUE /\ UNCHANGED link

\* An answer on the link, refused when it is gone.
Answer == fault' = (link = "off") /\ UNCHANGED link

Handling(kind) == ~fault /\ events # <<>> /\ Head(events) = kind /\ events' = Tail(events)

\* Variant: the handle is not kept.
OnConnectedNoHandle ==
    /\ Handling("connected")
    /\ params' = TRUE
    /\ UNCHANGED <<link, conn, fault>>

\* The observer of ble_conn_params begins its negotiation.
OnConnected ==
    /\ Handling("connected")
    /\ conn' = TRUE /\ params' = TRUE
    /\ UNCHANGED <<link, fault>>

\* Variants: the handle is not reset; advertising is not started again;
\* the negotiation goes on.
OnDisconnectedKeepsHandle ==
    /\ Handling("disconnected")
    /\ params' = FALSE
    /\ link' = "adv"
    /\ UNCHANGED <<conn, fault>>
OnDisconnectedSilent ==
    /\ Handling("disconnected")
    /\ conn' = FALSE /\ params' = FALSE
    /\ UNCHANGED <<link, fault>>

OnDisconnectedNegotiating ==
    /\ Handling("disconnected")
    /\ conn' = FALSE /\ UNCHANGED params
    /\ link' = "adv"
    /\ UNCHANGED fault

\* advertising_start.
OnDisconnected ==
    /\ Handling("disconnected")
    /\ conn' = FALSE /\ params' = FALSE
    /\ link' = "adv"
    /\ UNCHANGED fault

OnRequest ==
    /\ \E kind \in {"sec", "phy", "attr"} : Handling(kind)
    /\ Answer
    /\ UNCHANGED <<conn, params>>

OnTimeout == Handling("timeout") /\ Disconnect /\ UNCHANGED <<conn, params>>

\* on_conn_params_evt: three requests have not brought the parameters.
OnParamsFailed ==
    /\ ~fault /\ params
    /\ params' = FALSE
    /\ Disconnect
    /\ UNCHANGED <<events, conn>>

Handler == OnConnected \/ OnDisconnected \/ OnRequest \/ OnTimeout

Next == Connect \/ Lose \/ Ask \/ Handler \/ OnParamsFailed

\* The main loop goes on, and a link that is to be disconnected is.
Spec == Init /\ [][Next]_vars /\ WF_vars(Handler) /\ WF_vars(link = "closing" /\ Lose)

----------------------------------------------------------------------------
(* Properties *)

\* The state is of its type: at most the two ends of a link are added to the
\* requests the main loop is behind with, and a tag that advertises has nothing
\* left of the last link.
TypeOK ==
    /\ link \in {"adv", "up", "closing", "off"}
    /\ events \in Seq({"connected", "disconnected"} \cup Requests)
    /\ Len(events) <= MaxEvents + 2
    /\ conn \in BOOLEAN /\ params \in BOOLEAN /\ fault \in BOOLEAN
    /\ link = "adv" => events = <<>> /\ ~conn /\ ~params

\* When the main loop has caught up, the handle is valid exactly for a link.
HandleFollowsLink ==
    events = <<>> /\ ~fault => (conn <=> link \in {"up", "closing"})

\* A tag that has not stopped is found again after every connection: it
\* advertises, however the connection ended.
FoundAgain == link \in {"closing", "off"} ~> link = "adv" \/ fault

\* A call is refused, and stops the tag, only for a link that is already going
\* or whose end is among the events the main loop has not handled.
StopsOnlyLate ==
    fault => link = "closing" \/ (link = "off" /\ "disconnected" \in {events[i] : i \in 1..Len(events)})
=============================================================================

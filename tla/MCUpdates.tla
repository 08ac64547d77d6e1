------------------------------ MODULE MCUpdates ------------------------------
(* The updates of the model and of the addresses in it: Iterative in the    *)
(* threads net and fltk, where the load has three parts and every other     *)
(* update one or two, and the addresses this device announces (Contacts,    *)
(* with a relay, with a router and with both). A behaviour is one of        *)
(* Iterative, or one of Contacts with Iterative at rest.                    *)
EXTENDS Iterative, Contacts, TLC

CONSTANTS net, fltk

VARIABLE focus                              \* the component that runs

iterative_ == vars
all == <<focus, contactsVars, iterative_>>

PartsOf(u) == IF u = 1 THEN 3 ELSE 1 + (u % 2)

With(u, r, n, k, a) == [upnp |-> u, relay |-> r, relays |-> n, reads |-> k, announce |-> a]
ContactSetups ==
    {With("off", TRUE, 2, 4, TRUE), With("on", FALSE, 0, 0, TRUE), With("found", TRUE, 1, 1, FALSE)}

\* A component that does not run stays as it begins.
AllInit ==
    \/ focus = "contacts" /\ ContactsInit /\ Init
    \/ focus = "iterative" /\ Init /\ Configured(With("off", FALSE, 0, 0, FALSE))

AllNext ==
    \/ focus = "contacts" /\ ContactsNext /\ UNCHANGED <<focus, iterative_>>
    \/ focus = "iterative" /\ Next /\ UNCHANGED <<focus, contactsVars>>

AllSpec ==
    /\ AllInit /\ [][AllNext]_all
    /\ \A t \in Threads : WF_iterative_(focus = "iterative" /\ Handler(t))
    /\ WF_contactsVars(focus = "contacts" /\ update_contact)
    /\ WF_contactsVars(focus = "contacts" /\ \E ok \in BOOLEAN : on_announce_response(ok))
    /\ WF_contactsVars(focus = "contacts" /\ gda_on_timer)
    /\ WF_contactsVars(focus = "contacts" /\ relay.st = "stopping" /\ \E o \in {"read", "write"} : relay_on_io_error(o))
    /\ WF_contactsVars(focus = "contacts" /\ relay_finish)
    /\ WF_contactsVars(focus = "contacts" /\ ssdp_on_timer)
    /\ WF_contactsVars(focus = "contacts" /\ ssdp_finish)
    /\ WF_contactsVars(focus = "contacts" /\ ssdp.st = "stopping" /\ \E r \in {"recv", "send"} : on_udp_error(r))
==============================================================================

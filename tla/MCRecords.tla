------------------------------ MODULE MCRecords -------------------------------
(* What a workspace keeps, on small instances: the CRM with merges, imports *)
(* and connectors; custom properties; the mail that leaves.  The three      *)
(* share no table but the bags, which the first takes up to their owner and *)
(* the second up to their definitions: a behaviour is about one of them.    *)
EXTENDS Connectors, Properties, Outbound

CONSTANTS ann, bob, rea, e1, acme, d1, a1, a2, bounced, arrived

MCRole == [c \in Clients \cup Readers |-> IF c \in Readers THEN "member" ELSE "admin"]
MCAlike == {{2, 3}, {1, 6}}

Person(ok, e, custom) == [ok |-> ok, email |-> e, custom |-> custom]
Firm(domain) == [ok |-> TRUE, name |-> acme, domain |-> domain, custom |-> FALSE]
Sale(stage, custom) == [ok |-> TRUE, stage |-> stage, custom |-> custom]
MCFiles ==
  [contact |-> {<<Person(FALSE, e1, TRUE), Person(TRUE, e1, FALSE)>>,
                <<Person(TRUE, e1, TRUE), Person(TRUE, e1, TRUE)>>},
   company |-> {<<Firm(d1), Firm(d1)>>, <<Firm(d1), Firm(Blank)>>},
   deal |-> {<<Sale("closed", FALSE), Sale("none", TRUE)>>}]

MCTo == [m \in Messages |-> {a1, a2}]
MCAbout == [e \in ProviderEvents |-> [kind |-> IF e = bounced THEN "hardBounce" ELSE "delivered", email |-> a1]]

VARIABLE about
recordsVars == <<workspaceVars, propertyVars, outboundVars, about>>

(* A reader walks while one request writes; any two requests write; or      *)
(* three that are merges and connector events, or a new company and then    *)
(* two.                                                                     *)
RecordsInit ==
  /\ WorkspaceInit /\ PropertiesInit /\ OutboundInit
  /\ \/ about = "paging" /\ writes = 1 /\ editsLeft = 0 /\ outboundLeft = 0
     \/ about = "pairs" /\ writes = 2 /\ editsLeft = 0 /\ outboundLeft = 0
     \/ about = "firms" /\ writes = MaxWrites /\ editsLeft = 0 /\ outboundLeft = 0
     \/ about = "events" /\ writes = MaxWrites /\ editsLeft = 0 /\ outboundLeft = 0
     \/ about = "properties" /\ writes = 0 /\ editsLeft = MaxEdits /\ outboundLeft = 0
     \/ about = "mail" /\ writes = 0 /\ editsLeft = 0 /\ outboundLeft = MaxOutbound

CrmNext ==
  \/ about \in {"paging", "pairs"} /\ (RequestStep \/ ImportStep)
  \/ about = "paging" /\ WalkStep
  \/ about = "firms" /\ RequestStep /\ (writes = MaxWrites => \E c \in Clients : http'[c].pc = "company")
  \/ about # "firms" /\ ConnectorsNext
  \/ DedupStep
RecordsNext ==
  /\ UNCHANGED about
  /\ \/ /\ about \in {"paging", "pairs", "firms", "events"} /\ CrmNext /\ UNCHANGED <<propertyVars, outboundVars>>
     \/ /\ about = "properties" /\ PropertiesNext
        /\ UNCHANGED <<workspaceVars, outboundVars>>
     \/ /\ about = "mail" /\ OutboundNext
        /\ UNCHANGED <<workspaceVars, propertyVars>>
RecordsSpec == RecordsInit /\ [][RecordsNext]_recordsVars
=============================================================================

------------------------------- MODULE Sharing ------------------------------
(***************************************************************************)
(* A released report leaves the family's hands two ways: into the inbox of  *)
(* a clinic, under a consent (next-steps.ts, packets.ts), and by a link the *)
(* family gives to a lawyer (next-steps.ts). Nothing is copied: a delivery  *)
(* points at a report and at the consent it was made under, and every read  *)
(* asks again. The rows are two tenants', so no transaction holds both.     *)
(***************************************************************************)
EXTENDS Naturals, FiniteSets

CONSTANTS
  Consents,     \* ConsentGrant rows
  Links,        \* ShareLink rows
  Visits,       \* requests in flight
  NoConsent,    \* a row not made yet
  Versions,     \* bounds the report's versions
  MaxVisits     \* bounds the requests

\* A ConsentGrant row: what it consents to, whether it names one clinic, and its state.
Consent == [class : {"clinic", "attorney"}, named : BOOLEAN, live : BOOLEAN]

ASSUME SharingAssumption ==
  /\ Versions \in Nat \ {0} /\ MaxVisits \in Nat
  /\ NoConsent \notin Consent

VARIABLES
  consent,    \* Consents -> the row
  clinicLive, \* the clinic is staff-verified and its inbox is lit
  version,    \* the latest report's version; 0 once the case is deleted
  delivery,   \* version -> PacketDelivery, unique per clinic and report
  link,       \* Links -> the row
  visit,      \* Visits -> the request in flight, with what it read
  visits,     \* requests so far
  off,        \* history: classes whose consent the family turned off last
  granted,    \* history: classes granted while they were being turned off
  told,       \* history: version -> packet.opened events
  seen,       \* history: Links -> how often it was read
  torn        \* history: first openings at once, or one cut short

shareVars == <<consent, clinicLive, version, delivery, link, visit, visits, off, granted, told, seen, torn>>
consentVars == <<consent, off, granted>>
packetVars == <<delivery, told, torn>>
linkVars == <<link, seen>>
NoVisit == [op |-> "none"]
NoLink == [version |-> 0, live |-> FALSE, log |-> 0, crossed |-> FALSE]
NoDelivery == [consent |-> NoConsent, opened |-> FALSE]

ShareInit ==
  /\ consent = [g \in Consents |-> NoConsent] /\ off = {} /\ granted = {}
  /\ clinicLive = TRUE /\ version = 1
  /\ delivery = [v \in 1 .. Versions |-> NoDelivery] /\ told = [v \in 1 .. Versions |-> 0] /\ torn = FALSE
  /\ link = [l \in Links |-> NoLink] /\ seen = [l \in Links |-> 0]
  /\ visit = [q \in Visits |-> NoVisit] /\ visits = 0

Enter(q, what) ==
  /\ visit[q] = NoVisit /\ visits < MaxVisits
  /\ visit' = [visit EXCEPT ![q] = what]
  /\ visits' = visits + 1
Leave(q) == visit' = [visit EXCEPT ![q] = NoVisit] /\ UNCHANGED visits
-----------------------------------------------------------------------------
(* Consent *)
Active(class) == {g \in Consents : consent[g] /= NoConsent /\ consent[g].class = class /\ consent[g].live}

\* POST /:id/consent: a consent of that class and that name is granted once.
GrantRead(q, class, named) ==
  /\ version > 0 /\ \A g \in Active(class) : consent[g].named /= named
  /\ Enter(q, [op |-> "grant", class |-> class, named |-> named])
  /\ UNCHANGED <<consentVars, clinicLive, version, packetVars, linkVars>>
GrantCommit(q, g) ==
  /\ visit[q].op = "grant" /\ consent[g] = NoConsent
  /\ consent' = [consent EXCEPT ![g] = [class |-> visit[q].class, named |-> visit[q].named, live |-> TRUE]]
  /\ off' = off \ {visit[q].class}
  /\ granted' = granted \cup {visit[p].class : p \in {p \in Visits : visit[p].op = "revoke"}}
  /\ Leave(q)
  /\ UNCHANGED <<clinicLive, version, packetVars, linkVars>>

\* Mutant: the newest consent of the class stands for all of them.
ToRevokeFlawed(class) == IF Active(class) = {} THEN {} ELSE {CHOOSE g \in Active(class) : TRUE}
\* Every active consent of the class, a named clinic's and the class-wide one alike.
ToRevoke(class) == Active(class)
RevokeRead(q, class) ==
  /\ ToRevoke(class) /= {}
  /\ Enter(q, [op |-> "revoke", class |-> class, saw |-> ToRevoke(class)])
  /\ UNCHANGED <<consentVars, clinicLive, version, packetVars, linkVars>>
RevokeCommit(q) ==
  /\ visit[q].op = "revoke"
  /\ consent' = [g \in Consents |-> IF g \in visit[q].saw THEN [consent[g] EXCEPT !.live = FALSE] ELSE consent[g]]
  /\ off' = off \cup {visit[q].class}
  /\ Leave(q)
  /\ UNCHANGED <<granted, clinicLive, version, packetVars, linkVars>>
-----------------------------------------------------------------------------
(* The packet *)
ClinicChanges ==
  /\ clinicLive' = ~clinicLive
  /\ UNCHANGED <<consentVars, version, packetVars, linkVars, visit, visits>>

\* POST /:id/packets/deliver; a report that is in the inbox already is left as it is there.
DeliverRead(q, g) ==
  /\ version > 0 /\ clinicLive /\ g \in Active("clinic")
  /\ delivery[version] = NoDelivery
  /\ Enter(q, [op |-> "deliver", version |-> version, consent |-> g])
  /\ UNCHANGED <<consentVars, clinicLive, version, packetVars, linkVars>>
DeliverCommit(q) ==
  /\ visit[q].op = "deliver" /\ delivery[visit[q].version] = NoDelivery
  /\ delivery' = [delivery EXCEPT ![visit[q].version].consent = visit[q].consent]
  /\ Leave(q)
  /\ UNCHANGED <<consentVars, clinicLive, version, told, torn, linkVars>>

\* sourceOf: the consent of the delivery, the case and the report, as they are now.
Readable(v) == delivery[v] /= NoDelivery /\ consent[delivery[v].consent].live /\ version >= v

OpenRead(q, v) ==
  /\ clinicLive /\ Readable(v)
  /\ Enter(q, [op |-> "open", version |-> v, first |-> ~delivery[v].opened])
  /\ UNCHANGED <<consentVars, clinicLive, version, packetVars, linkVars>>
\* The mark of the first opening, in the clinic's tenant; then the event, in the family's.
MarkOpened(q) ==
  LET v == visit[q].version
  IN  /\ visit[q].op = "open"
      /\ IF visit[q].first
         THEN /\ delivery' = [delivery EXCEPT ![v].opened = TRUE]
              /\ torn' = (torn \/ delivery[v].opened)
              /\ visit' = [visit EXCEPT ![q].op = "tell"] /\ UNCHANGED visits
         ELSE Leave(q) /\ UNCHANGED <<delivery, torn>>
      /\ UNCHANGED <<consentVars, clinicLive, version, told, linkVars>>
TellFamily(q) ==
  /\ visit[q].op = "tell"
  /\ told' = [told EXCEPT ![visit[q].version] = @ + 1]
  /\ Leave(q)
  /\ UNCHANGED <<consentVars, clinicLive, version, delivery, torn, linkVars>>
-----------------------------------------------------------------------------
(* The link *)
\* The page turns the old link off before it asks for a new one; two pages do not.
MakeLink(l) ==
  /\ version > 0 /\ link[l] = NoLink
  /\ link' = [link EXCEPT ![l] = [NoLink EXCEPT !.version = version, !.live = TRUE]]
  /\ UNCHANGED <<consentVars, clinicLive, version, packetVars, seen, visit, visits>>
RevokeLinks ==
  /\ \E l \in Links : link[l].live
  /\ link' = [l \in Links |-> [link[l] EXCEPT !.live = FALSE]]
  /\ UNCHANGED <<consentVars, clinicLive, version, packetVars, seen, visit, visits>>
Expire(l) ==
  /\ link[l].live
  /\ link' = [link EXCEPT ![l].live = FALSE]
  /\ UNCHANGED <<consentVars, clinicLive, version, packetVars, seen, visit, visits>>

ViewRead(q, l) ==
  /\ link[l].live
  /\ Enter(q, [op |-> "view", link |-> l, log |-> link[l].log])
  /\ UNCHANGED <<consentVars, clinicLive, version, packetVars, linkVars>>
\* The access log is the one read with the link, and one entry more.
ViewCommit(q) ==
  LET l == visit[q].link
  IN  /\ visit[q].op = "view" /\ version > 0
      /\ link' = [link EXCEPT ![l].log = visit[q].log + 1, ![l].crossed = @ \/ link[l].log /= visit[q].log]
      /\ seen' = [seen EXCEPT ![l] = @ + 1]
      /\ Leave(q)
      /\ UNCHANGED <<consentVars, clinicLive, version, packetVars>>
-----------------------------------------------------------------------------
Republish ==
  /\ version \in 1 .. Versions - 1
  /\ version' = version + 1
  /\ UNCHANGED <<consentVars, clinicLive, packetVars, linkVars, visit, visits>>
DeleteCase ==
  /\ version > 0 /\ version' = 0
  /\ UNCHANGED <<consentVars, clinicLive, packetVars, linkVars, visit, visits>>
\* A request refused or lost half-way: the row it was to make is there, the case is gone,
\* or the connection is.
Lost(q) ==
  /\ visit[q] /= NoVisit
  /\ torn' = (torn \/ visit[q].op = "tell")
  /\ Leave(q)
  /\ UNCHANGED <<consentVars, clinicLive, version, delivery, told, linkVars>>

ShareNext ==
  \/ \E q \in Visits :
       \/ \E class \in {"clinic", "attorney"}, named \in BOOLEAN :
            (named => class = "clinic") /\ GrantRead(q, class, named)
       \/ \E class \in {"clinic", "attorney"} : RevokeRead(q, class)
       \/ \E g \in Consents : GrantCommit(q, g) \/ DeliverRead(q, g)
       \/ \E v \in 1 .. Versions : OpenRead(q, v)
       \/ \E l \in Links : ViewRead(q, l)
       \/ RevokeCommit(q) \/ DeliverCommit(q) \/ MarkOpened(q) \/ TellFamily(q) \/ ViewCommit(q) \/ Lost(q)
  \/ \E l \in Links : MakeLink(l) \/ Expire(l)
  \/ RevokeLinks \/ ClinicChanges \/ Republish \/ DeleteCase

ShareSpec == ShareInit /\ [][ShareNext]_shareVars
-----------------------------------------------------------------------------
\* "Turn it off" means off (next-steps.ts): once the family has turned the clinics'
\* consent off, and has not granted it anew or while turning it off, no packet that
\* was delivered can be read.
OffMeansOff == "clinic" \in off \ granted => \A v \in 1 .. Versions : ~Readable(v)

\* What the family is told of readers is true: each packet opened gives one event,
\* but for two first openings at once or one cut short; a link's count of openings
\* never exceeds them, and is short only of readings that crossed.
OpensAreCounted ==
  /\ \A v \in 1 .. Versions :
       torn \/ (\E q \in Visits : visit[q].op = "tell")
            \/ told[v] = IF delivery[v].opened THEN 1 ELSE 0
  /\ \A l \in Links : link[l].log <= seen[l] /\ (link[l].crossed \/ link[l].log = seen[l])

\* The family's two promises together.
SharedAsShown == OffMeansOff /\ OpensAreCounted
=============================================================================

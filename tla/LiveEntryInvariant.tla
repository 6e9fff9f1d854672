-------------------------- MODULE LiveEntryInvariant --------------------------
(***************************************************************************)
(* The inductive invariant behind LiveEntry's safety properties, for a     *)
(* database that can be read at start-up.  It follows one BUY through its  *)
(* life: the bridge call, the order the worker bound, the order the owner  *)
(* tracks, the journal row a restart reconnects, the position.             *)
(***************************************************************************)
EXTENDS LiveEntry

\* The slot of t is reserved in memory and in the database.
BothReserved(t) == res[t] \in ActiveStates /\ dbRes[t] \in ActiveStates

\* o is the one order of t that can still fill, or already did.
SoleOrder(t, o) ==
    /\ tok[o] = t
    /\ fate[o] # "unused"
    /\ \A p \in Orders : fate[p] = "placed" /\ tok[p] = t => p = o
    /\ t \in held => fate[o] = "filled"

Following == orders \cup balWait
IsFollowed(t) == \E o \in Following : tok[o] = t

\* Tokens that hold, or may come to hold, a position or tokens in the wallet.
Pledged ==
    {t \in Tokens : \/ t \in open \cup held
                    \/ buy[t].phase # "idle"
                    \/ AtProvider(t)
                    \/ IsFollowed(t)
                    \/ Reconnectable(journal[t])}

UnusedOrders == \A o \in Orders : (fate[o] = "unused") = (tok[o] = NoToken)

\* A BUY in the bridge is alone on its token and owns a durable reservation.
BridgeInv ==
    \A t \in Tokens : buy[t].phase # "idle" =>
        /\ BothReserved(t)
        /\ t \notin open
        /\ ~IsFollowed(t)

\* Before the CLI ran, and after a refusal, nothing exists at the provider.
UnsentInv ==
    \A t \in Tokens :
        \/ buy[t].phase \in {"queued", "claimed"}
        \/ buy[t].phase \in {"done", "taken"} /\ buy[t].result = "definitive"
        => t \notin held /\ ~AtProvider(t) /\ ~Reconnectable(journal[t])

Sending(t) == buy[t].phase \in {"claimed", "sent"}
Returned(t) == buy[t].phase \in {"done", "taken"} /\ buy[t].result = "submitted"

\* The order a worker placed is its token's only one, and nobody asked about it.
SentInv ==
    \A t \in Tokens :
        /\ Sending(t) => journal[t].order = NoOrder
        /\ buy[t].phase = "sent" \/ Returned(t) =>
              /\ buy[t].order \in Orders
              /\ SoleOrder(t, buy[t].order)
              /\ \A c \in calls : c.order # buy[t].order
              /\ \A e \in done \cup batch : e.call.order # buy[t].order

\* An order the owner follows is its token's only one.
FollowInv ==
    /\ \A o \in Following :
          /\ tok[o] \in Tokens
          /\ SoleOrder(tok[o], o)
          /\ tok[o] \notin open
          /\ BothReserved(tok[o])
    /\ \A o, p \in Following : tok[o] = tok[p] => o = p

\* So is an order the journal would reconnect, and it agrees with the owner's.
JournalInv ==
    \A t \in Tokens : journal[t].order # NoOrder =>
        /\ tok[journal[t].order] = t
        /\ fate[journal[t].order] # "unused"
        /\ Reconnectable(journal[t]) =>
              /\ SoleOrder(t, journal[t].order)
              /\ t \notin open
              /\ BothReserved(t)
              /\ Returned(t) => buy[t].order = journal[t].order
              /\ \A o \in Following : tok[o] = t => o = journal[t].order
        /\ ~Reconnectable(journal[t]) => fate[journal[t].order] # "placed"

\* The journal will not reconnect o any more.
Closed(o) == tok[o] \in Tokens /\ (journal[tok[o]].order = o => ~Reconnectable(journal[tok[o]]))

\* What an answer says stays true until it is handled.
AnswerInv ==
    /\ \A c \in calls : /\ fate[c.order] # "unused"
                        /\ c.kind = "balance" => fate[c.order] = "filled" /\ Closed(c.order)
    /\ \A e \in done \cup batch :
          /\ fate[e.call.order] # "unused"
          /\ e.result = "SWAP_FAILED" => fate[e.call.order] = "failed" /\ Closed(e.call.order)
          /\ e.result = "SWAP_CONFIRMED" => fate[e.call.order] = "filled" /\ Closed(e.call.order)
    /\ \A o \in balWait : fate[o] = "filled" /\ Closed(o)

\* A token with a position has nothing else going on.
OpenInv == \A t \in open : ~AtProvider(t)

\* Tokens in the wallet and orders at the provider are backed by a position or
\* by a reservation that a restart will find.
BackedInv ==
    \A t \in Tokens : t \in held \/ AtProvider(t) => t \in open \/ BothReserved(t)

IInv ==
    /\ TypeOK
    /\ UnusedOrders
    /\ BridgeInv
    /\ UnsentInv
    /\ SentInv
    /\ FollowInv
    /\ JournalInv
    /\ AnswerInv
    /\ OpenInv
    /\ BackedInv

\* Even the tokens only a restart could pledge again fit the limit.
PledgedInv == Cardinality(Pledged) <= MaxOpen

Limit == INSTANCE ExposureLimit WITH pledged <- Pledged

\* The entry path implements the abstract exposure limit.
ImplementsLimit == Limit!Spec
=============================================================================

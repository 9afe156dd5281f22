--------------------------- MODULE CitationStore ---------------------------
(***************************************************************************)
(* How citation audits are saved and read                                  *)
(* (citation-visibility-audit-repository.ts).  Each of its operations is   *)
(* three statements: the search path is set to the tenant's schema, the    *)
(* row is inserted or selected by its unqualified table name, and the path *)
(* is set back.  Each statement is a pool.query of its own, so the pool of *)
(* connection.ts picks a connection for each, and gives it back when the   *)
(* statement is over; the path belongs to the connection.                  *)
(***************************************************************************)
EXTENDS Integers, Sequences, SequencesExt

CONSTANTS
  Schemas,        \* of the tenants; each has a table citation_audits
  Calls,          \* calls of the repository, each for some tenant
  Public,         \* the schema public, which has no such table
  MaxConnections  \* "max: 3"

VARIABLES
  idle,    \* connections that are free, the one freed last at the end
  opened,  \* how many there are
  path,    \* the first schema of each connection's search path
  waiting, \* calls whose statement has no connection yet, first come first served
  calls    \* [of, next, on, found]: the tenant's schema, the next or current statement,
           \* its connection, and the schema of the row it read or wrote

vars == <<idle, opened, path, waiting, calls>>

Connections == 1..MaxConnections
NoConnection == 0

Init ==
  /\ idle = <<>>
  /\ opened = 0
  /\ path = [c \in Connections |-> Public]
  /\ waiting = <<>>
  /\ calls \in [Calls -> [of : Schemas, next : {"set"}, on : {NoConnection}, found : {Public}]]

Begin(k, c) == calls' = [calls EXCEPT ![k].on = c]

\* pool.query: a free connection, or a new one, or a place in the queue.
Acquire(k) ==
  /\ calls[k].next # "done" /\ calls[k].on = NoConnection
  /\ ~Contains(waiting, k)
  /\ \/ /\ idle # <<>>
        /\ Begin(k, Last(idle))
        /\ idle' = Front(idle)
        /\ UNCHANGED <<opened, waiting>>
     \/ /\ idle = <<>> /\ opened < MaxConnections
        /\ opened' = opened + 1
        /\ Begin(k, opened')
        /\ UNCHANGED <<idle, waiting>>
     \/ /\ idle = <<>> /\ opened = MaxConnections
        /\ waiting' = Append(waiting, k)
        /\ UNCHANGED <<idle, opened, calls>>
  /\ UNCHANGED path

\* The connection goes to whoever waits longest.
Finish(k, done) ==
  LET c == calls[k].on IN
  /\ c # NoConnection
  /\ \/ /\ waiting = <<>>
        /\ idle' = Append(idle, c)
        /\ calls' = [calls EXCEPT ![k] = done]
        /\ UNCHANGED waiting
     \/ /\ waiting # <<>>
        /\ waiting' = Tail(waiting)
        /\ calls' = [calls EXCEPT ![k] = done, ![Head(waiting)].on = c]
        /\ UNCHANGED idle
  /\ UNCHANGED opened

\* SET search_path TO <schema>, public
SetPath(k) ==
  /\ calls[k].next = "set"
  /\ path' = [path EXCEPT ![calls[k].on] = calls[k].of]
  /\ Finish(k, [calls[k] EXCEPT !.next = "row", !.on = NoConnection])

\* INSERT INTO citation_audits, or SELECT ... FROM citation_audits; an error if the path
\* finds no such table.
InsertOrSelect(k) ==
  /\ calls[k].next = "row"
  /\ Finish(k, [calls[k] EXCEPT !.next = "reset", !.on = NoConnection,
                                !.found = path[calls[k].on]])
  /\ UNCHANGED path

\* finally: SET search_path TO public
ResetPath(k) ==
  /\ calls[k].next = "reset"
  /\ path' = [path EXCEPT ![calls[k].on] = Public]
  /\ Finish(k, [calls[k] EXCEPT !.next = "done", !.on = NoConnection])

\* The repository is called again, for any tenant.
CallAgain(k) ==
  /\ calls[k].next = "done"
  /\ \E s \in Schemas :
       calls' = [calls EXCEPT ![k] = [of |-> s, next |-> "set", on |-> NoConnection,
                                      found |-> Public]]
  /\ UNCHANGED <<idle, opened, path, waiting>>

Next ==
  \E k \in Calls :
    \/ Acquire(k)
    \/ calls[k].on # NoConnection /\ (SetPath(k) \/ InsertOrSelect(k) \/ ResetPath(k))
    \/ CallAgain(k)

Spec == Init /\ [][Next]_vars

-----------------------------------------------------------------------------
\* A row of a tenant's audits is written to, and read from, that tenant's schema: "every
\* tenant's audits ... live in their own schema" (README.md:46-47).
AuditsStayInTheirSchema ==
  \A k \in Calls : calls[k].found \in {Public, calls[k].of}
=============================================================================

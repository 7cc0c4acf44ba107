------------------------------ MODULE Transfer ------------------------------
(***************************************************************************)
(* Copying and moving key identities between devices                       *)
(* (src/src/transfer.rs, and the commands of src/src/cli/transfer_cmd.rs), *)
(* with both devices at hand or through the relay's device mailbox.        *)
(*                                                                         *)
(* A device is a container, a descriptor that lists slots and a token file *)
(* for each, and a store with the rows of the identities and of the        *)
(* transfers.  A step is one write that lasts: a token, a descriptor, a    *)
(* transaction of a store, a letter.  A command may stop after any.  One   *)
(* command at a time uses a device.                                        *)
(*                                                                         *)
(* A package is what its transfer's number stands for, so the hashes the   *)
(* code compares always agree, and "needs_admin" is never reached.  The    *)
(* slot a destination receives letters with is not one of the labels, and  *)
(* stays.                                                                  *)
(***************************************************************************)
EXTENDS Naturals, Sequences, FiniteSets

CONSTANTS
    Devices,
    Labels,
    Above,     \* of each label, the labels above it in the hierarchy
    Home,      \* the device each label is enrolled on at first
    Commands,  \* the commands in use
    Modes,     \* the descendant modes in use
    Patient,   \* whether one transfer is over before the next, and none recovered after
    Expiring,  \* whether letters expire
    MaxKeys,   \* bound: keys made for a label
    MaxTx,     \* bound: transfers
    MaxMail,   \* bound: the pushes to the mailbox after which no command pushes more
    MaxStops   \* bound: commands that stop or fail midway

ASSUME TransferAssumption ==
    /\ Above \in [Labels -> SUBSET Labels]
    /\ \A l \in Labels : l \notin Above[l] /\ \A m \in Above[l] : Above[m] \subseteq Above[l]
    /\ Home \in [Labels -> Devices]
    /\ Commands \subseteq {"enroll", "transfer", "send", "collect", "finalize", "recover"}
    /\ Modes \subseteq {"key-only", "direct-children", "all-descendants"}
    /\ Patient \in BOOLEAN /\ Expiring \in BOOLEAN
    /\ MaxKeys \in Nat \ {0} /\ MaxTx \in Nat /\ MaxMail \in Nat /\ MaxStops \in Nat

VARIABLES
    made,      \* of each label, how many keys were made for it
    slots,     \* the descriptors: of each device and label, its key, 0 if none
    tokens,    \* the token files, likewise
    rows,      \* the identities of each store
    packages,  \* the transfers that were prepared, in order
    left,      \* of each, its state in the source's store
    right,     \* of each, its state in the destination's store
    placed,    \* of each, the labels its destination notes as installed
    mail,      \* the device mailbox: letters and acknowledgements, in order
    pushes,    \* how many were pushed
    job,       \* of each device, the command that drives it
    stops      \* commands that stopped or failed so far

device == <<slots, tokens>>
ledger == <<packages, left, right, placed>>
post == <<mail, pushes>>
vars == <<made, device, rows, ledger, post, job, stops>>

Txs == 1 .. MaxTx
Keys == 0 .. MaxKeys
\* The id of an identity is drawn when it is recorded: the device it was first
\* recorded on stands for it.
NoRow == [key |-> 0, id |-> "none", state |-> "absent", gen |-> 0]
Idle == [cmd |-> "none", tx |-> 0, at |-> "idle", todo |-> {}, queue |-> << >>]
Busy == [Idle EXCEPT !.cmd = "used"]

Init ==
    /\ made = [l \in Labels |-> 1]
    /\ slots = [d \in Devices |-> [l \in Labels |-> IF Home[l] = d THEN 1 ELSE 0]]
    /\ tokens = slots
    /\ rows = [d \in Devices |-> [l \in Labels |->
                  IF Home[l] = d THEN [key |-> 1, id |-> d, state |-> "active", gen |-> 1] ELSE NoRow]]
    /\ packages = << >> /\ left = << >> /\ right = << >> /\ placed = << >>
    /\ mail = << >> /\ pushes = 0
    /\ job = [d \in Devices |-> Idle]
    /\ stops = 0

-----------------------------------------------------------------------------
Known(d) == {l \in Labels : rows[d][l].key # 0}
Active(d) == {l \in Labels : rows[d][l].state = "active"}

\* A slot opens when the descriptor lists it and its token is there.
Opens(d, l) == slots[d][l] # 0 /\ tokens[d][l] = slots[d][l]
Holds(d, l, k) == k # 0 /\ slots[d][l] = k /\ tokens[d][l] = k

Children(d, l) == {c \in Known(d) : l \in Above[c] /\ \A m \in Above[c] : l \notin Above[m]}

\* descendants_of walks down the rows, and so stops where one is missing.
Descendants(d, l) ==
    {c \in Known(d) : l \in Above[c] /\ \A m \in Above[c] : l \in Above[m] => m \in Known(d)}

\* select_export: the labels whose secrets travel.
Exported(d, l, mode) ==
    {l} \cup (Active(d) \cap
        CASE mode = "key-only" -> {}
          [] mode = "direct-children" -> Children(d, l)
          [] mode = "all-descendants" -> Descendants(d, l))

\* The labels that travel by name only.
Hinted(d, l, secrets) == ((Above[l] \cap Known(d)) \cup Descendants(d, l) \cup {l}) \ secrets

\* classify_incoming, for an entry of a package at the store of a device.
Same(p, e, l) == rows[e][l].key = p.entry[l].key /\ rows[e][l].id = p.entry[l].id
Conflict(p, e, l) == l \in Known(e) /\ ~Same(p, e, l)
Stale(p, e, l) == Same(p, e, l) /\ p.entry[l].gen < rows[e][l].gen
NewSecret(p, e, l) == rows[e][l].key = 0 /\ l \in p.secrets

\* receiver_accepts.  Nobody passes allow_ancestor_import.
Accepts(p, e) ==
    \A l \in DOMAIN p.entry :
        /\ ~Conflict(p, e, l) /\ ~Stale(p, e, l)
        /\ NewSecret(p, e, l) => Active(e) = {} \/ Above[l] \cap Active(e) # {}

Entry(x, state) == [key |-> x.key, id |-> x.id, state |-> state, gen |-> x.gen]

\* Mutant: a name that travels without its secret is recorded as active.
Applied_HintsActive(p, e) ==
    [l \in Labels |->
        IF l \in p.secrets \/ l \in DOMAIN p.entry \ Known(e) THEN Entry(p.entry[l], "active")
        ELSE rows[e][l]]

\* apply_entry, over the entries of a package.
Applied(p, e) ==
    [l \in Labels |->
        IF l \in p.secrets THEN Entry(p.entry[l], "active")
        ELSE IF l \in DOMAIN p.entry \ Known(e) THEN Entry(p.entry[l], "ghost")
        ELSE rows[e][l]]

Committed(s) == s \in {"destination_committed", "acknowledged", "source_finalized", "completed"}
Over(s) == s \in {"completed", "aborted"}

-----------------------------------------------------------------------------
\* Commands and their steps.

Free(d) == job[d] = Idle
Runs(d, at) == job[d].cmd \notin {"none", "used"} /\ job[d].at = at
Tx(d) == job[d].tx
Package(d) == packages[Tx(d)]

\* A command with both devices at hand uses the other one, too.
Local(cmd) == cmd \in {"transfer", "recover"}

Start(d, e, cmd, t, at, todo) ==
    job' = [job EXCEPT ![d] = [cmd |-> cmd, tx |-> t, at |-> at, todo |-> todo, queue |-> << >>],
                       ![e] = IF Local(cmd) THEN Busy ELSE @]

Goto(d, at, todo) == job' = [job EXCEPT ![d].at = at, ![d].todo = todo]

\* The command ends, well or not.
End(d) ==
    job' = [e \in Devices |->
               IF e = d \/ (Local(job[d].cmd) /\ e = Package(d).dst) THEN Idle ELSE job[e]]

\* It goes on to its next letter.
NextLetter(d) == job' = [job EXCEPT ![d].at = "open", ![d].queue = Tail(@), ![d].todo = {}]

\* A step fails.  transfer takes an uncommitted destination back; the other
\* commands report the error.
Fail(d) ==
    IF job[d].cmd = "transfer" /\ ~Committed(right[Tx(d)])
    THEN Goto(d, "abort", {l \in placed[Tx(d)] : slots[Package(d).dst][l] # 0})
    ELSE End(d)

\* The transfers before are over, and no letter of one that was aborted is
\* left to collect.
Settled ==
    /\ \A t \in DOMAIN packages : Over(left[t])
    /\ \A i \in DOMAIN mail : left[mail[i].tx] = "aborted" => mail[i].kind = "ack"
    /\ \A d \in Devices : Free(d)

\* The order of a package's labels: the one asked for first.
First(S, p) == IF p.root \in S THEN p.root ELSE CHOOSE l \in S : TRUE

-----------------------------------------------------------------------------
\* enroll_in: the slot is made if there is none, then the identity recorded.

Enroll(d, l) ==
    /\ "enroll" \in Commands
    /\ Free(d) /\ (Patient => Settled)
    /\ slots[d][l] = 0 => tokens[d][l] = 0 /\ made[l] < MaxKeys
    /\ slots[d][l] # 0 => Opens(d, l) /\ rows[d][l].key = 0
    /\ Start(d, d, "enroll", 0, IF slots[d][l] = 0 THEN "make" ELSE "record", {l})
    /\ UNCHANGED <<made, device, rows, ledger, post, stops>>

Make(d) ==
    /\ Runs(d, "make")
    /\ \E l \in job[d].todo :
       /\ made' = [made EXCEPT ![l] = @ + 1]
       /\ tokens' = [tokens EXCEPT ![d][l] = made'[l]]
    /\ Goto(d, "list", job[d].todo)
    /\ UNCHANGED <<slots, rows, ledger, post, stops>>

List(d) ==
    /\ Runs(d, "list")
    /\ \E l \in job[d].todo : slots' = [slots EXCEPT ![d][l] = tokens[d][l]]
    /\ Goto(d, "record", job[d].todo)
    /\ UNCHANGED <<made, tokens, rows, ledger, post, stops>>

\* A row of the label with another key refuses it; the slot stays.
Record(d) ==
    /\ Runs(d, "record")
    /\ \E l \in job[d].todo :
       rows' = IF rows[d][l].key = 0
               THEN [rows EXCEPT ![d][l] = [key |-> slots[d][l], id |-> d, state |-> "active", gen |-> 1]]
               ELSE rows
    /\ job' = [job EXCEPT ![d] = Idle]
    /\ UNCHANGED <<made, device, ledger, post, stops>>

-----------------------------------------------------------------------------
\* The source: prepare_in, and run_relay_send.

Authorized(d, actor, l) == actor \in Active(d) /\ (actor = l \/ actor \in Above[l])

Prepare(d, e, cmd, op, actor, l, mode) ==
    LET secrets == Exported(d, l, mode)
        hints == Hinted(d, l, secrets) IN
    /\ cmd \in Commands
    /\ Free(d) /\ (Local(cmd) => Free(e)) /\ d # e
    /\ Len(packages) < MaxTx
    /\ Patient => Settled
    /\ cmd = "send" => slots[d][actor] # 0 /\ pushes < MaxMail
    /\ Authorized(d, actor, l) /\ l \in Active(d)
    /\ \A s \in secrets : Holds(d, s, rows[d][s].key)
    /\ packages' = Append(packages,
           [src |-> d, dst |-> e, op |-> op, root |-> l, actor |-> actor,
            return |-> slots[d][actor], secrets |-> secrets,
            entry |-> [s \in secrets \cup hints |->
                          [key |-> rows[d][s].key, id |-> rows[d][s].id, gen |-> rows[d][s].gen]]])
    /\ left' = Append(left, "prepared")
    /\ right' = Append(right, "none")
    /\ placed' = Append(placed, {})
    /\ Start(d, e, cmd, Len(packages) + 1, IF cmd = "send" THEN "push" ELSE "stage", {})
    /\ UNCHANGED <<made, device, rows, post, stops>>

Push(d) ==
    /\ Runs(d, "push")
    /\ mail' = Append(mail, [kind |-> "letter", tx |-> Tx(d)])
    /\ pushes' = pushes + 1
    /\ End(d)
    /\ UNCHANGED <<made, device, rows, ledger, stops>>

-----------------------------------------------------------------------------
\* The destination: stage_destination, write_destination_slots_in,
\* commit_destination_rows, acknowledge.

Stage(d) ==
    /\ Runs(d, "stage")
    /\ IF Accepts(Package(d), Package(d).dst)
       THEN /\ right' = [right EXCEPT ![Tx(d)] = "transferred"]
            /\ Goto(d, "write", {})
       ELSE Fail(d) /\ UNCHANGED right
    /\ UNCHANGED <<made, device, rows, packages, left, placed, post, stops>>

Write(d) ==
    /\ Runs(d, "write")
    /\ right' = [right EXCEPT ![Tx(d)] = "writing"]
    /\ Goto(d, "install", Package(d).secrets)
    /\ UNCHANGED <<made, device, rows, packages, left, placed, post, stops>>

\* A slot that is there is left as it is, if it is the same key.  One that is
\* not is noted before it is written.
Note(d) ==
    LET p == Package(d)
        l == First(job[d].todo, p) IN
    /\ Runs(d, "install") /\ job[d].todo # {}
    /\ IF slots[p.dst][l] # 0
       THEN /\ UNCHANGED placed
            /\ IF Holds(p.dst, l, p.entry[l].key) THEN Goto(d, "install", job[d].todo \ {l}) ELSE Fail(d)
       ELSE /\ placed' = [placed EXCEPT ![Tx(d)] = @ \cup {l}]
            /\ Goto(d, "token", job[d].todo)
    /\ UNCHANGED <<made, device, rows, packages, left, right, post, stops>>

\* write_token refuses a file that is there.
WriteToken(d) ==
    LET p == Package(d)
        l == First(job[d].todo, p) IN
    /\ Runs(d, "token")
    /\ IF tokens[p.dst][l] = 0
       THEN /\ tokens' = [tokens EXCEPT ![p.dst][l] = p.entry[l].key]
            /\ Goto(d, "descriptor", job[d].todo)
       ELSE Fail(d) /\ UNCHANGED tokens
    /\ UNCHANGED <<made, slots, rows, ledger, post, stops>>

WriteDescriptor(d) ==
    LET p == Package(d)
        l == First(job[d].todo, p) IN
    /\ Runs(d, "descriptor")
    /\ slots' = [slots EXCEPT ![p.dst][l] = p.entry[l].key]
    /\ Goto(d, "install", job[d].todo \ {l})
    /\ UNCHANGED <<made, tokens, rows, ledger, post, stops>>

CommitRows(d) ==
    LET p == Package(d) IN
    /\ Runs(d, "install") /\ job[d].todo = {}
    /\ IF Accepts(p, p.dst)
       THEN /\ rows' = [rows EXCEPT ![p.dst] = Applied(p, p.dst)]
            /\ right' = [right EXCEPT ![Tx(d)] = "destination_committed"]
            /\ Goto(d, "acknowledge", {})
       ELSE Fail(d) /\ UNCHANGED <<rows, right>>
    /\ UNCHANGED <<made, device, packages, left, placed, post, stops>>

Acknowledge(d) ==
    /\ Runs(d, "acknowledge")
    /\ right' = [right EXCEPT ![Tx(d)] = IF @ = "destination_committed" THEN "acknowledged" ELSE @]
    /\ Goto(d, IF job[d].cmd = "collect" THEN "reply" ELSE "finalize", {})
    /\ UNCHANGED <<made, device, rows, packages, left, placed, post, stops>>

-----------------------------------------------------------------------------
\* The source lets go: finalize_source_in, finalize_after_ack_in,
\* retire_source_material, scrub_moved_slots.

\* Mutant: a copy lets go of its slots, too.
ToScrub_Copies(t) == {l \in packages[t].secrets : slots[packages[t].src][l] # 0}

\* Mutant: the labels that travelled by name are let go of, too.
ToScrub_Hints(t) ==
    LET p == packages[t] IN
    IF p.op = "move" THEN {l \in DOMAIN p.entry : slots[p.src][l] # 0} ELSE {}

\* The slots of a move that the source still lists.
ToScrub(t) ==
    LET p == packages[t] IN
    IF p.op = "move" THEN {l \in p.secrets : slots[p.src][l] # 0} ELSE {}

\* Mutant: the ghost is written with the token in place.
Finalize_KeepsToken(d) ==
    /\ Runs(d, "finalize")
    /\ Goto(d, "scrub", {})
    /\ UNCHANGED <<made, device, rows, ledger, post, stops>>

Finalize(d) ==
    /\ Runs(d, "finalize")
    /\ Goto(d, "scrub", ToScrub(Tx(d)))
    /\ UNCHANGED <<made, device, rows, ledger, post, stops>>

\* remove_slot_in, of the first label to do: the token, then the descriptor.
DeleteToken(d, at, e, next) ==
    LET l == First(job[d].todo, Package(d)) IN
    /\ Runs(d, at) /\ job[d].todo # {}
    /\ tokens' = [tokens EXCEPT ![e][l] = 0]
    /\ Goto(d, next, job[d].todo)
    /\ UNCHANGED <<made, slots, rows, ledger, post, stops>>

Unlist(d, at, e, next) ==
    LET l == First(job[d].todo, Package(d)) IN
    /\ Runs(d, at)
    /\ slots' = [slots EXCEPT ![e][l] = 0]
    /\ Goto(d, next, job[d].todo \ {l})
    /\ UNCHANGED <<made, tokens, rows, ledger, post, stops>>

ScrubToken(d) == DeleteToken(d, "scrub", Package(d).src, "unlist")
ScrubSlot(d) == Unlist(d, "unlist", Package(d).src, "scrub")

\* The generation a transferred identity has at its source afterwards.
Target(p, l) == IF p.op = "move" THEN rows[p.src][l].gen + 1 ELSE rows[p.src][l].gen

Retired(p) ==
    [l \in Labels |->
        IF l \in p.secrets /\ p.op = "move"
        THEN [rows[p.src][l] EXCEPT !.state = "ghost", !.gen = Target(p, l)]
        ELSE rows[p.src][l]]

\* Mutant: the destination's generation stays.
Raise_Forgets(d) ==
    /\ Runs(d, "scrub") /\ job[d].todo = {}
    /\ Local(job[d].cmd) /\ left[Tx(d)] # "source_finalized"
    /\ Goto(d, "ghost", {})
    /\ UNCHANGED <<made, device, rows, ledger, post, stops>>

\* With both stores open, the destination's generation is raised while the
\* source's transaction is still open.
Raise(d) ==
    LET p == Package(d) IN
    /\ Runs(d, "scrub") /\ job[d].todo = {}
    /\ Local(job[d].cmd) /\ left[Tx(d)] # "source_finalized"
    /\ rows' = [rows EXCEPT ![p.dst] = [l \in Labels |->
                   IF l \in p.secrets /\ @[l].id = rows[p.src][l].id /\ @[l].gen < Target(p, l)
                   THEN [@[l] EXCEPT !.gen = Target(p, l)] ELSE @[l]]]
    /\ Goto(d, "ghost", {})
    /\ UNCHANGED <<made, device, ledger, post, stops>>

Ghost(d) ==
    /\ Runs(d, "ghost")
    /\ rows' = [rows EXCEPT ![Package(d).src] = Retired(Package(d))]
    /\ left' = [left EXCEPT ![Tx(d)] = "source_finalized"]
    /\ Goto(d, "scrub", {})
    /\ UNCHANGED <<made, device, packages, right, placed, post, stops>>

\* Mutant: the destination gets the state of the source.
DestinationDone_Copies(d) ==
    /\ Runs(d, "scrub") /\ job[d].todo = {}
    /\ Local(job[d].cmd) /\ left[Tx(d)] = "source_finalized"
    /\ right' = [right EXCEPT ![Tx(d)] = left[Tx(d)]]
    /\ Goto(d, "done", {})
    /\ UNCHANGED <<made, device, rows, packages, left, placed, post, stops>>

\* The ghost is written: both stores call the transfer completed.
DestinationDone(d) ==
    /\ Runs(d, "scrub") /\ job[d].todo = {}
    /\ Local(job[d].cmd) /\ left[Tx(d)] = "source_finalized"
    /\ right' = [right EXCEPT ![Tx(d)] = "completed"]
    /\ Goto(d, "done", {})
    /\ UNCHANGED <<made, device, rows, packages, left, placed, post, stops>>

SourceDone(d) ==
    /\ Runs(d, "done")
    /\ left' = [left EXCEPT ![Tx(d)] = "completed"]
    /\ End(d)
    /\ UNCHANGED <<made, device, rows, packages, right, placed, post, stops>>

\* After an acknowledgement one transaction writes the ghost and completes.
GhostAfterAck(d) ==
    /\ Runs(d, "scrub") /\ job[d].todo = {}
    /\ job[d].cmd = "finalize"
    /\ rows' = IF left[Tx(d)] = "prepared"
               THEN [rows EXCEPT ![d] = Retired(Package(d))] ELSE rows
    /\ left' = [left EXCEPT ![Tx(d)] = "completed"]
    /\ NextLetter(d)
    /\ UNCHANGED <<made, device, packages, right, placed, post, stops>>

-----------------------------------------------------------------------------
\* run_relay_collect and run_relay_finalize: each goes through the mailbox in
\* order, and an error ends it.

Waiting(kind, from, to, key) ==
    SelectSeq(mail, LAMBDA x :
        /\ x.kind = kind
        /\ packages[x.tx].src = from /\ packages[x.tx].dst = to
        /\ kind = "ack" => packages[x.tx].return = key)

Collect(d, from) ==
    /\ "collect" \in Commands
    /\ Free(d) /\ pushes < MaxMail
    /\ Waiting("letter", from, d, 0) # << >>
    /\ job' = [job EXCEPT ![d] = [Idle EXCEPT !.cmd = "collect", !.at = "open",
                                              !.queue = Waiting("letter", from, d, 0)]]
    /\ UNCHANGED <<made, device, rows, ledger, post, stops>>

\* The acknowledgements were sealed to the slot of the actor.
FinalizeAcks(d, to, slot) ==
    /\ "finalize" \in Commands
    /\ Free(d) /\ Opens(d, slot)
    /\ Waiting("ack", d, to, slots[d][slot]) # << >>
    /\ job' = [job EXCEPT ![d] = [Idle EXCEPT !.cmd = "finalize", !.at = "open",
                                              !.queue = Waiting("ack", d, to, slots[d][slot])]]
    /\ UNCHANGED <<made, device, rows, ledger, post, stops>>

\* Mutant: a transfer the destination knows is acknowledged again, committed
\* or not.
OpenLetter_AnyState(d) ==
    LET t == job[d].queue[1].tx IN
    /\ Runs(d, "open") /\ job[d].cmd = "collect" /\ job[d].queue # << >>
    /\ job' = [job EXCEPT ![d].tx = t, ![d].at = IF right[t] = "none" THEN "stage" ELSE "reply"]
    /\ UNCHANGED <<made, device, rows, ledger, post, stops>>

\* accept_package_in and resume_accept.
OpenLetter(d) ==
    LET t == job[d].queue[1].tx IN
    /\ Runs(d, "open") /\ job[d].cmd = "collect" /\ job[d].queue # << >>
    /\ job' = IF right[t] = "aborted" THEN [job EXCEPT ![d] = Idle]
              ELSE [job EXCEPT ![d].tx = t,
                       ![d].at = CASE right[t] = "none" -> "stage"
                                   [] right[t] \in {"transferred", "writing"} -> "write"
                                   [] right[t] = "destination_committed" -> "acknowledge"
                                   [] OTHER -> "reply"]
    /\ UNCHANGED <<made, device, rows, ledger, post, stops>>

Reply(d) ==
    /\ Runs(d, "reply")
    /\ mail' = Append(mail, [kind |-> "ack", tx |-> Tx(d)])
    /\ pushes' = pushes + 1
    /\ NextLetter(d)
    /\ UNCHANGED <<made, device, rows, ledger, stops>>

\* finalize_after_ack_in.
OpenAck(d) ==
    LET t == job[d].queue[1].tx IN
    /\ Runs(d, "open") /\ job[d].cmd = "finalize" /\ job[d].queue # << >>
    /\ job' = CASE left[t] = "completed" -> [job EXCEPT ![d].queue = Tail(@)]
                [] left[t] = "aborted" -> [job EXCEPT ![d] = Idle]
                [] OTHER -> [job EXCEPT ![d].tx = t, ![d].at = "scrub", ![d].todo = ToScrub(t)]
    /\ UNCHANGED <<made, device, rows, ledger, post, stops>>

EndLetters(d) ==
    /\ Runs(d, "open") /\ job[d].queue = << >>
    /\ job' = [job EXCEPT ![d] = Idle]
    /\ UNCHANGED <<made, device, rows, ledger, post, stops>>

\* A letter expires.
Expire ==
    /\ Expiring /\ mail # << >>
    /\ mail' = Tail(mail)
    /\ UNCHANGED <<made, device, rows, ledger, pushes, job, stops>>

-----------------------------------------------------------------------------
\* recover_pair_in and abort_transfer_in.

\* Mutant: a destination that began to write counts as one that committed.
Recover_Writing(d, t) ==
    LET e == packages[t].dst IN
    /\ "recover" \in Commands
    /\ t \in DOMAIN packages /\ packages[t].src = d
    /\ Free(d) /\ Free(e)
    /\ left[t] # "completed" /\ (Patient => ~Over(left[t]))
    /\ IF left[t] = "source_finalized" \/ Committed(right[t]) \/ right[t] = "writing"
       THEN Start(d, e, "recover", t, "scrub", ToScrub(t))
       ELSE Start(d, e, "recover", t, "abort", {l \in placed[t] : slots[e][l] # 0})
    /\ UNCHANGED <<made, device, rows, ledger, post, stops>>

\* Mutant: a transfer its destination does not know is not recovered.
Recover_KnownOnly(d, t) ==
    LET e == packages[t].dst IN
    /\ "recover" \in Commands
    /\ t \in DOMAIN packages /\ packages[t].src = d
    /\ Free(d) /\ Free(e)
    /\ left[t] # "completed" /\ (Patient => ~Over(left[t])) /\ right[t] # "none"
    /\ IF left[t] = "source_finalized" \/ Committed(right[t])
       THEN Start(d, e, "recover", t, "scrub", ToScrub(t))
       ELSE Start(d, e, "recover", t, "abort", {l \in placed[t] : slots[e][l] # 0})
    /\ UNCHANGED <<made, device, rows, ledger, post, stops>>

Recover(d, t) ==
    LET e == packages[t].dst IN
    /\ "recover" \in Commands
    /\ t \in DOMAIN packages /\ packages[t].src = d
    /\ Free(d) /\ Free(e)
    /\ left[t] # "completed" /\ (Patient => ~Over(left[t]))
    /\ IF left[t] = "source_finalized" \/ Committed(right[t])
       THEN Start(d, e, "recover", t, "scrub", ToScrub(t))
       ELSE Start(d, e, "recover", t, "abort", {l \in placed[t] : slots[e][l] # 0})
    /\ UNCHANGED <<made, device, rows, ledger, post, stops>>

\* A completed source completes its destination.
RecoverCompleted(d, t) ==
    /\ "recover" \in Commands
    /\ t \in DOMAIN packages /\ packages[t].src = d
    /\ Free(d) /\ Free(packages[t].dst)
    /\ left[t] = "completed" /\ right[t] # "completed"
    /\ right' = [right EXCEPT ![t] = IF @ = "none" THEN @ ELSE "completed"]
    /\ UNCHANGED <<made, device, rows, packages, left, placed, post, job, stops>>

AbortToken(d) == DeleteToken(d, "abort", Package(d).dst, "take back")
AbortSlot(d) == Unlist(d, "take back", Package(d).dst, "abort")

AbortDestination(d) ==
    /\ Runs(d, "abort") /\ job[d].todo = {}
    /\ right' = [right EXCEPT ![Tx(d)] = IF @ = "none" THEN @ ELSE "aborted"]
    /\ Goto(d, "aborted", {})
    /\ UNCHANGED <<made, device, rows, packages, left, placed, post, stops>>

AbortSource(d) ==
    /\ Runs(d, "aborted")
    /\ left' = [left EXCEPT ![Tx(d)] = IF @ = "prepared" THEN "aborted" ELSE @]
    /\ End(d)
    /\ UNCHANGED <<made, device, rows, packages, right, placed, post, stops>>

-----------------------------------------------------------------------------
\* A command stops where it is.
Stop(d) ==
    /\ stops < MaxStops
    /\ job[d].cmd \notin {"none", "used"}
    /\ IF Local(job[d].cmd) THEN End(d) ELSE job' = [job EXCEPT ![d] = Idle]
    /\ stops' = stops + 1
    /\ UNCHANGED <<made, device, rows, ledger, post>>

\* A write of transfer fails, and it goes on to take the destination back.
Break(d) ==
    /\ stops < MaxStops
    /\ job[d].cmd = "transfer" /\ job[d].at \notin {"abort", "take back", "aborted"}
    /\ Fail(d)
    /\ stops' = stops + 1
    /\ UNCHANGED <<made, device, rows, ledger, post>>

Step(d) ==
    \/ Make(d) \/ List(d) \/ Record(d) \/ Push(d)
    \/ Stage(d) \/ Write(d) \/ Note(d) \/ WriteToken(d) \/ WriteDescriptor(d)
    \/ CommitRows(d) \/ Acknowledge(d)
    \/ Finalize(d) \/ ScrubToken(d) \/ ScrubSlot(d) \/ Raise(d) \/ Ghost(d)
    \/ DestinationDone(d) \/ SourceDone(d) \/ GhostAfterAck(d)
    \/ OpenLetter(d) \/ Reply(d) \/ OpenAck(d) \/ EndLetters(d)
    \/ AbortToken(d) \/ AbortSlot(d) \/ AbortDestination(d) \/ AbortSource(d)

Next ==
    \/ \E d \in Devices : Step(d) \/ Stop(d) \/ Break(d)
    \/ \E d \in Devices, l \in Labels : Enroll(d, l)
    \/ \E d, e \in Devices, cmd \in {"transfer", "send"}, op \in {"copy", "move"},
          actor, l \in Labels, mode \in Modes : Prepare(d, e, cmd, op, actor, l, mode)
    \/ \E d, e \in Devices : Collect(d, e)
    \/ \E d, e \in Devices, l \in Labels : FinalizeAcks(d, e, l)
    \/ \E d \in Devices, t \in Txs : Recover(d, t) \/ RecoverCompleted(d, t)
    \/ Expire

Spec == Init /\ [][Next]_vars

\* A command that was started takes its steps.  A transfer that is not over is
\* recovered, as often as the two devices meet.
MeetSpec ==
    /\ Spec
    /\ \A d \in Devices : WF_vars(Step(d))
    /\ \A t \in Txs : SF_vars(\E d \in Devices : Recover(d, t))

-----------------------------------------------------------------------------
SourceStates == {"prepared", "source_finalized", "completed", "aborted"}
DestinationStates ==
    {"none", "transferred", "writing", "destination_committed", "acknowledged", "completed", "aborted"}

\* Every variable has its type; a descriptor never lists a key that was not
\* made, and every transfer has its row on both sides.
TypeOK ==
    /\ made \in [Labels -> 1 .. MaxKeys]
    /\ slots \in [Devices -> [Labels -> Keys]] /\ tokens \in [Devices -> [Labels -> Keys]]
    /\ \A d \in Devices, l \in Labels : slots[d][l] <= made[l] /\ tokens[d][l] <= made[l]
    /\ rows \in [Devices -> [Labels ->
           {NoRow} \cup [key : 1 .. MaxKeys, id : Devices, state : {"active", "ghost"}, gen : Nat \ {0}]]]
    /\ Len(packages) <= MaxTx
    /\ left \in [DOMAIN packages -> SourceStates]
    /\ right \in [DOMAIN packages -> DestinationStates]
    /\ placed \in [DOMAIN packages -> SUBSET Labels]
    /\ \A t \in DOMAIN packages : placed[t] \subseteq packages[t].secrets
    /\ \A i \in DOMAIN mail : mail[i].kind \in {"letter", "ack"} /\ mail[i].tx \in DOMAIN packages

\* An enrolled identity can be opened on some device, whatever was copied,
\* moved, taken back or recovered, and wherever a command stopped.
SecretKept ==
    \A d \in Devices : \A l \in Known(d) : \E e \in Devices : Holds(e, l, rows[d][l].key)

\* "A reported ghost cannot still be opened" (retire_source_material): but for
\* a transfer that is bringing the secret back and has not committed.
GhostCannotOpen ==
    \A d \in Devices, l \in Labels :
        rows[d][l].state = "ghost" /\ Holds(d, l, rows[d][l].key) =>
            \E t \in DOMAIN packages :
                packages[t].dst = d /\ l \in placed[t] /\ right[t] = "writing"

\* "Possession on a device is active (the slot secret is here)": but for a
\* move whose source was stopped while it deleted the tokens.
ActiveOpens ==
    \A d \in Devices : \A l \in Active(d) :
        ~Holds(d, l, rows[d][l].key) =>
            \E t \in DOMAIN packages :
                /\ packages[t].src = d /\ packages[t].op = "move" /\ l \in packages[t].secrets
                /\ left[t] \notin {"source_finalized", "completed"} /\ Committed(right[t])

\* The two stores never end a transfer differently: the source is done only
\* with a destination that committed.
SourceFollows ==
    \A t \in DOMAIN packages : left[t] \in {"source_finalized", "completed"} => Committed(right[t])

\* A secret leaves a device for two reasons: a move took it to a destination
\* that committed, or the transfer that brought it was taken back before it
\* committed there.  A copy never takes it from its source.
LeavesForAReason ==
    [][\A d \in Devices, l \in Labels : \A k \in 1 .. MaxKeys :
          Holds(d, l, k) /\ ~Holds(d, l, k)' =>
              \E t \in DOMAIN packages :
                  /\ l \in packages[t].secrets
                  /\ \/ packages[t].src = d /\ packages[t].op = "move" /\ Committed(right[t])
                     \/ packages[t].dst = d /\ l \in placed[t] /\ ~Committed(right[t])]_vars

\* "The same identity id with the same public keys reconciles": a device that
\* has let go of an identity does not refuse it as stale from the one that has
\* it now, as long as nothing went by letter.
Reconciles ==
    pushes = 0 =>
        \A d, e \in Devices, l \in Labels :
            /\ rows[d][l].state = "active" /\ rows[e][l].state = "ghost"
            /\ rows[d][l].id = rows[e][l].id
            => rows[d][l].gen >= rows[e][l].gen

\* Transfers keep custody: the devices a secret can be opened on change only
\* as Custody allows.
Keeps == INSTANCE Custody WITH
    Secrets <- Labels \X (1 .. MaxKeys),
    holders <- [s \in Labels \X (1 .. MaxKeys) |-> {d \in Devices : Holds(d, s[1], s[2])}]
IsCustody == Keeps!Spec

\* Every transfer ends, completed or aborted, when the two devices meet often
\* enough for transfer recover to run.
Settles == \A t \in Txs : (t \in DOMAIN left) ~> (t \in DOMAIN left /\ Over(left[t]))
=============================================================================

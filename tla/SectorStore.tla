---------------------------- MODULE SectorStore ----------------------------
(***************************************************************************)
(* What the disk driver promises each caller: a write that succeeds has    *)
(* stored its data, a read that succeeds returns what is stored, and only  *)
(* the sector a call names ever changes.  A call that fails may or may not *)
(* have stored its data.                                                   *)
(***************************************************************************)
CONSTANTS Callers, Sectors, Data, NoData

VARIABLES store,        \* the data of each sector
          call          \* of each caller: its call under way

Idle == [state |-> "idle"]
Calls == [state : {"running"}, op : {"read", "write"}, lba : Sectors, data : Data \cup {NoData}]

Init == store \in [Sectors -> Data] /\ call = [s \in Callers |-> Idle]

Begin(s, c) ==
  /\ call[s].state # "running"
  /\ (c.op = "read") <=> (c.data = NoData)
  /\ call' = [call EXCEPT ![s] = c]
  /\ UNCHANGED store

Store(s) ==
  /\ call[s].state = "running" /\ call[s].op = "write"
  /\ store' = [store EXCEPT ![call[s].lba] = call[s].data]
  /\ UNCHANGED call

Succeed(s) ==
  /\ call[s].state = "running"
  /\ call[s].op = "write" => store[call[s].lba] = call[s].data
  /\ call' = [call EXCEPT ![s].state = "ok", ![s].data = store[call[s].lba]]
  /\ UNCHANGED store

Fail(s) ==
  /\ call[s].state = "running"
  /\ call' = [call EXCEPT ![s].state = "failed"]
  /\ UNCHANGED store

Finish(s) ==
  /\ call[s].state # "running"
  /\ call' = [call EXCEPT ![s] = Idle]
  /\ UNCHANGED store

Next == \E s \in Callers : \/ \E c \in Calls : Begin(s, c)
                           \/ Store(s) \/ Succeed(s) \/ Fail(s) \/ Finish(s)

Spec == Init /\ [][Next]_<<store, call>>
=============================================================================

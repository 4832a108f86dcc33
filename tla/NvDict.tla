------------------------------ MODULE NvDict ------------------------------
(***************************************************************************)
(* What an nv_list promises, whatever its representation: a dictionary     *)
(* that keeps, for each name and type, a queue of values.  A list that     *)
(* forbids duplicates keeps at most one value for each name.  A failure is *)
(* final.  The reply to each call is in call, as in NvList.                *)
(***************************************************************************)
EXTENDS Libnv

CONSTANT UsedTypes    \* the types the caller uses

VARIABLES
  flags,   \* the flags of the list; they never change
  dict,    \* the queue of values for each name and type
  failed,  \* whether the list is in the error state
  call     \* the last call and its reply

vars == <<flags, dict, failed, call>>

Name(key) == IF "IGNORE_CASE" \in flags THEN CaseFold[key] ELSE key

Queue(key, type) == dict[<<Name(key), type>>]

Held(key, type) ==
  IF type = AnyType THEN \E t \in UsedTypes : Queue(key, t) # <<>> ELSE Queue(key, type) # <<>>

Unchanged == UNCHANGED <<dict, failed>>

Update(key, type, queue) ==
  /\ dict' = [dict EXCEPT ![<<Name(key), type>>] = queue]
  /\ failed' = failed

\* The call was one of ops and ended in one of outcomes.
Reply(ops, outcomes) == call'.op \in ops /\ call'.outcome \in outcomes
-----------------------------------------------------------------------------
\* The value given is the newest of its name and type.
Put(key, type) ==
  /\ Reply({"add", "move", "append"}, {"ok"})
  /\ "NO_UNIQUE" \in flags \/ ~ Held(key, AnyType)
  /\ Update(key, type, Append(Queue(key, type), call'.items))

\* Only the oldest value of a queue grows, by the element given.
Extend(key, type) ==
  /\ Reply({"append"}, {"ok"})
  /\ Held(key, type)
  /\ LET queue == Queue(key, type)
     IN  Update(key, type, <<Head(queue) \o call'.items>> \o Tail(queue))

\* A failed move or append is not reported.
Break ==
  /\ Reply({"add"}, {"nv_key_exists", "system_error"}) \/ Reply({"move", "append"}, {"ok"})
  /\ failed' = TRUE /\ dict' = dict

Get(key, type) ==
  /\ Reply({"get"}, {"ok"})
  /\ Held(key, type) /\ call'.items = Head(Queue(key, type))
  /\ Unchanged

Take(key, type) ==
  /\ Reply({"take"}, {"ok", "bad_alloc"})
  /\ Held(key, type)
  /\ call'.outcome = "ok" => call'.items = Head(Queue(key, type))
  /\ Update(key, type, Tail(Queue(key, type)))

Free(key, type) ==
  /\ Reply({"free"}, {"ok"})
  /\ \E t \in IF type = AnyType THEN UsedTypes ELSE {type} :
       Held(key, t) /\ Update(key, t, Tail(Queue(key, t)))

Exists(key, type) ==
  Reply({"exists"}, {IF Held(key, type) THEN "true" ELSE "false"}) /\ Unchanged

NotFound(key, type) ==
  /\ Reply({"get", "take", "free"}, {"nv_key_not_found", "abort"})
  /\ ~ Held(key, type) /\ Unchanged

Refuse == call'.outcome \in {"runtime_error", "bad_alloc"} /\ Unchanged

Send == Reply({"send"}, {"ok", "system_error"}) /\ Unchanged

IsEmpty ==
  LET isEmpty == \A n \in Keys, t \in UsedTypes : dict[<<n, t>>] = <<>>
  IN  Reply({"empty"}, {IF isEmpty THEN "true" ELSE "false"}) /\ Unchanged

Pack ==
  LET plain == \A n \in Keys, t \in UsedTypes \cap {"descriptor", "descriptor_array"} :
                 dict[<<n, t>>] = <<>>
  IN  /\ Reply({"pack"}, {"system_error", "bad_alloc"} \cup IF plain THEN {"ok"} ELSE {})
      /\ Unchanged

SetError == call'.op = "set_error" /\ failed' = TRUE /\ dict' = dict

\* In the error state every call is refused but the question after it.
Failed == (call'.op = "error" \/ call'.outcome = "nv_error_state") /\ Unchanged
Healthy == Reply({"error"}, {"false"}) /\ Unchanged
-----------------------------------------------------------------------------
Init ==
  /\ flags \subseteq Flags
  /\ dict = [n \in Keys \X UsedTypes |-> <<>>]
  /\ failed \in BOOLEAN

Next ==
  /\ flags' = flags
  /\ \/ failed /\ Failed
     \/ /\ ~ failed
        /\ \/ Healthy \/ IsEmpty \/ Pack \/ Send \/ SetError \/ Refuse \/ Break
           \/ \E key \in Keys \cap {call'.key} :
                \/ Exists(key, call'.type) \/ NotFound(key, call'.type)
                \/ Free(key, call'.type)
                \/ \E type \in UsedTypes \cap {call'.type} :
                     \/ Put(key, type) \/ Extend(key, type) \/ Get(key, type)
                     \/ Take(key, type)

Spec == Init /\ [][Next]_vars
=============================================================================

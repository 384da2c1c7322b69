------------------------------ MODULE Startup -------------------------------
(***************************************************************************)
(* From the configuration file to running tunnels: ini_parse_file() (ini.c)*)
(* calls config_parse_event() (main.c) for every line; a section header    *)
(* and the end of the file commit the parameters collected so far through  *)
(* tunnel_create() and tunnel_list_add() (tunnel.c).                       *)
(*                                                                         *)
(* A key line stores its value in params.  bind_port, num_queues, mtu,     *)
(* tap_base_name and post_exec are stored like bind_iface and passed on,   *)
(* so bind_iface stands for them.                                          *)
(***************************************************************************)
EXTENDS IpAddr

CONSTANTS
  Section,        \* names in section headers
  Iface,          \* values of bind_iface
  Remote,         \* values of default_endpoint, "host:port" with a port
  RemotePort0,    \* ... whose port atoi() makes 0
  HostList,       \* values of allowed_remote_hosts: sequences of Entry
  Peer,           \* addresses of senders
  Unset,          \* NULL
  MaxLines,       \* bound: lines of the file
  SysMayFail      \* whether memory, sockets, names, devices and threads may fail

Key == {"bind_iface", "default_endpoint", "allowed_remote_hosts"}

Value(k) == CASE k = "bind_iface" -> Iface
              [] k = "default_endpoint" -> Remote \cup RemotePort0
              [] k = "allowed_remote_hosts" -> HostList

ASSUME StartupAssumption ==
  /\ "default" \notin Section /\ Unset \notin Section
  /\ \A k \in Key : Unset \notin Value(k)
  /\ \A h \in HostList : h \in Seq(Entry)
  /\ \A p \in Peer : p \subseteq Bits
  /\ MaxLines \in Nat
  /\ SysMayFail \in BOOLEAN

VARIABLES
  phase,           \* "read", "join" (main() waits), "fail" (the list is to be deleted),
                   \* "exit" (code 0 or 1), "crash", "hang"
  file,            \* the lines read so far
  tunnel_name, params,  \* parse_state.params
  seen_values,
  tunnels,         \* the tunnels stored in the list, which are those that run
  num_tunnels,     \* list->num_tunnels
  alloc_size,      \* list->alloc_size; 0 when tunnel_list_create() failed
  block            \* slots the memory at list->tunnels has

listVars == <<tunnels, num_tunnels, alloc_size, block>>
parseVars == <<tunnel_name, params, seen_values>>
vars == <<phase, file, parseVars, listVars>>

NoParams == [k \in Key |-> Unset]

HeaderLine(s) == [kind |-> "section", key |-> s, value |-> Unset]
KeyLine(k, v) == [kind |-> "key", key |-> k, value |-> v]

Read(line) ==
  /\ phase = "read"
  /\ Len(file) < MaxLines
  /\ file' = Append(file, line)

-----------------------------------------------------------------------------
(* tunnel_create()                                                         *)

\* No remote at all, or an entry of the list with a prefix out of range.
Refuses ==
  \/ params["allowed_remote_hosts"] = Unset /\ params["default_endpoint"] = Unset
  \/ /\ params["allowed_remote_hosts"] # Unset
     /\ ~ \A i \in DOMAIN params["allowed_remote_hosts"] :
            WellFormed(params["allowed_remote_hosts"][i])

\* strncpy() from a NULL bind_iface comes before every check; after them a port
\* of 0 fails the assertion of tunnel_alloc_new_tap().
Faults ==
  \/ params["bind_iface"] = Unset
  \/ ~Refuses /\ params["default_endpoint"] \in RemotePort0

\* Mutant: tunnel_name is not defaulted.
NameNotDefaulted == tunnel_name

CommitName == IF tunnel_name = Unset THEN "default" ELSE tunnel_name

AddrLists == [h \in HostList |-> ip_addr_cidr_list_create_from_str(h)]

\* allowed_addr_list stays NULL without allowed_remote_hosts, and matches no one.
Created ==
  [name : {CommitName},
   params : {params},
   allowed_addr_list :
     IF params["allowed_remote_hosts"] = Unset THEN {<<>>}
     ELSE AddrLists[params["allowed_remote_hosts"]]]

-----------------------------------------------------------------------------
(* tunnel_list_add() and tunnel_list_delete()                              *)

\* Mutant: the list grows one tunnel too late.
NeedsGrowthLate == num_tunnels + 1 > alloc_size

\* The count is raised first.
NeedsGrowth == num_tunnels + 1 >= alloc_size

tunnel_list_add(t) ==
  /\ alloc_size > 0
  /\ num_tunnels' = num_tunnels + 1
  /\ alloc_size' = IF NeedsGrowth THEN 2 * alloc_size ELSE alloc_size
  /\ block' = IF NeedsGrowth THEN 2 * alloc_size ELSE block
  /\ tunnels' = Append(tunnels, t)

\* realloc() returns NULL: nothing is stored, but the count stays raised.
ListAddFails ==
  /\ SysMayFail
  /\ alloc_size > 0
  /\ NeedsGrowth
  /\ num_tunnels' = num_tunnels + 1
  /\ UNCHANGED <<tunnels, alloc_size, block>>

\* tunnel_delete() of a tunnel that accepts new senders may never return: it may
\* have two taps by now, which it frees twice, or a worker that waits for a lock
\* that was cancelled with its holder (see Shutdown).
MayNotDelete(p) == p["allowed_remote_hosts"] # Unset

\* tunnel_delete() of every pointer below num_tunnels, then of the list.  One that
\* was never stored is NULL, which tunnel_delete() ignores, only by accident, and
\* cannot even be read where there is no memory.
tunnel_list_delete ==
  /\ phase = "fail"
  /\ \/ /\ num_tunnels <= block
        /\ phase' = "exit"
        /\ tunnels' = <<>>
        /\ num_tunnels' = 0 /\ alloc_size' = 0 /\ block' = 0
     \/ /\ num_tunnels > Len(tunnels) \/ \E i \in DOMAIN tunnels : MayNotDelete(tunnels[i].params)
        /\ phase' \in {"crash", "hang"}
        /\ UNCHANGED listVars
  /\ UNCHANGED <<file, parseVars>>

-----------------------------------------------------------------------------
(* config_parse_event()                                                    *)

KeyEvent(k, v) ==
  /\ Read(KeyLine(k, v))
  /\ params' = [params EXCEPT ![k] = v]
  /\ seen_values' = TRUE
  /\ UNCHANGED <<phase, tunnel_name, listVars>>

\* A section header, or the end of the file (Unset).
SectionOrEnd(s) ==
  IF s = Unset THEN phase = "read" /\ UNCHANGED file ELSE Read(HeaderLine(s))

\* What is left to do after the commit: a new section, or main() goes on and
\* waits for the tunnels, if there are any.
Proceed(s) ==
  /\ tunnel_name' = s
  /\ phase' = IF s # Unset THEN "read"
              ELSE IF alloc_size = 0 THEN "crash"
              ELSE IF num_tunnels' = 0 THEN "exit" ELSE "join"

NothingToCommit(s) ==
  /\ SectionOrEnd(s)
  /\ ~seen_values
  /\ UNCHANGED <<params, seen_values, listVars>>
  /\ Proceed(s)

\* Mutant: reset_tunnel_params() forgets the allowed hosts.
ResetButHosts == params' = [params EXCEPT !["bind_iface"] = Unset, !["default_endpoint"] = Unset]

reset_tunnel_params == params' = NoParams

Commit(s) ==
  /\ SectionOrEnd(s)
  /\ seen_values
  /\ ~Faults /\ ~Refuses
  /\ \E t \in Created : tunnel_list_add(t)
  /\ reset_tunnel_params
  /\ Proceed(s)
  /\ UNCHANGED seen_values

\* tunnel_create() returns NULL, main() deletes the list and returns 1.  Its first
\* allocations may fail before bind_iface is looked at.
CommitRefused(s) ==
  /\ SectionOrEnd(s)
  /\ seen_values
  /\ (params["bind_iface"] # Unset /\ Refuses) \/ SysMayFail
  /\ reset_tunnel_params
  /\ phase' = "fail"
  /\ UNCHANGED <<tunnel_name, seen_values, listVars>>

\* The process dies in tunnel_create(), in its use of t->workers after a failed
\* pthread_create(), or in tunnel_list_add() on a list that could not be created.
CommitCrashes(s) ==
  /\ SectionOrEnd(s)
  /\ seen_values
  /\ Faults \/ SysMayFail
  /\ phase' = "crash"
  /\ UNCHANGED <<parseVars, listVars>>

\* tunnel_list_add() fails: the new tunnel is deleted, then the list.
CommitNoRoom(s) ==
  /\ SectionOrEnd(s)
  /\ seen_values
  /\ ~Faults /\ ~Refuses
  /\ ListAddFails
  /\ reset_tunnel_params
  /\ phase' \in {"fail"} \cup (IF MayNotDelete(params) THEN {"crash", "hang"} ELSE {})
  /\ UNCHANGED <<tunnel_name, seen_values>>

\* A line that is no header, key or blank, an unknown key, or a default_endpoint
\* without a colon; or a file that cannot be opened.
BadLine ==
  /\ phase = "read"
  /\ Len(file) < MaxLines
  /\ phase' = "fail"
  /\ UNCHANGED <<file, parseVars, listVars>>

-----------------------------------------------------------------------------
Init ==
  /\ phase = "read"
  /\ file = <<>>
  /\ tunnel_name = Unset
  /\ params = NoParams
  /\ seen_values = FALSE
  /\ tunnels = <<>>
  /\ num_tunnels = 0
  /\ alloc_size \in IF SysMayFail THEN {0, 1} ELSE {1}
  /\ block = 0

Next ==
  \/ \E k \in Key : \E v \in Value(k) : KeyEvent(k, v)
  \/ \E s \in Section \cup {Unset} :
       NothingToCommit(s) \/ Commit(s) \/ CommitRefused(s) \/ CommitCrashes(s) \/ CommitNoRoom(s)
  \/ BadLine
  \/ tunnel_list_delete

Spec == Init /\ [][Next]_vars

-----------------------------------------------------------------------------
TypeOK ==
  /\ phase \in {"read", "join", "fail", "exit", "crash", "hang"}
  /\ tunnel_name \in Section \cup {Unset}
  /\ \A k \in Key : params[k] \in Value(k) \cup {Unset}
  /\ seen_values \in BOOLEAN
  /\ \A i \in DOMAIN tunnels : tunnels[i].name \in Section \cup {"default"}
  /\ num_tunnels \in Nat /\ alloc_size \in Nat /\ block \in 0..alloc_size

(* What the file says, read as a whole: section i of it starts at header i *)
(* (0: before the first), and the last line for a key counts.              *)
Headers == {0} \cup {i \in DOMAIN file : file[i].kind = "section"}

Body(h) == {i \in DOMAIN file : i > h /\ \A j \in Headers : j > h => i < j}

\* The value of key k in the section of header h.
ValueOf(h, k) ==
  LET lines == {i \in Body(h) : file[i].key = k}
  IN  IF lines = {} THEN Unset ELSE file[CHOOSE i \in lines : \A j \in lines : j <= i].value

Written(h) ==
  [name |-> IF h = 0 THEN "default" ELSE file[h].key,
   params |-> [k \in Key |-> ValueOf(h, k)]]

KeyedHeaders == {h \in Headers : Body(h) # {}}

\* The list holds one tunnel for each header of H, in the order of the file.
ListIs(H) ==
  \E order \in [DOMAIN tunnels -> H] :
    /\ \A i, j \in DOMAIN tunnels : i < j => order[i] < order[j]
    /\ \A h \in H : \E i \in DOMAIN tunnels : order[i] = h
    /\ \A i \in DOMAIN tunnels :
         [name |-> tunnels[i].name, params |-> tunnels[i].params] = Written(order[i])

(* When main() starts to wait, there is one tunnel for each section that   *)
(* has keys, in the order of the file, with its own values and no other's: *)
(* nothing is carried over from the section before, although seen_values   *)
(* stays set and one params serves all sections.                           *)
StartsAsWritten == phase = "join" => ListIs(KeyedHeaders)

(* While lines are read and tunnels run, num_tunnels - the count by which  *)
(* the list is walked and deleted - is that of the tunnels stored, and all *)
(* of them lie in the memory realloc() last returned, although the list    *)
(* starts with room for one and no memory.  A growth that fails leaves the *)
(* count one too high for the deletion that follows; the slot too many is  *)
(* then inside the memory, but never written, unless it is the very first  *)
(* growth that failed: the program cannot exit from there.                 *)
ListFits ==
  /\ Len(tunnels) <= block
  /\ phase \in {"read", "join", "exit"} => num_tunnels = Len(tunnels)
  /\ num_tunnels > block => num_tunnels = 1 /\ block = 0

(* No sender of a network that was written in IPv6 with a one bit in it is *)
(* locked out: the mask goes through two byte swaps and an exchange of     *)
(* halves.  A network without a one bit, as ::/0, is none of these: the    *)
(* match asks for a one bit under the mask, so none of it gets in (unless  *)
(* a prefix of 0, an undefined shift, comes out as the full mask).         *)
AllowListCovers ==
  phase = "join" => \A i \in DOMAIN tunnels :
    tunnels[i].params["allowed_remote_hosts"] # Unset =>
      \A e \in DOMAIN tunnels[i].params["allowed_remote_hosts"], p \in Peer :
        LET entry == tunnels[i].params["allowed_remote_hosts"][e] IN
        entry.v6 /\ entry.net \cap NetworkBits(entry) # {} /\ InNetwork(entry, p)
          => ip_addr_cidr_list_match(tunnels[i].allowed_addr_list, p)

(* README.md:88: "A comma separated list of allowed remote hosts", each "a *)
(* single IP address, a CIDR network": a tunnel lets in whom its list      *)
(* names.                                                                  *)
AllowsAsWritten ==
  phase = "join" => \A i \in DOMAIN tunnels :
    tunnels[i].params["allowed_remote_hosts"] # Unset =>
      \A p \in Peer :
        ip_addr_cidr_list_match(tunnels[i].allowed_addr_list, p)
          <=> \E e \in DOMAIN tunnels[i].params["allowed_remote_hosts"] :
                InNetwork(tunnels[i].params["allowed_remote_hosts"][e], p)
=============================================================================

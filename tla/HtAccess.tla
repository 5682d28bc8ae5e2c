------------------------------- MODULE HtAccess -------------------------------
(***************************************************************************)
(* The access rules of an .htaccess file (htaccess.cpp): their text, lines *)
(* "allow from <host>" and "deny from <host>" where a host is a CIDR block *)
(* or a name, and what they say of a client's address.                     *)
(*                                                                         *)
(* An address is the set of its one bits among 1..AddressBits, 1 the most  *)
(* significant.  A lookup of a name depends on the network, and a shift by *)
(* more bits than there are is undefined: env has the outcome of both.     *)
(***************************************************************************)
EXTENDS Strings, Integers

CONSTANTS
  AddressBits,          \* BITS_IN_ADDRESS
  IpOf,                 \* inet_pton: the address of each text that is one
  LengthOf              \* stoi: the number of each text that is one

Address == SUBSET (1..AddressBits)

\* No address and no name has a slash; a name may have no address.
NoSlashIn(text) == "/" \notin Range(text)
IsEnv(env) ==
  \A name \in DOMAIN env.dns : NoSlashIn(name) /\ env.dns[name] \in Seq(Address)

ASSUME HtAccessAssumption ==
  /\ AddressBits \in Nat \ {0}
  /\ \A text \in DOMAIN IpOf : IpOf[text] \in Address /\ NoSlashIn(text)
  /\ \A text \in DOMAIN LengthOf : LengthOf[text] \in Int

-----------------------------------------------------------------------------
(* CIDR blocks.                                                            *)

Block(prefix, length) == [prefix |-> prefix, length |-> length]
HtAccessRule(pattern, allow) == [pattern |-> pattern, allow |-> allow]

\* Shifting by more than the width leaves nothing, or wraps as on x86.
MakeMask(length, env) ==
  CASE length = 0 -> {}
    [] length \in 1..AddressBits -> 1..length
    [] OTHER -> IF env.wraps
                THEN 1..(AddressBits - ((AddressBits - length) % AddressBits)) ELSE {}

\* The constructor throws for a prefix with bits outside the mask.
IsCidrBlock(prefix, length, env) == prefix \cap MakeMask(length, env) = prefix

Matches(block, address, env) == block.prefix = address \cap MakeMask(block.length, env)

-----------------------------------------------------------------------------
(* Parsing.                                                                *)

\* NetworkDnsClient::lookup; the empty sequence is its failure.
Lookup(host, env) ==
  LET name == CString(host)
  IN IF name \in DOMAIN IpOf THEN <<IpOf[name]>>
     ELSE IF name \in DOMAIN env.dns THEN env.dns[name] ELSE <<>>

\* What parse_cidr throws: nothing, a runtime_error, or what stoi throws.
CidrError(parts, env) ==
  IF Len(parts) # 2 \/ CString(parts[1]) \notin DOMAIN IpOf THEN "runtime_error"
  ELSE IF parts[2] \notin DOMAIN LengthOf THEN "invalid_argument"
  ELSE IF IsCidrBlock(IpOf[CString(parts[1])], LengthOf[parts[2]], env) THEN "none"
  ELSE "runtime_error"

\* parse_cidr_or_domain: the blocks of a host, none if it throws.
Blocks(host, env) ==
  LET parts == Split(host, Slash)
      ips == Lookup(host, env)
  IN CASE CidrError(parts, env) = "none" -> <<Block(IpOf[CString(parts[1])], LengthOf[parts[2]])>>
       [] CidrError(parts, env) = "invalid_argument" -> <<>>
       [] OTHER -> [k \in DOMAIN ips |-> Block(ips[k], AddressBits)]

\* The rules of one line, none if it throws.
LineRules(line, env) ==
  LET components == Split(line, <<" from ">>)
  IN IF Len(components) # 2 \/ components[1] \notin {<<"allow">>, <<"deny">>} THEN <<>>
     ELSE LET blocks == Blocks(components[2], env)
          IN [k \in DOMAIN blocks |-> HtAccessRule(blocks[k], components[1] = <<"allow">>)]

ParseRules(text, env) ==
  LET lines == Split(text, <<"\n">>)
      rules == [k \in DOMAIN lines |->
                  IF lines[k] = <<>> THEN <<>> ELSE LineRules(lines[k], env)]
  IN [throws |-> \E k \in DOMAIN lines : lines[k] # <<>> /\ rules[k] = <<>>,
      rules |-> FlattenSeq(rules)]

\* Wrong on purpose: the last rule that matches decides.
AllowsLast(rules, address, env) ==
  LET last == SelectLastInSeq(rules, LAMBDA rule : Matches(rule.pattern, address, env))
  IN last = 0 \/ rules[last].allow

\* HtAccess::allows.
Allows(rules, address, env) ==
  LET first == SelectInSeq(rules, LAMBDA rule : Matches(rule.pattern, address, env))
  IN first = 0 \/ rules[first].allow

\* What becomes of a request: parse_htaccess_rules(text).allows(address).
Verdict(text, address, env) ==
  LET parsed == ParseRules(text, env)
  IN IF parsed.throws THEN "throws"
     ELSE IF Allows(parsed.rules, address, env) THEN "allow" ELSE "deny"

-----------------------------------------------------------------------------
(* Reference: rules are read line by line, and the first line that speaks  *)
(* of the address decides.                                                 *)

\* The addresses a host means: those that begin with the bits of a prefix, or
\* those its name has; none if it means nothing.
HostAddresses(host, env) ==
  LET slash == Nth({k \in DOMAIN host : host[k] = "/"}, 1)
      prefix == IpOf[SubSeq(host, 1, slash - 1)]
      length == LengthOf[SubSeq(host, slash + 1, Len(host))]
      IsBlock == /\ Cardinality({k \in DOMAIN host : host[k] = "/"}) = 1
                 /\ SubSeq(host, 1, slash - 1) \in DOMAIN IpOf
                 /\ SubSeq(host, slash + 1, Len(host)) \in DOMAIN LengthOf
                 /\ \A bit \in prefix : bit <= length
  IN IF IsBlock THEN {a \in Address : \A bit \in 1..length : bit \in a <=> bit \in prefix}
     ELSE Range(Lookup(host, env))

IsRule(line, env) ==
  /\ Len(line) >= 2 /\ line[1] \in {"allow", "deny"}
  /\ \A k \in DOMAIN line : line[k] = " from " <=> k = 2
  /\ HostAddresses(SubSeq(line, 3, Len(line)), env) # {}

\* The lengths of every block that the text names are lengths of prefixes.
LengthsInRange(text) ==
  \A k \in DOMAIN text : \A end \in k..Len(text) :
    LET number == SubSeq(text, k + 1, end)
    IN text[k] = "/" /\ number \in DOMAIN LengthOf => LengthOf[number] \in 0..AddressBits

ReferenceVerdict(text, address, env) ==
  LET lines == Pieces(text, "\n")
      applies == {k \in DOMAIN lines :
                    lines[k] # <<>> /\ address \in HostAddresses(SubSeq(lines[k], 3, Len(lines[k])), env)}
  IN IF \E k \in DOMAIN lines : lines[k] # <<>> /\ ~IsRule(lines[k], env) THEN "throws"
     ELSE IF applies = {} THEN "allow"
     ELSE lines[Min(applies)][1]
=============================================================================

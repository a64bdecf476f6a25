-------------------------------- MODULE KeyVal --------------------------------
(***************************************************************************)
(* From a line of the configuration file to the array of its values:       *)
(* keyval.c splits "key = value, value", keyval2valstr() joins the values  *)
(* into the string the configuration keeps, and str2arr() and              *)
(* arrcollapse() of util.c split that string when it is used.              *)
(*                                                                         *)
(* A string is a sequence of characters, without its NUL.  A character     *)
(* that plays no part of its own is a letter, " " is whatever isspace()    *)
(* accepts and "," whatever isdelim() does.  A pointer list is a function  *)
(* on the slots that were allocated; the strings lie behind it one after   *)
(* the other, and used counts the bytes that were written there.           *)
(***************************************************************************)
EXTENDS Integers, Sequences, FiniteSetsExt

CONSTANTS
  Letters,   \* characters without a meaning
  MaxLength, \* of a line (a bound)
  Null,      \* the null pointer
  Garbage    \* what malloc() leaves in a slot

Char == {"\\", "#", "=", ",", " "} \cup Letters
Lines == UNION {[1..n -> Char] : n \in 0..MaxLength}

ASSUME KeyValAssumption ==
  MaxLength \in Nat /\ Null # Garbage /\ Null \notin Seq(Char)

VARIABLES
  line,     \* the argument of keyval_create(), then what is left of it
  pc,
  kv,       \* the pointer list and its strings
  f_delim,  \* the next slot
  valptr,   \* where the next value begins
  used,     \* bytes written behind the pointer list
  room,     \* bytes allocated there
  list,     \* the string of keyval2valstr()
  array,    \* the pointer list of str2arr()
  index,    \* valueidx and writeidx of the loops that close gaps
  given     \* the line as it was given (history)

buffer == <<kv, f_delim, valptr, used, room>>
lists == <<list, array>>
vars == <<line, pc, buffer, lists, index, given>>

-----------------------------------------------------------------------------
\* The k-th member of a set of numbers.
Nth(S, k) == CHOOSE x \in S : Cardinality({y \in S : y <= x}) = k

(***************************************************************************)
(* The flag every loop of keyval.c keeps, after i characters of s.         *)
(***************************************************************************)
f_escape(s) ==
  LET flag[i \in 0..Len(s)] == i > 0 /\ s[i] = "\\" /\ ~flag[i - 1]
  IN  flag
\* The places of character c in s where it has its meaning.
Active(s, c) == LET flag == f_escape(s)
                IN  {i \in DOMAIN s : s[i] = c /\ ~flag[i - 1]}

\* Faulty variant: a comment begins at any '#'.
AnyComment(s) == LET hash == {i \in DOMAIN s : s[i] = "#"}
                 IN  IF hash = {} THEN s ELSE SubSeq(s, 1, Min(hash) - 1)
Uncommented(s) ==
  LET hash == Active(s, "#")
  IN  IF hash = {} THEN s ELSE SubSeq(s, 1, Min(hash) - 1)

\* Characters from..to of s without the blanks around them, escaped or not.
Trimmed(s, from, to) ==
  LET text == {i \in from..to : s[i] # " "}
  IN  IF text = {} THEN <<>> ELSE SubSeq(s, Min(text), Max(text))

\* A string of __sanitize_values(): without the escapes that escape something
\* and without one at the end.
Kept(s) == LET flag == f_escape(s)
           IN  {i \in DOMAIN s : s[i] # "\\" \/ flag[i - 1]}
Sanitized(s) == LET kept == Kept(s)
                IN  [k \in 1..Cardinality(kept) |-> s[Nth(kept, k)]]

\* Delimiters and the end of the line, in the part behind the '='.
Ends(s) ==
  {i \in Active(s, ",") : i >= valptr} \cup
  (IF f_escape(s)[Len(s)] THEN {} ELSE {Len(s) + 1})

\* for (n = 0; kv[n]; n++)
Count(k) == Min({n \in DOMAIN k : k[n] = Null})
keyval_nvalues == Count(kv) - 1

\* __2str() without its NUL: the strings from slot from, a ',' between them.
Joined(k, from) ==
  LET text[i \in (from - 1)..Count(k)] ==
        IF i < from \/ i = Count(k) THEN <<>>
        ELSE IF i = from THEN k[i] ELSE text[i - 1] \o <<",">> \o k[i]
  IN  text[Count(k) - 1]
Strings(k) == [i \in 0..Count(k) - 1 |-> k[i]]

-----------------------------------------------------------------------------
Empty == [i \in {} |-> Garbage]
Init ==
  /\ line \in Lines
  /\ pc = "comments"
  /\ kv = Empty
  /\ f_delim = 0 /\ valptr = 0 /\ used = 0 /\ room = 0
  /\ list = Null /\ array = Empty
  /\ index = <<0, 0>>
  /\ given = line

RemoveComments ==
  /\ pc = "comments"
  /\ line' = Uncommented(line)
  /\ pc' = "scan"
  /\ UNCHANGED <<buffer, lists, index, given>>

\* Not exactly one '=': the line is ignored.
NoKey ==
  /\ pc = "scan"
  /\ Cardinality(Active(line, "=")) # 1
  /\ pc' = "ignored"
  /\ UNCHANGED <<line, buffer, lists, index, given>>
\* Faulty variant: as many slots for values as delimiters.
SlotsPerDelimiter ==
  /\ pc = "scan"
  /\ \E e \in Active(line, "=") :
       /\ Active(line, "=") = {e}
       /\ kv' = [i \in 0..Cardinality(Active(line, ",")) + 1 |->
                   IF i = 0 THEN Trimmed(line, 1, e - 1) ELSE Garbage]
       /\ valptr' = e + 1
  /\ f_delim' = 1
  /\ used' = Len(kv'[0]) + 1
  /\ room' = Len(line) + 1
  /\ pc' = "values"
  /\ UNCHANGED <<line, lists, index, given>>
\* The list has slots for the key, for one value more than there are delimiters
\* in the line, and for the null pointer.
StoreKey ==
  /\ pc = "scan"
  /\ \E e \in Active(line, "=") :
       /\ Active(line, "=") = {e}
       /\ kv' = [i \in 0..Cardinality(Active(line, ",")) + 2 |->
                   IF i = 0 THEN Trimmed(line, 1, e - 1) ELSE Garbage]
       /\ valptr' = e + 1
  /\ f_delim' = 1
  /\ used' = Len(kv'[0]) + 1
  /\ room' = Len(line) + 1
  /\ pc' = "values"
  /\ UNCHANGED <<line, lists, index, given>>
StoreValue ==
  /\ pc = "values"
  /\ valptr <= Len(line) + 1
  /\ Ends(line) # {}
  /\ LET end == Min(Ends(line)) IN
       /\ kv' = [kv EXCEPT ![f_delim] = Trimmed(line, valptr, end - 1)]
       /\ valptr' = end + 1
  /\ used' = used + Len(kv'[f_delim]) + 1
  /\ f_delim' = f_delim + 1
  /\ UNCHANGED <<line, pc, room, lists, index, given>>
EndValues ==
  /\ pc = "values"
  /\ valptr > Len(line) + 1 \/ Ends(line) = {}
  /\ kv' = [kv EXCEPT ![f_delim] = Null]
  /\ f_delim' = f_delim + 1
  /\ pc' = "sanitize"
  /\ UNCHANGED <<line, valptr, used, room, lists, index, given>>

\* __sanitize_values(): in place, so that every string stays where it is.
Sanitize ==
  /\ pc = "sanitize"
  /\ kv' = [i \in DOMAIN kv |-> IF i < Count(kv) THEN Sanitized(kv[i]) ELSE kv[i]]
  /\ pc' = "parsed"
  /\ UNCHANGED <<line, f_delim, valptr, used, room, lists, index, given>>

-----------------------------------------------------------------------------
\* Every string moves down a slot, the null pointer does not.
keyval2array ==
  /\ pc = "parsed"
  /\ kv' = [i \in DOMAIN kv |-> IF i + 1 < Count(kv) THEN kv[i + 1] ELSE kv[i]]
  /\ pc' = "shifted"
  /\ UNCHANGED <<line, f_delim, valptr, used, room, lists, index, given>>

(***************************************************************************)
(* What config.c does with the list of a schedule or of hosts.             *)
(***************************************************************************)
UseList ==
  /\ pc = "parsed"
  /\ index' = <<1, 1>>
  /\ pc' = "remove"
  /\ UNCHANGED <<line, buffer, lists, given>>

\* Faulty variant: the slot a value is moved from keeps it.
MovedCopy(k, v, w) ==
  IF k[v] = <<>> THEN [k EXCEPT ![v] = Null]
  ELSE IF v = w THEN k ELSE [k EXCEPT ![w] = k[v]]
\* One turn of the loop on k at v = valueidx and w = writeidx.
Moved(k, v, w) ==
  IF k[v] = <<>> THEN [k EXCEPT ![v] = Null]
  ELSE IF v = w THEN k ELSE [k EXCEPT ![w] = k[v], ![v] = Null]
After(k, v, w) == <<v + 1, IF k[v] = <<>> THEN w ELSE w + 1>>
keyval_remove_empty_values ==
  /\ pc = "remove"
  /\ kv[index[1]] # Null
  /\ kv' = Moved(kv, index[1], index[2])
  /\ index' = After(kv, index[1], index[2])
  /\ UNCHANGED <<line, pc, f_delim, valptr, used, room, lists, given>>
\* No value is left: the entry is as good as absent.
NoValues ==
  /\ pc = "remove"
  /\ kv[index[1]] = Null
  /\ keyval_nvalues = 0
  /\ pc' = "absent"
  /\ UNCHANGED <<line, buffer, lists, index, given>>
keyval2valstr ==
  /\ pc = "remove"
  /\ kv[index[1]] = Null
  /\ keyval_nvalues > 0
  /\ list' = Joined(kv, 1)
  /\ pc' = "list"
  /\ UNCHANGED <<line, buffer, array, index, given>>

(***************************************************************************)
(* str2arr() knows no escapes; arrcollapse() is called by event.c.         *)
(***************************************************************************)
Cuts(s) == {i \in DOMAIN s : s[i] = ","} \cup {0, Len(s) + 1}
\* Faulty variant: malloc() instead of calloc().
UnclearedArray ==
  /\ pc = "list"
  /\ LET cuts == Cuts(list)
         n == Cardinality(cuts) - 1
     IN  array' = [i \in 0..n |-> IF i = n THEN Garbage
                     ELSE Trimmed(list, Nth(cuts, i + 1) + 1, Nth(cuts, i + 2) - 1)]
  /\ index' = <<0, 0>>
  /\ pc' = "collapse"
  /\ UNCHANGED <<line, buffer, list, given>>
str2arr ==
  /\ pc = "list"
  /\ LET cuts == Cuts(list)
         n == Cardinality(cuts) - 1
     IN  array' = [i \in 0..n |-> IF i = n THEN Null
                     ELSE Trimmed(list, Nth(cuts, i + 1) + 1, Nth(cuts, i + 2) - 1)]
  /\ index' = <<0, 0>>
  /\ pc' = "collapse"
  /\ UNCHANGED <<line, buffer, list, given>>
arrcollapse ==
  /\ pc = "collapse"
  /\ array[index[1]] # Null
  /\ array' = Moved(array, index[1], index[2])
  /\ index' = After(array, index[1], index[2])
  /\ UNCHANGED <<line, pc, buffer, list, given>>
Collapsed ==
  /\ pc = "collapse"
  /\ array[index[1]] = Null
  /\ pc' = "array"
  /\ UNCHANGED <<line, buffer, lists, index, given>>

Next ==
  \/ RemoveComments \/ NoKey \/ StoreKey \/ StoreValue \/ EndValues \/ Sanitize
  \/ keyval2array
  \/ UseList \/ keyval_remove_empty_values \/ NoValues \/ keyval2valstr
  \/ str2arr \/ arrcollapse \/ Collapsed

Spec == Init /\ [][Next]_vars

-----------------------------------------------------------------------------
(***************************************************************************)
(* The rules of keyval.c:4-23, one token at a time: an escape makes the    *)
(* next character a letter.                                                *)
(***************************************************************************)
Token(c, q) == [char |-> c, escaped |-> q]
Tokens(s) ==
  LET from[i \in 1..Len(s) + 2] ==
        IF i > Len(s) THEN <<>>
        ELSE IF s[i] # "\\" THEN <<Token(s[i], FALSE)>> \o from[i + 1]
        ELSE IF i = Len(s) THEN <<>>
        ELSE <<Token(s[i + 1], TRUE)>> \o from[i + 2]
  IN  from[1]
Where(t, c) == {i \in DOMAIN t : t[i] = Token(c, FALSE)}
Rule2(t) == SubSeq(t, 1, Min(Where(t, "#") \cup {Len(t) + 1}) - 1)
Rule6(t, from, to) ==
  LET text == {i \in from..to : t[i] # Token(" ", FALSE)}
  IN  IF text = {} THEN <<>> ELSE SubSeq(t, Min(text), Max(text))
Chars(t) == [i \in DOMAIN t |-> t[i].char]

\* Key and values, as tokens.
ByTheRules(s) ==
  LET t == Rule2(Tokens(s))
      equalsign == Min(Where(t, "="))
      ends == {i \in Where(t, ",") \cup {Len(t) + 1} : i > equalsign}
      cuts == {equalsign} \cup ends
  IN  [i \in 0..Cardinality(ends) |->
         IF i = 0 THEN Rule6(t, 1, equalsign - 1)
         ELSE Rule6(t, Nth(cuts, i) + 1, Nth(cuts, i + 1) - 1)]

\* The line ends in an escape of nothing.
Unfinished(s) == f_escape(Uncommented(s))[Len(Uncommented(s))]
EndsInBlank(t) == t # <<>> /\ t[Len(t)] = Token(" ", TRUE)

Plain(string) ==
  /\ \A i \in DOMAIN string : string[i] \notin {"\\", "#", "=", ","}
  /\ string # <<>> => string[1] # " " /\ string[Len(string)] # " "

-----------------------------------------------------------------------------
Slots == {Null} \cup Seq(Char)
\* Every variable keeps its range.
TypeOK ==
  /\ line \in Seq(Char) /\ given \in Seq(Char)
  /\ pc \in {"comments", "scan", "ignored", "values", "sanitize", "parsed",
             "shifted", "remove", "absent", "list", "collapse", "array"}
  /\ \A i \in DOMAIN kv : kv[i] \in Slots \cup {Garbage}
  /\ \A i \in DOMAIN array : array[i] \in Slots
  /\ {f_delim, valptr, used, room, index[1], index[2]} \subseteq Nat
  /\ list \in Slots

\* The pointers fit the list that was sized by counting delimiters in the whole
\* line, the strings fit the room behind it, and every loop that runs to the
\* null pointer meets one in a slot that was written (keyval.c:282-293), as
\* the f_delim first were.
InBounds ==
  /\ f_delim <= Cardinality(DOMAIN kv)
  /\ used <= room
  /\ pc \in {"sanitize", "parsed", "shifted", "remove", "list"} =>
       /\ \E n \in DOMAIN kv : kv[n] = Null
       /\ Count(kv) < f_delim

\* keyval.c:4-23 RULE 1 to 6: a line with one '=' that is not escaped gives its
\* key and all its values, without comment, blanks around them and escapes.
\* The code departs from the rules in a value that ends in an escaped blank,
\* which is trimmed all the same, and in a line that ends in a lone escape,
\* whose last value is lost.
MatchesRules ==
  /\ pc = "ignored" <=> pc \notin {"comments", "scan"} /\
       Cardinality(Where(Rule2(Tokens(given)), "=")) # 1
  /\ pc = "parsed" /\ ~Unfinished(given) =>
       LET rules == ByTheRules(given)
       IN  /\ keyval_nvalues = Cardinality(DOMAIN rules) - 1
           /\ \A i \in DOMAIN rules :
                ~EndsInBlank(rules[i]) => kv[i] = Chars(rules[i])

\* What the daemon works with in the end are the values of the line that are not
\* empty, in their order, unless one of them needed an escape: the list of
\* keyval2valstr() has none.
ListSurvives ==
  LET values == ByTheRules(given)
      wanted == {i \in DOMAIN values \ {0} : values[i] # <<>>}
  IN  /\ pc = "array" /\ ~Unfinished(given)
      /\ \A i \in wanted : Plain(Chars(values[i]))
      => Strings(array) =
           [i \in 0..Cardinality(wanted) - 1 |-> Chars(values[Nth(wanted, i + 1)])]

=============================================================================

-------------------------- MODULE HttpHandleRequest --------------------------
(***************************************************************************)
(* HttpHandleRequest: which file a request is answered with.               *)
(*                                                                         *)
(* A target is a sequence of tokens: the separators "/", "?" and "#", the  *)
(* dot ".", and pieces of names, with a dot inside ("js") or without       *)
(* ("name").  front() of an empty path is its terminating zero; back() is  *)
(* undefined, and reads the byte before the buffer, which the builds with  *)
(* libstdc++ find to be zero: the high byte of a size.                     *)
(***************************************************************************)
EXTENDS Naturals, Sequences, FiniteSets

CONSTANTS
  MaxTarget,   \* bound on the tokens of a target
  Disk         \* the paths under html/ that can be opened, to "file" or "directory"

VARIABLES
  target,      \* of the request
  answer       \* what handle_request has sent, or NoAnswer

handlerVars == <<target, answer>>

Tokens == {"/", "?", "#", ".", "name", "js"}

Targets == UNION {[1..n -> Tokens] : n \in 0..MaxTarget}

Places(s, c) == {i \in DOMAIN s : s[i] = c}

(* Fault: the character that is found stays.                               *)
CutKeepsIt(s, c) ==
  IF Places(s, c) = {} THEN s
  ELSE SubSeq(s, 1, CHOOSE i \in Places(s, c) : \A j \in Places(s, c) : j <= i)

(* substr up to rfind(c)                                                   *)
Cut(s, c) ==
  IF Places(s, c) = {} THEN s
  ELSE SubSeq(s, 1, (CHOOSE i \in Places(s, c) : \A j \in Places(s, c) : j <= i) - 1)

StripFront(s) == IF s # <<>> /\ s[1] = "/" THEN Tail(s) ELSE s

StripBack(s) == IF s # <<>> /\ s[Len(s)] = "/" THEN SubSeq(s, 1, Len(s) - 1) ELSE s

PathStripped(t) == StripBack(StripFront(Cut(Cut(t, "?"), "#")))

(* pathv_, of which only the size and the last part matter: split takes    *)
(* adjacent slashes for one, but leaves an empty part before the first and *)
(* after the last.                                                         *)
PathvSize(s) ==
  IF s = <<>> THEN 0
  ELSE 1 + Cardinality({i \in Places(s, "/") : i = 1 \/ s[i - 1] # "/"})

PathvBack(s) == {s[i] : i \in {k \in DOMAIN s : \A j \in Places(s, "/") : j < k}}

HasDot(parts) == parts \cap {".", "js"} # {}

(* Fault: the root is not denied.                                          *)
IsFileAny(s) == PathvSize(s) > 0 /\ HasDot(PathvBack(s))

IsFile(s) == PathvSize(s) > 1 /\ HasDot(PathvBack(s))

(* The path below html/ that is opened.                                    *)
FileName(t) == IF IsFile(PathStripped(t)) THEN PathStripped(t) ELSE <<"index.html">>

(* "." as a whole component is the directory it is in.                     *)
DotPart(s, i) ==
  /\ s[i] = "."
  /\ i > 1 => s[i - 1] = "/"
  /\ i < Len(s) => s[i + 1] = "/"

Named(s) == {i \in DOMAIN s : s[i] # "/" /\ ~DotPart(s, i)}

(* The system takes adjacent slashes for one, leaves "." out, and html/    *)
(* ends with a slash.                                                      *)
Kept(s) ==
  Named(s) \cup {i \in Places(s, "/") : i + 1 \in Named(s) /\ \E j \in Named(s) : j < i}

Opened(path) ==
  LET nth(k) == CHOOSE i \in Kept(path) : Cardinality({j \in Kept(path) : j <= i}) = k
  IN  [k \in 1..Cardinality(Kept(path)) |-> path[nth(k)]]

HasDots(t) == \E i \in DOMAIN t : i > 1 /\ t[i] = "." /\ t[i - 1] = "."

(* Of a file there is no "." to open; a directory can be opened, but not   *)
(* read: resize() throws.                                                  *)
Status(get, t) ==
  LET path == FileName(t)
      file == Opened(path)
  IN  IF ~get \/ HasDots(t) THEN "bad_request"
      ELSE IF file \notin DOMAIN Disk THEN "not_found"
      ELSE IF Disk[file] = "directory" THEN "exception"
      ELSE IF DotPart(path, Len(path)) THEN "not_found"
      ELSE "ok"

(* handle_request: the status that is sent, always once, and the file.     *)
Answer(get, t) ==
  CASE Status(get, t) = "ok"        -> [status |-> "ok", file |-> Opened(FileName(t))]
    [] Status(get, t) = "exception" -> [status |-> "internal_server_error", file |-> <<>>]
    [] OTHER                        -> [status |-> Status(get, t), file |-> <<>>]

NoAnswer == [status |-> "none", file |-> <<>>]

HandlerInit == target \in Targets /\ answer = NoAnswer

(* A GET request, or one of another method.                                *)
HandleRequest ==
  /\ answer = NoAnswer
  /\ \E get \in BOOLEAN : answer' = Answer(get, target)
  /\ UNCHANGED target

-----------------------------------------------------------------------------
(* Properties                                                              *)

(* What precedes the first "?" or "#".                                     *)
PathOf(t) ==
  SubSeq(t, 1, Cardinality({i \in DOMAIN t : \A j \in 1..i : t[j] \notin {"?", "#"}}))

(* However "?" and "#" are ordered, and whatever slashes the query has, it *)
(* does not change the file: if there is one of each at most.              *)
QueryIsIgnored ==
  answer.status \in {"none", "bad_request"}
    \/ Cardinality(Places(target, "?")) > 1 \/ Cardinality(Places(target, "#")) > 1
    \/ answer = Answer(TRUE, PathOf(target))

(* "deny root access": a file is only served from a directory, whatever   *)
(* the slashes and the query are, unless the path begins with two slashes, *)
(* or with "/./": the empty or "." part counts like a directory, so that   *)
(* //x.js and /./x.js serve a file of the root.                            *)
RootIsIndex ==
  /\ target # <<>> /\ target[1] = "/"
  /\ Len(target) > 1 => target[2] # "/"
  /\ Len(target) > 2 => target[2] # "." \/ target[3] # "/"
  => answer.file \in {<<>>, <<"index.html">>} \/ Places(answer.file, "/") # {}

=============================================================================

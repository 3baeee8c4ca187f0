------------------------------ MODULE Autolinks ------------------------------
(***************************************************************************)
(* The addresses that src/inline.rs finds in a text that has no markup     *)
(* around them, or only "<" and ">".  Each scanner tries the places where  *)
(* its key character stands, from left to right, and passes over the ones  *)
(* that fail a test; so a scanner is the set of the places that pass, with *)
(* the span that each gives.                                               *)
(***************************************************************************)
EXTENDS InlineText

Span(kind, from, to, cfrom, cto) ==
  [kind |-> kind, from |-> from, to |-> to, cfrom |-> cfrom, cto |-> cto]

\* A span that is found at the place p.
Found(p, span) == [at |-> p, span |-> span]

\* An address is its own label.
Address(from, to) == Span("AutoLink", from, to, from, to)

-----------------------------------------------------------------------------
(* Addresses in angle brackets.                                            *)

\* parse_uri_autolink_content, of s from p to before q.
IsUri(s, p, q) ==
  LET colon == SkipOver(s, p, Alphanumeric \cup {"+", "-", "."})
  IN  /\ p < q /\ s[p] \in Letters
      /\ colon < q /\ s[colon] = ":" /\ Size(s, p, colon) \in 2 .. 32

LocalCharacters ==
  Alphanumeric \cup {".", "!", "#", "$", "%", "apos", "*", "+", "/", "=", "?", "^", "_", "tick", "{",
                     "|", "}", "~", "-"}
DomainCharacters == Alphanumeric \cup {".", "-"}

\* parse_email_autolink_content.
IsEmail(s, p, q) ==
  LET sign == SkipTo(s, p, {"@"})
  IN  /\ p < sign /\ sign + 1 < q
      /\ \A k \in p .. sign - 1 : s[k] \in LocalCharacters
      /\ \A k \in sign + 1 .. q - 1 : s[k] \in DomainCharacters
      /\ \E k \in sign + 1 .. q - 1 : s[k] = "."

AngleLinks(s) ==
  LET end(p) == SkipTo(s, p + 1, {">", "<"} \cup Blanks)
  IN  { Found(p, Span("AutoLink", p, end(p) + 1, p + 1, end(p))) :
          p \in { p \in Places(s, 1, <<"<">>) :
                    Is(s, end(p), ">") /\ (IsUri(s, p + 1, end(p)) \/ IsEmail(s, p + 1, end(p))) } }

-----------------------------------------------------------------------------
(* Addresses without brackets.                                             *)

Trailing == {".", ",", ";", ":", "!", "?", "apos", "]"}

\* scan_url_end: up to a blank, a quote or a parenthesis the address did not
\* open, and without the punctuation before that.  p if nothing is left.
UrlEnd(s, p) ==
  LET stops == { k \in p .. Len(s) :
                   \/ s[k] \in Blanks \cup {"<", ">", "quote"}
                   \/ s[k] = ")" /\ Count(s, p, k, ")") > Count(s, p, k, "(") }
      stop  == Min(stops \cup {Len(s) + 1})
  IN  Min({ m \in p .. stop : \A k \in m .. stop - 1 : s[k] \in Trailing })

SchemeLinks(s) ==
  { Found(p, Address(p, UrlEnd(s, p + 4))) :
      p \in { p \in 1 .. Len(s) :
                /\ Reads(s, p, <<"http", ":", "/", "/">>) /\ ~ IsIn(s, p - 1, Alphanumeric)
                /\ UrlEnd(s, p + 4) > p + 4 } }

UrlBoundaries == Blanks \cup {"(", ")", "[", "]", "{", "}", "<", ">", "quote", "apos", ",", ";"}

\* The local part before the "@" at p, without leading dots.
LocalStart(s, p) == SkipOver(s, SkipBack(s, p, Alphanumeric \cup {".", "_", "%", "+", "-"}), {"."})

\* The domain behind it, without trailing dots and hyphens.
DomainEnd(s, p) == SkipBack(s, SkipOver(s, p + 1, DomainCharacters), {".", "-"})

IsDomain(s, p, q) ==
  LET dots == { k \in p .. q - 1 : s[k] = "." }
      tld  == SkipBack(s, q, Letters)
  IN  /\ p < q /\ s[p] \notin {"-", "."} /\ dots # {}
      /\ \A k \in dots : k + 1 \notin dots
      /\ s[tld - 1] = "." /\ Size(s, tld, q) >= 2

EmailLinks(s) ==
  { Found(p, Address(LocalStart(s, p), DomainEnd(s, p))) :
      p \in { p \in Places(s, 1, <<"@">>) :
                /\ LocalStart(s, p) < p /\ s[p - 1] # "."
                /\ LocalStart(s, p) > 1 => s[LocalStart(s, p) - 1] \in UrlBoundaries \cup {"."}
                /\ IsDomain(s, p + 1, DomainEnd(s, p)) } }

\* The words of COMMON_TLDS that the symbols spell.
CommonTlds == { <<"com">>, <<"r", "u">>, <<"a", "u">> }

\* The dot is at p.  Behind the top level domain a path may follow.
DomainLinks(s) ==
  LET start(p) == SkipBack(s, p, DomainCharacters)
      tld(p)   == SkipOver(s, p + 1, Alphanumeric)
      end(p)   == IF IsIn(s, tld(p), {"/", ":"}) THEN UrlEnd(s, tld(p)) ELSE tld(p)
  IN  { Found(p, Address(start(p), end(p))) :
          p \in { p \in 1 .. Len(s) :
                    /\ s[p] = "." /\ start(p) < p
                    /\ SubSeq(s, p + 1, tld(p) - 1) \in CommonTlds
                    /\ start(p) > 1 => s[start(p) - 1] \in UrlBoundaries } }

SubredditLinks(s) ==
  LET end(p) == SkipOver(s, p + 2, Alphanumeric \cup {"_"})
  IN  { Found(p, Address(p, end(p))) :
          p \in { p \in 1 .. Len(s) :
                    /\ Reads(s, p, <<"r", "/">>)
                    /\ p > 1 => s[p - 1] \in Blanks \cup {"object", "(", "[", "{", "<", "quote", "apos", ",",
                                                        ";", ":", "!", "?"}
                    /\ Size(s, p + 2, end(p)) \in 2 .. 21
                    /\ end(p) <= Len(s) =>
                         s[end(p)] \in Blanks \cup {"object", "/", ".", ",", ";", ":", "!", "?", ")", "]", "}",
                                                  ">", "quote", "apos"} } }
=============================================================================

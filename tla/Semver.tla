------------------------------- MODULE Semver -------------------------------
(* The version comparison of src/semver.c.  A version is a major and a minor *)
(* number and the patch string, a sequence of characters; the characters of  *)
(* Ascii are enough for every case the comparison distinguishes: a digit, a  *)
(* letter and the three separators.  A result has the sign strcmp(3) gives.  *)
EXTENDS Integers, Sequences, Functions, FiniteSetsExt, TLC

\* The characters, by their place in the ASCII order.
Ascii == "+" :> 1 @@ "-" :> 2 @@ "." :> 3 @@ "0" :> 4 @@ "1" :> 5 @@ "a" :> 6

Digit == "0" :> 0 @@ "1" :> 1

Sign(n) == IF n < 0 THEN -1 ELSE IF n > 0 THEN 1 ELSE 0

\* cc_oci_string_is_numeric: the empty string is numeric too.
StringIsNumeric(s) == \A i \in DOMAIN s : s[i] \in DOMAIN Digit

\* atoi, atol: the digits the string starts with.
Atol(s) ==
  LET digits == Max({n \in 0..Len(s) : StringIsNumeric(SubSeq(s, 1, n))})
      value[i \in 0..digits] == IF i = 0 THEN 0 ELSE 10 * value[i - 1] + Digit[s[i]]
  IN value[digits]

\* g_strstr_len, of one character: the place of the first c in s, or 0.
Strstr(s, c) == LET found == {i \in DOMAIN s : s[i] = c}
                IN IF found = {} THEN 0 ELSE Min(found)

\* g_strcmp0, on two strings that are both there.
Strcmp(a, b) ==
  LET n == IF Len(a) < Len(b) THEN Len(a) ELSE Len(b)
      differ == {i \in 1..n : a[i] # b[i]}
  IN IF differ = {} THEN Sign(Len(a) - Len(b))
     ELSE Sign(Ascii[a[Min(differ)]] - Ascii[b[Min(differ)]])

\* g_strsplit (s, ".", -1): the fields between the dots; none of "".
Strsplit(s) ==
  IF s = << >> THEN << >>
  ELSE LET fields[i \in 0..Len(s)] ==
             IF i = 0 THEN << << >> >>
             ELSE LET fs == fields[i - 1]
                  IN IF s[i] = "." THEN Append(fs, << >>)
                     ELSE [fs EXCEPT ![Len(fs)] = Append(@, s[i])]
       IN fields[Len(s)]

\* Mutant: numeric fields are compared as text.
CmpFieldText(fa, fb) == Strcmp(fa, fb)

\* cc_oci_semver_cmp_patch_pre_releases: the first field that differs decides.
CmpField(fa, fb) ==
  IF StringIsNumeric(fa) /\ StringIsNumeric(fb) THEN Sign(Atol(fa) - Atol(fb))
  ELSE Strcmp(fa, fb)

CmpPatchPreReleases(a, b) ==
  LET fa == Strsplit(a)
      fb == Strsplit(b)
      n == IF Len(fa) < Len(fb) THEN Len(fa) ELSE Len(fb)
      differ == {i \in 1..n : CmpField(fa[i], fb[i]) # 0}
  IN IF differ = {} THEN Sign(Len(fa) - Len(fb))
     ELSE CmpField(fa[Min(differ)], fb[Min(differ)])

\* cc_oci_semver_split_patch_version.  Both separators are looked for in the
\* whole string, and each one found ends the string before it.
SplitPatchVersion(p) ==
  LET meta == Strstr(p, "+")
      pre == Strstr(p, "-")
  IN [patch_num |-> Atol(p),
      is_pre |-> pre # 0,
      pre_release |-> SubSeq(p, pre + 1, IF meta > pre THEN meta - 1 ELSE Len(p))]

\* cc_oci_semver_cmp_patch_versions
CmpPatchVersions(a, b) ==
  LET va == SplitPatchVersion(a)
      vb == SplitPatchVersion(b)
  IN CASE va.patch_num # vb.patch_num -> Sign(va.patch_num - vb.patch_num)
       [] va.is_pre /\ ~vb.is_pre -> -1
       [] vb.is_pre /\ ~va.is_pre -> 1
       [] ~va.is_pre /\ ~vb.is_pre -> 0
       [] OTHER -> CmpPatchPreReleases(va.pre_release, vb.pre_release)

\* cc_oci_semver_cmp_fields
CmpFields(a, b, compatible) ==
  CASE a.major # b.major -> Sign(a.major - b.major)
    [] compatible -> 0
    [] a.minor # b.minor -> Sign(a.minor - b.minor)
    [] OTHER -> CmpPatchVersions(a.patch, b.patch)

SemverCmpFull(a, b) == CmpFields(a, b, FALSE)
SemverCmp(a, b) == CmpFields(a, b, TRUE)

-----------------------------------------------------------------------------
(* The precedence that the comments of semver.c state, as a relation.        *)

Core(p) == LET m == Strstr(p, "+")
           IN IF m = 0 THEN p ELSE SubSeq(p, 1, m - 1)

PreRelease(p) == LET d == Strstr(Core(p), "-")
                 IN IF d = 0 THEN << >> ELSE Strsplit(SubSeq(Core(p), d + 1, Len(Core(p))))

LexLess(x, y) == \/ Len(x) < Len(y) /\ x = SubSeq(y, 1, Len(x))
                 \/ \E i \in DOMAIN x \cap DOMAIN y :
                      /\ SubSeq(x, 1, i - 1) = SubSeq(y, 1, i - 1)
                      /\ Ascii[x[i]] < Ascii[y[i]]

IdLess(x, y) == \/ StringIsNumeric(x) /\ StringIsNumeric(y) /\ Atol(x) < Atol(y)
                \/ StringIsNumeric(x) /\ ~StringIsNumeric(y)
                \/ ~StringIsNumeric(x) /\ ~StringIsNumeric(y) /\ LexLess(x, y)

IdSame(x, y) == ~IdLess(x, y) /\ ~IdLess(y, x)

IdsLess(xs, ys) ==
  \E i \in DOMAIN ys :
    /\ \A j \in 1..(i - 1) : j \in DOMAIN xs /\ IdSame(xs[j], ys[j])
    /\ i \in DOMAIN xs => IdLess(xs[i], ys[i])

PatchLess(p, q) ==
  \/ Atol(p) < Atol(q)
  \/ /\ Atol(p) = Atol(q)
     /\ \/ PreRelease(p) # << >> /\ PreRelease(q) = << >>
        \/ /\ PreRelease(p) # << >> /\ PreRelease(q) # << >>
           /\ IdsLess(PreRelease(p), PreRelease(q))

Precedes(a, b) ==
  \/ a.major < b.major
  \/ a.major = b.major /\ a.minor < b.minor
  \/ a.major = b.major /\ a.minor = b.minor /\ PatchLess(a.patch, b.patch)

Number(p) == LET d == Strstr(Core(p), "-")
             IN IF d = 0 THEN Core(p) ELSE SubSeq(Core(p), 1, d - 1)

\* The patch strings <num>[-<pre_release_version>][+<build_metadata>] on which the
\* comparison keeps to that precedence: no "-" in the build metadata, and every
\* identifier that is not numeric starts with a letter.
PlainPatch(p) ==
  /\ Number(p) # << >> /\ StringIsNumeric(Number(p))
  /\ \A i \in (Len(Core(p)) + 1)..Len(p) : p[i] # "-"
  /\ "-" \in Range(Core(p)) => PreRelease(p) # << >>
  /\ \A id \in Range(PreRelease(p)) : id # << >> /\ (StringIsNumeric(id) \/ id[1] = "a")
=============================================================================

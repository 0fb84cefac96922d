---------------------------- MODULE V6PlusRules ----------------------------
(***************************************************************************)
(* The generated table of v6plus MAP rules (map/v6plus_rules.rs), one      *)
(* definition per /34.  An entry <<h, a, b, c, n>> stands for n rules: the *)
(* n consecutive IPv6 prefixes from third hextet h take the n consecutive  *)
(* IPv4 prefixes from a.b.c.0.                                             *)
(***************************************************************************)
EXTENDS Bits

LOCAL INSTANCE SequencesExt

\* A rule of the table: hextets h (three of them) and length r of the IPv6
\* prefix, octets o and length l of the IPv4 prefix, then ea_length,
\* psid_offset, psid_length and br_address.  Every rule has is_fmr set.
MapRule(h, r, o, l, ea, a, k, br) ==
    [ipv6_prefix |-> SubSeq(ToBits(h[1], 16) \o ToBits(h[2], 16) \o ToBits(h[3], 16), 1, r),
     ipv4_prefix |-> SubSeq(ToBits(o[1], 8) \o ToBits(o[2], 8) \o ToBits(o[3], 8), 1, l),
     ea_length |-> ea, offset |-> a, length |-> k, br_address |-> br]

\* The octets of the i-th prefix of length l from e's IPv4 prefix on.
NthOctets(e, l, i) ==
    LET v == (e[2] * 256 + e[3]) * 256 + e[4] + i * 2^(24 - l)
    IN  <<v \div 65536, (v \div 256) % 256, v % 256>>

\* The rules of the /34s of one /32, for each of the two /38 tables.
Expand(h1, h2, l, a, k, br, entries) ==
    FlattenSeq([j \in 1..Len(entries) |-> [i \in 1..entries[j][5] |->
        MapRule(<<h1, h2, entries[j][1] + (i - 1) * 1024>>, 38,
                NthOctets(entries[j], l, i - 1), l, 18, a, k, br)]])
ruleprefix38(h2, br, entries) == Expand(\h2404, h2, 22, 4, 8, br, entries)
ruleprefix38_20(h2, entries)  == Expand(\h2400, h2, 20, 6, 6, "2001:380:a120::9", entries)

\* A rule of the /31 table.
ruleprefix31(h1, h2, o1, o2, br) == MapRule(<<h1, h2, 0>>, 31, <<o1, o2, 0>>, 15, 25, 4, 8, br)

-----------------------------------------------------------------------------
R_2404_7a82_0 == <<
    <<\h0000, 125,196,208, 2>>, <<\h0800, 125,198,140, 2>>, <<\h1000, 125,198,212, 1>>,
    <<\h1400, 125,198,244, 1>>, <<\h1800, 122,131,104, 1>>, <<\h1c00, 125,195,20, 1>>,
    <<\h2000, 133,203,160, 8>> >>
R_2404_7a82_4 == <<
    <<\h4000, 133,209,0, 8>>, <<\h6000, 133,204,192, 8>> >>
R_2404_7a82_8 == <<
    <<\h8000, 133,203,224, 8>>, <<\ha000, 125,194,192, 4>>, <<\hb000, 119,239,128, 4>> >>
R_2404_7a82_c == <<
    <<\hc000, 125,194,32, 4>>, <<\hd000, 125,195,24, 2>>, <<\hd800, 122,130,192, 2>>,
    <<\he000, 122,135,64, 2>>, <<\he800, 125,192,240, 2>>, <<\hf000, 125,193,176, 2>>,
    <<\hf800, 122,130,176, 2>> >>
R_2404_7a83_0 == <<
    <<\h0000, 122,131,24, 4>>, <<\h1000, 119,243,112, 2>>, <<\h1800, 219,107,136, 2>>,
    <<\h2000, 220,144,224, 2>>, <<\h2800, 125,194,64, 2>>, <<\h3000, 221,171,40, 2>>,
    <<\h3800, 110,233,80, 2>> >>
R_2404_7a83_4 == <<
    <<\h4000, 119,241,184, 2>>, <<\h4800, 119,243,56, 2>>, <<\h5000, 125,199,8, 2>>,
    <<\h5800, 125,196,96, 2>>, <<\h6000, 122,130,104, 4>>, <<\h7000, 49,129,152, 2>>,
    <<\h7800, 49,129,192, 2>> >>
R_2404_7a83_8 == <<
    <<\h8000, 49,129,120, 2>>, <<\h8800, 221,170,40, 2>>, <<\h9000, 60,239,108, 1>>,
    <<\h9400, 60,236,24, 1>>, <<\h9800, 122,130,120, 1>>, <<\h9c00, 60,236,84, 1>>,
    <<\ha000, 60,239,180, 2>>, <<\ha800, 118,110,136, 1>>, <<\hac00, 119,242,136, 1>>,
    <<\hb000, 60,238,188, 1>>, <<\hb400, 60,238,204, 1>>, <<\hb800, 122,134,52, 1>>,
    <<\hbc00, 119,244,60, 1>> >>
R_2404_7a83_c == <<
    <<\hc000, 119,243,100, 1>>, <<\hc400, 221,170,236, 1>>, <<\hc800, 221,171,48, 1>>,
    <<\hcc00, 60,238,36, 1>>, <<\hd000, 125,195,236, 1>>, <<\hd400, 60,236,20, 1>>,
    <<\hd800, 118,108,76, 1>>, <<\hdc00, 118,110,108, 2>>, <<\he400, 118,111,88, 1>>,
    <<\he800, 118,111,228, 1>>, <<\hec00, 118,111,236, 1>>, <<\hf000, 119,241,148, 1>>,
    <<\hf400, 119,242,124, 1>>, <<\hf800, 125,194,28, 1>>, <<\hfc00, 125,194,96, 1>> >>
R_2404_7a86_0 == <<
    <<\h0000, 133,204,128, 16>> >>
R_2404_7a86_4 == <<
    <<\h4000, 133,203,192, 8>>, <<\h6000, 133,204,0, 8>> >>
R_2404_7a86_8 == <<
    <<\h8000, 133,204,64, 8>>, <<\ha000, 221,171,112, 4>>, <<\hb000, 125,195,184, 1>>,
    <<\hb400, 125,196,216, 1>>, <<\hb800, 221,171,108, 1>>, <<\hbc00, 219,107,152, 1>> >>
R_2404_7a86_c == <<
    <<\hc000, 60,239,128, 4>>, <<\hd000, 118,110,80, 4>>, <<\he000, 125,194,176, 4>>,
    <<\hf000, 60,239,112, 4>> >>
R_2404_7a87_0 == <<
    <<\h0000, 125,195,56, 2>>, <<\h0800, 125,196,32, 2>>, <<\h1000, 118,108,80, 2>>,
    <<\h1800, 118,111,80, 2>>, <<\h2000, 218,227,176, 2>>, <<\h2800, 60,239,208, 2>>,
    <<\h3000, 118,109,56, 2>>, <<\h3800, 122,131,88, 2>> >>
R_2404_7a87_4 == <<
    <<\h4000, 122,131,96, 2>>, <<\h4800, 122,130,48, 2>>, <<\h5000, 125,198,224, 2>>,
    <<\h5800, 119,243,104, 2>>, <<\h6000, 118,109,152, 2>>, <<\h6800, 118,111,104, 2>>,
    <<\h7000, 119,239,48, 2>>, <<\h7800, 122,130,16, 2>> >>
R_2404_7a87_8 == <<
    <<\h8000, 125,196,128, 2>>, <<\h8800, 122,131,48, 2>>, <<\h9000, 122,134,104, 2>>,
    <<\h9800, 60,238,208, 2>>, <<\ha000, 220,144,192, 2>>, <<\ha800, 110,233,48, 1>>,
    <<\hac00, 122,131,84, 1>>, <<\hb000, 111,169,152, 1>>, <<\hb400, 119,241,132, 2>>,
    <<\hbc00, 119,244,68, 1>> >>
R_2404_7a87_c == <<
    <<\hc000, 60,236,92, 1>>, <<\hc400, 60,237,108, 1>>, <<\hc800, 60,238,12, 1>>,
    <<\hcc00, 60,238,44, 1>>, <<\hd000, 60,238,216, 1>>, <<\hd400, 60,238,232, 1>>,
    <<\hd800, 49,129,72, 1>>, <<\hdc00, 110,233,4, 1>>, <<\he000, 110,233,192, 1>>,
    <<\he400, 119,243,20, 2>>, <<\hec00, 125,193,4, 1>>, <<\hf000, 125,193,148, 1>>,
    <<\hf400, 118,110,76, 1>>, <<\hf800, 118,110,96, 1>>, <<\hfc00, 125,193,152, 1>> >>
R_31 == <<
    ruleprefix31(\h2404, \h7a80, 133, 200, "2001:260:700:1::1:275"),
    ruleprefix31(\h2404, \h7a84, 133, 206, "2001:260:700:1::1:276"),
    ruleprefix31(\h240b, \h0010, 106, 72, "2404:9200:225:100::64"),
    ruleprefix31(\h240b, \h0012, 14, 8, "2404:9200:225:100::64"),
    ruleprefix31(\h240b, \h0250, 14, 10, "2404:9200:225:100::64"),
    ruleprefix31(\h240b, \h0252, 14, 12, "2404:9200:225:100::64")>>
R_2400_4050_0 == <<
    <<\h0000, 153,240,0, 16>> >>
R_2400_4050_4 == <<
    <<\h4000, 153,241,0, 16>> >>
R_2400_4050_8 == <<
    <<\h8000, 153,242,0, 16>> >>
R_2400_4050_c == <<
    <<\hc000, 153,243,0, 16>> >>
R_2400_4051_0 == <<
    <<\h0000, 122,26,0, 8>>, <<\h2000, 114,146,64, 4>>, <<\h3000, 114,148,192, 4>> >>
R_2400_4051_4 == <<
    <<\h4000, 114,150,192, 4>>, <<\h5000, 114,163,64, 8>>, <<\h7000, 114,167,64, 4>> >>
R_2400_4051_8 == <<
    <<\h8000, 114,172,192, 4>>, <<\h9000, 114,177,64, 4>>, <<\ha000, 118,0,64, 4>>,
    <<\hb000, 118,7,64, 4>> >>
R_2400_4051_c == <<
    <<\hc000, 118,8,192, 8>>, <<\he000, 123,218,64, 4>>, <<\hf000, 123,220,128, 4>> >>
R_2400_4052_0 == <<
    <<\h0000, 123,225,192, 4>>, <<\h1000, 153,134,0, 4>>, <<\h2000, 153,139,128, 4>>,
    <<\h3000, 153,151,64, 4>> >>
R_2400_4052_4 == <<
    <<\h4000, 153,170,64, 4>>, <<\h5000, 153,170,192, 4>>, <<\h6000, 61,127,128, 2>>,
    <<\h6800, 114,146,0, 2>>, <<\h7000, 114,146,128, 2>>, <<\h7800, 114,148,64, 2>> >>
R_2400_4052_8 == <<
    <<\h8000, 114,148,160, 2>>, <<\h8800, 114,149,0, 2>>, <<\h9000, 114,150,160, 2>>,
    <<\h9800, 114,158,0, 2>> >>
R_2400_4053_0 == <<
    <<\h0000, 114,162,128, 2>>, <<\h0800, 114,163,0, 2>>, <<\h1000, 114,165,224, 2>>,
    <<\h1800, 114,167,192, 2>>, <<\h2000, 114,177,128, 2>>, <<\h2800, 114,178,224, 2>>,
    <<\h3000, 118,1,0, 2>>, <<\h3800, 118,3,192, 2>> >>
R_2400_4053_4 == <<
    <<\h4000, 118,6,64, 2>>, <<\h4800, 118,7,160, 4>>, <<\h5800, 118,9,64, 2>>,
    <<\h6000, 118,9,128, 2>>, <<\h6800, 118,22,128, 2>>, <<\h7000, 122,16,0, 2>>,
    <<\h7800, 123,220,0, 2>> >>
R_2400_4053_8 == <<
    <<\h8000, 153,173,0, 16>> >>
R_2400_4053_c == <<
    <<\hc000, 153,238,0, 16>> >>
R_2400_4150_0 == <<
    <<\h0000, 153,239,0, 16>> >>
R_2400_4150_4 == <<
    <<\h4000, 153,252,0, 16>> >>
R_2400_4150_8 == <<
    <<\h8000, 123,222,96, 2>>, <<\h8800, 123,225,96, 2>>, <<\h9000, 123,225,160, 2>>,
    <<\h9800, 124,84,96, 2>> >>
R_2400_4151_0 == <<
    <<\h0000, 180,60,0, 16>> >>
R_2400_4151_4 == <<
    <<\h4000, 153,139,0, 8>>, <<\h6000, 219,161,128, 8>> >>
R_2400_4151_8 == <<
    <<\h8000, 153,187,0, 4>>, <<\h9000, 153,191,0, 4>>, <<\ha000, 180,12,64, 4>>,
    <<\hb000, 180,13,0, 4>> >>
R_2400_4151_c == <<
    <<\hc000, 124,84,128, 2>>, <<\hc800, 124,98,192, 2>>, <<\hd000, 124,100,0, 2>>,
    <<\hd800, 124,100,224, 2>> >>
R_2400_4152_0 == <<
    <<\h0000, 180,16,0, 4>>, <<\h1000, 180,29,128, 4>>, <<\h2000, 180,59,64, 4>>,
    <<\h3000, 219,161,0, 4>> >>
R_2400_4152_4 == <<
    <<\h4000, 153,129,160, 2>>, <<\h4800, 153,130,0, 2>>, <<\h5000, 153,131,96, 2>>,
    <<\h6000, 153,131,128, 2>>, <<\h6800, 153,132,128, 2>>, <<\h7000, 153,134,64, 2>>,
    <<\h7800, 153,137,0, 2>> >>
R_2400_4152_8 == <<
    <<\h8000, 153,139,192, 2>>, <<\h8800, 153,151,32, 2>>, <<\h9000, 153,156,96, 4>> >>
R_2400_4153_0 == <<
    <<\h0000, 153,165,96, 2>>, <<\h0800, 153,165,160, 2>>, <<\h1000, 153,171,224, 2>>,
    <<\h1800, 153,175,0, 2>>, <<\h2000, 153,181,0, 2>>, <<\h2800, 153,183,224, 2>>,
    <<\h3000, 153,184,128, 2>>, <<\h3800, 153,187,224, 2>> >>
R_2400_4153_4 == <<
    <<\h4000, 220,106,32, 2>>, <<\h4800, 153,188,0, 2>>, <<\h5000, 153,190,128, 2>>,
    <<\h5800, 153,191,64, 2>>, <<\h6000, 153,191,192, 2>>, <<\h6800, 153,194,96, 2>>,
    <<\h7000, 220,106,64, 2>> >>
R_2400_4153_8 == <<
    <<\h8000, 180,12,128, 2>>, <<\h8800, 180,26,96, 2>>, <<\h9000, 180,26,160, 2>>,
    <<\h9800, 180,26,224, 2>>, <<\ha000, 180,30,0, 2>>, <<\ha800, 180,31,96, 2>>,
    <<\hb000, 180,32,64, 2>>, <<\hb800, 180,34,160, 2>> >>
R_2400_4153_c == <<
    <<\hc000, 180,46,0, 2>>, <<\hc800, 180,48,0, 2>>, <<\hd000, 180,50,192, 2>>,
    <<\hd800, 180,53,0, 2>>, <<\he000, 218,230,128, 2>>, <<\he800, 219,161,64, 2>>,
    <<\hf000, 220,96,64, 2>>, <<\hf800, 220,99,0, 2>> >>

\* In the order of the array: ruleprefix38, ruleprefix31, ruleprefix38_20.
V6PLUS_MAP_RULES == FlattenSeq(<<
    ruleprefix38(\h7a82, "2001:260:700:1::1:275",
        R_2404_7a82_0 \o R_2404_7a82_4 \o R_2404_7a82_8 \o R_2404_7a82_c),
    ruleprefix38(\h7a83, "2001:260:700:1::1:275",
        R_2404_7a83_0 \o R_2404_7a83_4 \o R_2404_7a83_8 \o R_2404_7a83_c),
    ruleprefix38(\h7a86, "2001:260:700:1::1:276",
        R_2404_7a86_0 \o R_2404_7a86_4 \o R_2404_7a86_8 \o R_2404_7a86_c),
    ruleprefix38(\h7a87, "2001:260:700:1::1:276",
        R_2404_7a87_0 \o R_2404_7a87_4 \o R_2404_7a87_8 \o R_2404_7a87_c),
    R_31,
    ruleprefix38_20(\h4050,
        R_2400_4050_0 \o R_2400_4050_4 \o R_2400_4050_8 \o R_2400_4050_c),
    ruleprefix38_20(\h4051,
        R_2400_4051_0 \o R_2400_4051_4 \o R_2400_4051_8 \o R_2400_4051_c),
    ruleprefix38_20(\h4052,
        R_2400_4052_0 \o R_2400_4052_4 \o R_2400_4052_8),
    ruleprefix38_20(\h4053,
        R_2400_4053_0 \o R_2400_4053_4 \o R_2400_4053_8 \o R_2400_4053_c),
    ruleprefix38_20(\h4150,
        R_2400_4150_0 \o R_2400_4150_4 \o R_2400_4150_8),
    ruleprefix38_20(\h4151,
        R_2400_4151_0 \o R_2400_4151_4 \o R_2400_4151_8 \o R_2400_4151_c),
    ruleprefix38_20(\h4152,
        R_2400_4152_0 \o R_2400_4152_4 \o R_2400_4152_8),
    ruleprefix38_20(\h4153,
        R_2400_4153_0 \o R_2400_4153_4 \o R_2400_4153_8 \o R_2400_4153_c) >>)

\* The count the source asserts at compile time.
RULE_COUNT == 690
=============================================================================

----------------------------- MODULE LogTables ------------------------------
(***************************************************************************)
(* The tables of log, log2, pow and exp, cut to fixed point with 20 bits   *)
(* after the point. A row i stands for the i-th piece of [OFF, 2*OFF): c   *)
(* is near its middle, invc is 1/c, logc its logarithm and chi c itself.   *)
(***************************************************************************)
EXTENDS Integers

(* log_data.c: natural logarithms, 128 pieces.                             *)
log_invc == <<
    1520881, 1512312, 1503840, 1495462, 1487177, 1478983, 1470879, 1462864, 1454935,
    1447091, 1439332, 1431656, 1424061, 1416546, 1409110, 1401752, 1394470, 1387263,
    1380131, 1373071, 1366084, 1359167, 1352320, 1345541, 1338830, 1332186, 1325607,
    1319093, 1312643, 1306255, 1299930, 1293665, 1287460, 1281315, 1275228, 1269198,
    1263226, 1257309, 1251447, 1245640, 1239887, 1234186, 1228538, 1222940, 1217394,
    1211898, 1206452, 1201054, 1195704, 1190401, 1185146, 1179936, 1174772, 1169653,
    1164579, 1159548, 1154561, 1149616, 1144714, 1139853, 1135034, 1130255, 1125515,
    1120816, 1116156, 1111534, 1106950, 1102404, 1097895, 1093424, 1088988, 1084588,
    1080223, 1075894, 1071599, 1067338, 1063111, 1058917, 1054756, 1050628, 1044496,
    1036430, 1028488, 1020667, 1012964, 1005376, 997901, 990537, 983280, 976129,
    969081, 962134, 955286, 948535, 941879, 935315, 928842, 922459, 916162,
    909951, 903823, 897777, 891812, 885926, 880116, 874383, 868723, 863136,
    857621, 852176, 846800, 841491, 836247, 831069, 825955, 820904, 815913,
    810983, 806112, 801300, 796544, 791845, 787201, 782611, 778074, 773589,
    769156, 764773>>

log_logc == <<
    -389920, -383996, -378105, -372247, -366421, -360628, -354867, -349137, -343438,
    -337770, -332133, -326525, -320948, -315400, -309881, -304391, -298929, -293496,
    -288091, -282714, -277364, -272041, -266746, -261476, -256233, -251017, -245826,
    -240660, -235520, -230405, -225315, -220249, -215208, -210191, -205198, -200228,
    -195282, -190359, -185459, -180582, -175728, -170895, -166086, -161297, -156531,
    -151787, -147063, -142361, -137680, -133020, -128380, -123761, -119162, -114582,
    -110024, -105484, -100964, -96464, -91983, -87521, -83078, -78654, -74248,
    -69860, -65491, -61140, -56807, -52492, -48195, -43915, -39652, -35407,
    -31179, -26968, -22774, -18596, -14435, -10290, -6162, -2050, 4088,
    12217, 20283, 28287, 36231, 44115, 51940, 59707, 67418, 75071,
    82670, 90214, 97703, 105140, 112524, 119857, 127139, 134371, 141553,
    148686, 155771, 162808, 169799, 176743, 183642, 190495, 197304, 204069,
    210791, 217470, 224106, 230701, 237255, 243768, 250240, 256673, 263067,
    269422, 275739, 282018, 288259, 294464, 300632, 306764, 312861, 318922,
    324948, 330940>>

log_chi == <<
    722944, 727040, 731136, 735232, 739328, 743424, 747520, 751616, 755712,
    759808, 763904, 768000, 772096, 776192, 780288, 784384, 788480, 792576,
    796672, 800768, 804864, 808960, 813056, 817152, 821248, 825344, 829440,
    833536, 837632, 841728, 845824, 849920, 854016, 858112, 862208, 866304,
    870400, 874496, 878592, 882688, 886784, 890880, 894976, 899072, 903168,
    907264, 911360, 915456, 919552, 923648, 927744, 931840, 935936, 940032,
    944128, 948224, 952320, 956416, 960512, 964608, 968704, 972800, 976896,
    980992, 985088, 989184, 993280, 997376, 1001472, 1005568, 1009664, 1013760,
    1017856, 1021952, 1026048, 1030144, 1034240, 1038336, 1042432, 1046528, 1052672,
    1060864, 1069056, 1077248, 1085440, 1093632, 1101824, 1110016, 1118208, 1126400,
    1134592, 1142784, 1150976, 1159168, 1167360, 1175552, 1183744, 1191936, 1200128,
    1208320, 1216512, 1224704, 1232896, 1241088, 1249280, 1257472, 1265664, 1273856,
    1282048, 1290240, 1298432, 1306624, 1314816, 1323008, 1331200, 1339392, 1347584,
    1355776, 1363968, 1372160, 1380352, 1388544, 1396736, 1404928, 1413120, 1421312,
    1429504, 1437696>>

(* log2_data.c: logarithms to base two, 64 pieces.                         *)
log2_invc == <<
    1516584, 1499639, 1483069, 1466860, 1451003, 1435484, 1420293, 1405421, 1390857,
    1376592, 1362617, 1348922, 1335500, 1322342, 1309441, 1296790, 1284380, 1272206,
    1260261, 1248537, 1237030, 1225733, 1214640, 1203746, 1193046, 1182535, 1172207,
    1162058, 1152084, 1142279, 1132639, 1123161, 1113840, 1104672, 1095655, 1086783,
    1078054, 1069464, 1061010, 1052688, 1040447, 1024563, 1009156, 994205, 979691,
    965595, 951899, 938585, 925639, 913046, 900790, 888859, 877240, 865921,
    854890, 844137, 833650, 823422, 813441, 803699, 794188, 784899, 775825,
    766958>>

log2_logc == <<
    -558256, -541258, -524450, -507825, -491382, -475116, -459022, -443098, -427340,
    -411744, -396307, -381026, -365899, -350921, -336089, -321402, -306856, -292449,
    -278177, -264039, -250032, -236153, -222400, -208772, -195264, -181877, -168607,
    -155453, -142411, -129482, -116661, -103948, -91342, -78840, -66440, -54141,
    -41941, -29839, -17833, -5921, 11773, 35046, 57968, 80547, 102794,
    124719, 146330, 167637, 188648, 209372, 229815, 249985, 269891, 289537,
    308932, 328082, 346992, 365668, 384117, 402343, 420352, 438150, 455741,
    473129>>

log2_chi == <<
    724992, 733184, 741376, 749568, 757760, 765952, 774144, 782336, 790528,
    798720, 806912, 815104, 823296, 831488, 839680, 847872, 856064, 864256,
    872448, 880640, 888832, 897024, 905216, 913408, 921600, 929792, 937984,
    946176, 954368, 962560, 970752, 978944, 987136, 995328, 1003520, 1011712,
    1019904, 1028096, 1036288, 1044480, 1056768, 1073152, 1089536, 1105920, 1122304,
    1138688, 1155072, 1171456, 1187840, 1204224, 1220608, 1236992, 1253376, 1269760,
    1286144, 1302528, 1318912, 1335296, 1351680, 1368064, 1384448, 1400832, 1417216,
    1433600>>

(* pow_data.c: natural logarithms, 128 pieces; 1/c has few bits, and the   *)
(* pieces start at another OFF.                                            *)
pow_invc == <<
    1482752, 1474560, 1466368, 1458176, 1449984, 1441792, 1433600, 1425408, 1417216,
    1409024, 1400832, 1400832, 1392640, 1384448, 1376256, 1368064, 1359872, 1351680,
    1351680, 1343488, 1335296, 1327104, 1318912, 1310720, 1310720, 1302528, 1294336,
    1286144, 1286144, 1277952, 1269760, 1261568, 1261568, 1253376, 1245184, 1245184,
    1236992, 1228800, 1228800, 1220608, 1212416, 1204224, 1204224, 1196032, 1196032,
    1187840, 1179648, 1179648, 1171456, 1163264, 1163264, 1155072, 1155072, 1146880,
    1138688, 1138688, 1130496, 1130496, 1122304, 1114112, 1114112, 1105920, 1105920,
    1097728, 1097728, 1089536, 1089536, 1081344, 1081344, 1073152, 1064960, 1064960,
    1056768, 1056768, 1048576, 1048576, 1040384, 1032192, 1024000, 1015808, 1007616,
    999424, 991232, 987136, 978944, 970752, 962560, 958464, 950272, 942080,
    937984, 929792, 925696, 917504, 913408, 905216, 901120, 892928, 888832,
    880640, 876544, 872448, 864256, 860160, 851968, 847872, 843776, 839680,
    831488, 827392, 823296, 819200, 811008, 806912, 802816, 798720, 794624,
    790528, 782336, 778240, 774144, 770048, 765952, 761856, 757760, 753664,
    749568, 745472>>

pow_logc == <<
    -363297, -357487, -351646, -345771, -339864, -333923, -327948, -321939, -315895,
    -309817, -303703, -303703, -297552, -291366, -285143, -278883, -272585, -266249,
    -266249, -259875, -253462, -247009, -240516, -233983, -233983, -227409, -220793,
    -214136, -214136, -207435, -200692, -193905, -193905, -187074, -180198, -180198,
    -173277, -166309, -166309, -159296, -152234, -145125, -145125, -137968, -137968,
    -130761, -123504, -123504, -116197, -108839, -108839, -101428, -101428, -93965,
    -86448, -86448, -78877, -78877, -71251, -63570, -63570, -55831, -55831,
    -48035, -48035, -40180, -40180, -32266, -32266, -24292, -16257, -16257,
    -8160, -8160, 0, 0, 8224, 16513, 24869, 33291, 41781,
    50341, 58972, 63314, 72052, 80863, 89750, 94221, 103222, 112301,
    116870, 126068, 130697, 140018, 144709, 154156, 158912, 168488, 173309,
    183018, 187906, 192818, 202710, 207691, 217726, 222779, 227857, 232959,
    243240, 248418, 253622, 258852, 269390, 274699, 280036, 285399, 290790,
    296209, 307132, 312636, 318170, 323733, 329325, 334947, 340600, 346284,
    351998, 357743>>

(* exp_data.c: the pattern of 2^(i/128), rounded to its first 24 bits,    *)
(* from which i/128 of a unit of the exponent field is taken away.        *)
exp_tab == <<
    4190208, 4190198, 4190189, 4190179, 4190170, 4190160, 4190151, 4190142,
    4190133, 4190125, 4190116, 4190107, 4190099, 4190091, 4190083, 4190075,
    4190067, 4190059, 4190051, 4190044, 4190037, 4190029, 4190022, 4190015,
    4190008, 4190002, 4189995, 4189989, 4189983, 4189976, 4189971, 4189965,
    4189959, 4189953, 4189948, 4189943, 4189938, 4189933, 4189928, 4189923,
    4189919, 4189914, 4189910, 4189906, 4189902, 4189898, 4189895, 4189891,
    4189888, 4189885, 4189882, 4189879, 4189876, 4189874, 4189871, 4189869,
    4189867, 4189865, 4189863, 4189862, 4189860, 4189859, 4189858, 4189857,
    4189857, 4189856, 4189856, 4189855, 4189855, 4189856, 4189856, 4189856,
    4189857, 4189858, 4189859, 4189860, 4189862, 4189863, 4189865, 4189867,
    4189869, 4189871, 4189874, 4189876, 4189879, 4189882, 4189886, 4189889,
    4189893, 4189896, 4189900, 4189905, 4189909, 4189914, 4189918, 4189923,
    4189929, 4189934, 4189940, 4189945, 4189951, 4189958, 4189964, 4189971,
    4189978, 4189985, 4189992, 4189999, 4190007, 4190015, 4190023, 4190032,
    4190040, 4190049, 4190058, 4190067, 4190077, 4190086, 4190096, 4190106,
    4190117, 4190127, 4190138, 4190149, 4190160, 4190172, 4190184, 4190196>>
=============================================================================
